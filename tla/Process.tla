------------------------------ MODULE Process ------------------------------
(***************************************************************************)
(* Processes of painOS: execute, halt and the pid / PCB / paging / TSS     *)
(* bookkeeping behind them (syscall.c), the PIT tick that boots one shell  *)
(* per terminal (pit.c, scheduling.c) and Alt+Fn (terminal.c).             *)
(*                                                                         *)
(* There is one CPU and no scheduler.  A process runs until it executes    *)
(* another one, which nests a new user context on top of its kernel stack, *)
(* or halts, which pops the context its execute call saved.  Kernel code   *)
(* runs with interrupts off except where it spins for input, so a handler  *)
(* is one step.  Every entry to the kernel pushes on the stack tss.esp0    *)
(* names and so overwrites what lay there.                                 *)
(*                                                                         *)
(* A kernel stack is a row of levels: an entry made while tss.esp0 is at   *)
(* level d of a stack leaves its frame at level d + 1 and may use every    *)
(* level below; level 0 is the stack's base.                               *)
(***************************************************************************)
EXTENDS Integers

CONSTANTS
    MaxTerminals,  \* terminal.h: MAX_TERMINALS
    ProcessLimit,  \* syscall.h: PROCESS_LIMIT
    MaxDepth,      \* bound: levels of a kernel stack (8 KB hold a few dozen)
    UserSwitches,  \* does the user press Alt+Fn?
    EarlyCommands  \* does a shell get a command before every shell is up?

ASSUME ProcessAssumption ==
    /\ MaxTerminals \in Nat \ {0}
    /\ ProcessLimit \in Nat
    /\ MaxTerminals <= ProcessLimit
    /\ MaxDepth \in Nat \ {0}
    /\ UserSwitches \in BOOLEAN
    /\ EarlyCommands \in BOOLEAN

Terminals == 0 .. MaxTerminals - 1
Pids == 0 .. ProcessLimit - 1

NoPid == -1   \* curr_pids[t] before the shell of t is up; no page mapped
Boot == -1    \* the context of entry(), which idles in hlt
Lost == -2    \* control left for an address no frame holds

VARIABLES
    pid_arr,           \* pid_arr[p] = 1: pid p is taken
    curr_pids,         \* newest pid of each terminal
    term_pid,          \* terminals[t].curr_pid, a second copy of curr_pids
    current_terminal,  \* the terminal on display, counted from 1
    pcb,               \* the PCB of each pid: pid and parent.pid
    frame,             \* of each process: where parent.ksp points, and what
                       \* returning through the frame there now resumes
    page,              \* the pid whose 4 MB page is mapped at 128 MB
    esp0,              \* tss.esp0: where the next kernel entry pushes
    running            \* whose context the CPU executes

vars == <<pid_arr, curr_pids, term_pid, current_terminal, pcb, frame, page,
          esp0, running>>

Contexts == Pids \cup {Boot, Lost}
StackAddr == [stack : Pids, depth : 0 .. MaxDepth]
BaseOf(pid) == [stack |-> pid, depth |-> 0]

(* parent.ksp of a process that was never started, or has ended and so has *)
(* no use for it.                                                          *)
NoFrame == [at |-> BaseOf(0), owner |-> Lost]

TypeOK ==
    /\ pid_arr \in [Pids -> {0, 1}]
    /\ curr_pids \in [Terminals -> Pids \cup {NoPid}]
    /\ term_pid \in [Terminals -> Pids \cup {NoPid}]
    /\ current_terminal \in 1 .. MaxTerminals
    /\ pcb \in [Pids -> [pid : Pids, parent : Pids]]
    /\ frame \in [Pids -> [at : StackAddr, owner : Contexts]]
    /\ page \in Pids \cup {NoPid}
    /\ esp0 \in StackAddr
    /\ running \in Contexts

(* entry() runs on the stack whose base, 8 MB, is also that of pid 0.      *)
Init ==
    /\ pid_arr = [p \in Pids |-> 0]
    /\ curr_pids = [t \in Terminals |-> NoPid]
    /\ term_pid = [t \in Terminals |-> NoPid]
    /\ current_terminal = 1
    /\ pcb = [p \in Pids |-> [pid |-> 0, parent |-> 0]]
    /\ frame = [p \in Pids |-> NoFrame]
    /\ page = NoPid
    /\ esp0 = BaseOf(0)
    /\ running = Boot

-----------------------------------------------------------------------------
(* Helpers of syscall.c.                                                   *)

Shown == current_terminal - 1                        \* get_current_terminal_idx
Latest(t) == IF curr_pids[t] = NoPid THEN 0 ELSE curr_pids[t]
AllBooted == \A t \in Terminals : curr_pids[t] # NoPid

FirstFree(arr, pid) ==
    /\ arr[pid] = 0
    /\ \A q \in Pids : q < pid => arr[q] = 1

PidsFull(arr) == \A q \in Pids : arr[q] = 1

(* Mutants: no base shells; no default for a terminal without a process.   *)
ParentOf_NoBase(pid, latest) == IF latest = NoPid THEN 0 ELSE latest
ParentOf_NoDefault(pid, latest) == IF pid < MaxTerminals THEN pid ELSE latest

(* allocate_pcb takes the terminal's newest pid as the parent, and execute *)
(* overrides it: pids below MaxTerminals are base shells, their own        *)
(* parents.                                                                *)
ParentOf(pid, latest) ==
    IF pid < MaxTerminals THEN pid
    ELSE IF latest = NoPid THEN 0 ELSE latest

(* Where a kernel entry leaves its frame, and the saved frames once it has *)
(* pushed: one at its own level now leads where the entry left it (leads   *)
(* to the entry's own caller after a system call, all of which enter alike,*)
(* and nowhere after an interrupt), one below is destroyed.                *)
EntryAddr == [stack |-> esp0.stack, depth |-> esp0.depth + 1]
Entry(left) ==
    [p \in Pids |->
        IF frame[p].at.stack # esp0.stack \/ frame[p].at.depth <= esp0.depth
        THEN frame[p]
        ELSE [frame[p] EXCEPT
                !.owner = IF frame[p].at = EntryAddr THEN left ELSE Lost]]
SystemCall == Entry(running)
Interrupt == Entry(Lost)

(* Mutants: the terminal keeps the freed pid; it falls back to the first   *)
(* base shell.                                                             *)
FallBack_Forgotten(cur, arr, pid, parent) == cur
FallBack_ToBase(cur, arr, pid, parent) ==
    IF arr[pid] = 1 THEN [cur EXCEPT ![Shown] = MaxTerminals - 1] ELSE cur

(* unassign_pid: the pid is freed and the terminal on display falls back   *)
(* to the parent, unless the pid was free already.                         *)
Freed(arr, pid) == [arr EXCEPT ![pid] = 0]
FallBack(cur, arr, pid, parent) ==
    IF arr[pid] = 1 THEN [cur EXCEPT ![Shown] = parent] ELSE cur

(* Mutants: the TSS is not set up; the stack of the next pid is taken.     *)
NewEsp0_Kept(pid) == esp0
NewEsp0_NextPid(pid) == BaseOf(pid + 1)

(* setup_TSS: the stacks grow down from 8 MB in the order of the pids.     *)
NewEsp0(pid) == BaseOf(pid)

(* execute once the command is known to be good, in terminal t (the one on *)
(* display) with pid_arr = arr, curr_pids = cur and frames as at the call. *)
Spawn(t, arr, cur, frames) ==
    \E pid \in Pids :
        /\ FirstFree(arr, pid)
        /\ pid_arr' = [arr EXCEPT ![pid] = 1]
        /\ curr_pids' = [cur EXCEPT ![t] = pid]
        /\ term_pid' = [term_pid EXCEPT ![t] = pid]
        /\ pcb' = [pcb EXCEPT ![pid] = [pid |-> pid,
                                        parent |-> ParentOf(pid, cur[t])]]
        /\ frame' = [frames EXCEPT ![pid] = [at |-> EntryAddr,
                                             owner |-> running]]
        /\ page' = pid
        /\ esp0' = NewEsp0(pid)
        /\ running' = pid

(* Bound: no context is saved below level MaxDepth.                        *)
HasRoom == esp0.depth < MaxDepth

(* Commands come from a running process, by assumption only once every     *)
(* shell is up unless EarlyCommands.                                       *)
MayCommand == running \in Pids /\ (EarlyCommands \/ AllBooted)

-----------------------------------------------------------------------------
(* switch_task, on a PIT tick.                                             *)

(* Mutant: the first terminal is forgotten.                                *)
NextToBoot_NotFirst(t) ==
    /\ t > 0
    /\ curr_pids[t] = NoPid
    /\ \A u \in Terminals : u > t => curr_pids[u] # NoPid

(* The highest terminal with no shell is put on display and its shell is   *)
(* executed; if no pid is left execute returns -1, with the display moved. *)
NextToBoot(t) ==
    /\ curr_pids[t] = NoPid
    /\ \A u \in Terminals : u > t => curr_pids[u] # NoPid

BootShell ==
    /\ running # Lost
    /\ HasRoom
    /\ \E t \in Terminals :
        /\ NextToBoot(t)
        /\ current_terminal' = t + 1
        /\ \/ Spawn(t, pid_arr, curr_pids, Interrupt)
           \/ /\ PidsFull(pid_arr)
              /\ frame' = Interrupt
              /\ UNCHANGED <<pid_arr, curr_pids, term_pid, pcb, page, esp0,
                             running>>

(* Any other entry to the kernel: a system call that leaves processes      *)
(* alone, a later PIT tick, a keyboard or RTC interrupt.                   *)
OtherEntry ==
    /\ running # Lost
    /\ frame' \in {SystemCall, Interrupt}
    /\ UNCHANGED <<pid_arr, curr_pids, term_pid, current_terminal, pcb, page,
                   esp0, running>>

(* Alt+Fn shows another terminal; what runs does not change.               *)
SwitchTerminal ==
    /\ UserSwitches
    /\ running # Lost
    /\ \E n \in 1 .. MaxTerminals :
        /\ n # current_terminal
        /\ current_terminal' = n
    /\ frame' = Interrupt
    /\ UNCHANGED <<pid_arr, curr_pids, term_pid, pcb, page, esp0, running>>

-----------------------------------------------------------------------------
(* execute.                                                                *)

Execute ==
    /\ MayCommand
    /\ HasRoom
    /\ Spawn(Shown, pid_arr, curr_pids, SystemCall)
    /\ UNCHANGED current_terminal

(* No pid is left, or parse_command refuses the command: a pid was taken   *)
(* and its PCB filled in, and unassign_pid undoes what it can.             *)
ExecuteFails ==
    /\ MayCommand
    /\ \/ /\ PidsFull(pid_arr)
          /\ frame' = SystemCall
          /\ UNCHANGED <<curr_pids, term_pid, pcb>>
       \/ \E pid \in Pids :
            /\ FirstFree(pid_arr, pid)
            /\ LET parent == ParentOf(pid, curr_pids[Shown])
                   taken == [pid_arr EXCEPT ![pid] = 1]
               IN /\ curr_pids' = FallBack([curr_pids EXCEPT ![Shown] = pid],
                                           taken, pid, parent)
                  /\ term_pid' = FallBack([term_pid EXCEPT ![Shown] = pid],
                                          taken, pid, parent)
                  /\ pcb' = [pcb EXCEPT ![pid] = [pid |-> pid,
                                                  parent |-> parent]]
                  /\ frame' = [SystemCall EXCEPT ![pid] = NoFrame]
    /\ UNCHANGED <<pid_arr, current_terminal, page, esp0, running>>

-----------------------------------------------------------------------------
(* halt acts on the newest process of the terminal on display.             *)

Halting == Latest(Shown)
IsBase(p) == pcb[p].pid = pcb[p].parent

(* A base shell is replaced by a new one, executed from inside halt.       *)
HaltBase ==
    /\ MayCommand
    /\ HasRoom
    /\ IsBase(Halting)
    /\ LET self == pcb[Halting].pid
       IN Spawn(Shown, Freed(pid_arr, self),
                FallBack(curr_pids, pid_arr, self, self), SystemCall)
    /\ UNCHANGED current_terminal

(* Any other process goes back through the frame its execute call saved,   *)
(* as the kernel entries since, this one included, have left it.           *)
HaltChild ==
    /\ MayCommand
    /\ ~IsBase(Halting)
    /\ LET self == pcb[Halting].pid
           parent == pcb[Halting].parent
       IN /\ pid_arr' = Freed(pid_arr, self)
          /\ curr_pids' = FallBack(curr_pids, pid_arr, self, parent)
          /\ term_pid' = FallBack(term_pid, pid_arr, self, parent)
          /\ pcb' = [pcb EXCEPT ![Halting] = [pid |-> parent,
                                               parent |-> parent]]
          /\ page' = parent
          /\ esp0' = frame[Halting].at
          /\ running' = SystemCall[Halting].owner
          /\ frame' = [SystemCall EXCEPT ![Halting] = NoFrame]
    /\ UNCHANGED current_terminal

-----------------------------------------------------------------------------

Next == BootShell \/ OtherEntry \/ SwitchTerminal
            \/ Execute \/ ExecuteFails \/ HaltBase \/ HaltChild

(* The PIT interrupts 40 times a second wherever interrupts are on.        *)
Spec == Init /\ [][Next]_vars /\ WF_vars(BootShell)

-----------------------------------------------------------------------------
(* Properties whoever is on display, when no command comes before every    *)
(* shell is up.                                                            *)

Live(p) == pid_arr[p] = 1
Booted(t) == curr_pids[t] # NoPid
Tops == {curr_pids[t] : t \in {u \in Terminals : Booted(u)}}
Child(q, p) == Live(q) /\ q # p /\ pcb[q].parent = p

NewestAreLive == \A t \in Terminals : Booted(t) => Live(curr_pids[t])

NewestDiffer ==
    \A t, u \in Terminals : Booted(t) /\ curr_pids[t] = curr_pids[u] => t = u

ParentsAreLive ==
    \A p \in Pids : Live(p) => pcb[p].pid = p /\ Live(pcb[p].parent)

NewestHaveNoChild ==
    \A t \in Terminals, q \in Pids : Booted(t) => ~Child(q, curr_pids[t])

OthersHaveOneChild ==
    \A p \in Pids : Live(p) /\ p \notin Tops =>
        \E q \in Pids : Child(q, p) /\ \A r \in Pids : Child(r, p) => r = q

(* No pid leaks and none is shared: what assign_pid took is either the one *)
(* newest process of one terminal or waits for exactly one child, and both *)
(* records of the newest pid agree.                                        *)
PidsAccountedFor ==
    /\ NewestAreLive
    /\ NewestDiffer
    /\ ParentsAreLive
    /\ NewestHaveNoChild
    /\ OthersHaveOneChild
    /\ term_pid = curr_pids

(* The 4 MB page at 128 MB always belongs to a process that some terminal  *)
(* regards as its newest, never to one that ended or that waits.           *)
MappedIsNewest == page # NoPid => page \in Tops

(* The PIT tick gives every terminal its shell.                            *)
BootCompletes == <>AllBooted

-----------------------------------------------------------------------------
(* Properties of a user who stays on one terminal.                         *)

(* The process whose code runs is the one halt, execute and the file       *)
(* system calls take as the current one, and its own page is mapped.       *)
RunningIsNewest ==
    running \in Pids => running = curr_pids[Shown] /\ page = running

(* Returning through the frame execute saved resumes the parent for as     *)
(* long as the child lives, whatever entered the kernel in between: the    *)
(* next halt runs on the child's stack, and nothing pushes on the parent's.*)
FramesIntact ==
    \A p \in Pids : Live(p) /\ pcb[p].parent # p =>
        frame[p].owner = pcb[p].parent

(* Only the running process ever gives its pid back: "halts the currently  *)
(* running process" (halt).                                                *)
OnlyRunningDies ==
    [][\A p \in Pids : Live(p) /\ ~Live(p)' => p = running]_vars

(* A halt goes on in the parent's code with the parent's page mapped; a    *)
(* base shell is its own parent and starts again.                          *)
HaltResumesParent ==
    [][(HaltBase \/ HaltChild) =>
        /\ running' = pcb[running].parent
        /\ page' = running']_vars

-----------------------------------------------------------------------------
(* Properties that hold whatever the user does and whenever.               *)

(* halt never returns through the zero assign_pid's caller left in a PCB   *)
(* whose command was refused: a newest process that is no base shell has   *)
(* been started and not ended since.                                       *)
HaltHasFrame ==
    MayCommand /\ ~IsBase(Halting) => Live(Halting) /\ frame[Halting] # NoFrame

(* A terminal that ever had a process always has one again: switch_task    *)
(* boots no terminal twice.                                                *)
BootsOnce == [][\A t \in Terminals : Booted(t) => Booted(t)']_vars

-----------------------------------------------------------------------------
(* What comments of the code say and the code does not do.                 *)

(* "set esp0 to point to base of parent's kernel stack" (halt).            *)
HaltSetsEsp0ToBase == [][HaltChild => esp0' = BaseOf(esp0'.stack)]_vars

=============================================================================
