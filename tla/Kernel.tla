------------------------------- MODULE Kernel -------------------------------
(***************************************************************************)
(* The system calls together: the process calls of Process with what halt  *)
(* and execute do to the descriptors of FileDescriptors, the file calls,   *)
(* and the two ways in which the kernel stops: a call through a jump       *)
(* table entry that is no code, and an exception of the user's program.    *)
(* Every exception handler of idt.c ends in while(1) with interrupts off.  *)
(***************************************************************************)
EXTENDS Process, FileDescriptors

ASSUME KernelAssumption == FilePids = Pids   \* a PCB for each pid

VARIABLE stuck   \* "no", "jump" or "exception"

kvars == <<vars, fds, stuck>>

KTypeOK ==
    /\ TypeOK
    /\ FdsTypeOK
    /\ stuck \in {"no", "jump", "exception"}

KInit == Init /\ FdsInit /\ stuck = "no"

(* The process whose PCB a call uses.                                      *)
Newest == Halting
NewestAfter == IF curr_pids'[Shown] = NoPid THEN 0 ELSE curr_pids'[Shown]

-----------------------------------------------------------------------------
(* Calls of Process, with their effect on the descriptors.                 *)

KBootShell == BootShell /\ UNCHANGED <<fds, stuck>>
KOtherEntry == OtherEntry /\ UNCHANGED <<fds, stuck>>
KSwitchTerminal == SwitchTerminal /\ UNCHANGED <<fds, stuck>>
KExecute == Execute /\ UNCHANGED <<fds, stuck>>

(* execute returns before it has a PCB if there is no pid, and otherwise   *)
(* closes what is open in the PCB unassign_pid fell back to.               *)
KExecuteFails ==
    /\ ExecuteFails
    /\ \/ PidsFull(pid_arr) /\ UNCHANGED fds
       \/ \E pid \in Pids : FirstFree(pid_arr, pid) /\ CloseAll(NewestAfter, pid)
    /\ UNCHANGED stuck

(* halt falls back to the parent first and closes afterwards.              *)
KHaltBase == HaltBase /\ CloseAll(Newest, Newest) /\ UNCHANGED stuck
KHaltChild == HaltChild /\ CloseAll(NewestAfter, Newest) /\ UNCHANGED stuck

-----------------------------------------------------------------------------
(* File calls.                                                             *)

FileCall ==
    /\ running \in Pids
    /\ frame' = SystemCall
    /\ UNCHANGED <<pid_arr, curr_pids, term_pid, current_terminal, pcb, page,
                   esp0, running>>

Open == FileCall /\ OpenFile(Newest) /\ UNCHANGED stuck
Close == FileCall /\ CloseFile(Newest) /\ UNCHANGED stuck

(* A failed call, or one a driver serves, only enters and leaves: that is  *)
(* KOtherEntry.  The others are left.                                      *)
Read ==
    /\ FileCall
    /\ \E i \in 0 .. MaxOpenFiles : "jump" \in ReadOutcomes(Newest, i)
    /\ stuck' = "jump"
    /\ UNCHANGED fds

Write ==
    /\ FileCall
    /\ \E i \in 0 .. MaxOpenFiles : "jump" \in WriteOutcomes(Newest, i)
    /\ stuck' = "jump"
    /\ UNCHANGED fds

(* A division by zero, a page fault, ... of the running program.           *)
UserException ==
    /\ running \in Pids
    /\ stuck' = "exception"
    /\ UNCHANGED <<vars, fds>>

KNext ==
    /\ stuck = "no"
    /\ \/ KBootShell \/ KOtherEntry \/ KSwitchTerminal
       \/ KExecute \/ KExecuteFails \/ KHaltBase \/ KHaltChild
       \/ Open \/ Close \/ Read \/ Write \/ UserException

KSpec == KInit /\ [][KNext]_kvars

-----------------------------------------------------------------------------
(* A slot that counts as open leads to a driver, so read, which checks the *)
(* flag, never follows a table entry nobody set, not even in a PCB a       *)
(* former process left behind.                                             *)
ActiveHasDriver ==
    \A p \in Pids, i \in Slots : Active(p, i) => fds[p][i].ops \in Drivers

(* Who starts has no descriptor open, though allocate_pcb initialises none *)
(* but stdin and stdout: the PCB of a pid that is free has none open.      *)
FreePidsHoldNoFiles ==
    \A p \in Pids, i \in Slots : Active(p, i) => Live(p)

-----------------------------------------------------------------------------
(* What comments and tests say and the code does not do.                   *)

(* "close all file descriptors" (halt) is said of the process that halts:  *)
(* the parent goes on with the descriptors it had.                         *)
HaltKeepsParentsFiles ==
    [][KHaltChild => fds'[pcb[Newest].parent] = fds[pcb[Newest].parent]]_kvars

(* "try to read and write from unopened fd's 2-7" expects -1 of every call *)
(* (ece391syserr.c: err_unopened).                                         *)
UnopenedFails ==
    running \in Pids =>
        \A i \in Slots : ~Active(Newest, i) =>
            ReadOutcomes(Newest, i) = {"fail"} /\ WriteOutcomes(Newest, i) = {"fail"}

=============================================================================
