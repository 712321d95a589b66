--------------------------- MODULE ProcessProofs ---------------------------
(***************************************************************************)
(* Proofs about Process, for any number of terminals and pids.             *)
(***************************************************************************)
EXTENDS MCProcess, TLAPS, WellFoundedInduction

(* The shells come up in the order of the pids: terminal t gets BasePid(t).*)
BasePid(t) == MaxTerminals - 1 - t

(* Who is its own parent, and how far the boot has come.                   *)
BasesBooted ==
    /\ \A p \in Pids : Live(p) => (pcb[p].parent = p <=> p < MaxTerminals)
    /\ \A t \in Terminals : Booted(t) <=> Live(BasePid(t))
    /\ ~AllBooted =>
        /\ \A p \in Pids : Live(p) => p < MaxTerminals
        /\ \A t \in Terminals : Booted(t) => curr_pids[t] = BasePid(t)

TreeInv == PidsAccountedFor /\ BasesBooted /\ MappedIsNewest

Inv == TypeOK /\ TreeInv

(* On one terminal: the process on display runs, on its own stack and in   *)
(* its own page, and the frame of every waiting parent lies on that        *)
(* parent's stack, where nothing runs.                                     *)
OneSession ==
    /\ running # Lost
    /\ RunningIsNewest
    /\ running \in Pids => esp0.stack = running
    /\ running = Boot => \A t \in Terminals : ~Booted(t)
    /\ \A p \in Pids : Live(p) /\ pcb[p].parent # p =>
        /\ frame[p].owner = pcb[p].parent
        /\ frame[p].at.stack = pcb[p].parent

-----------------------------------------------------------------------------
(* Helpers.                                                                *)

LEMMA PidFacts ==
    /\ MaxTerminals \in Nat /\ MaxTerminals > 0
    /\ ProcessLimit \in Nat /\ MaxTerminals <= ProcessLimit
    /\ MaxDepth \in Nat /\ MaxDepth > 0
    /\ 0 \in Pids
    /\ NoPid \notin Pids /\ Boot \notin Pids /\ Lost \notin Pids
    /\ \A p \in Pids : p \in Nat /\ p < ProcessLimit
    /\ \A t \in Terminals : BasePid(t) \in Pids /\ BasePid(t) < MaxTerminals
BY ProcessAssumption
DEF ProcessAssumption, Pids, Terminals, NoPid, Boot, Lost, BasePid

LEMMA ParentType ==
    ASSUME NEW pid \in Pids, NEW latest \in Pids \cup {NoPid}
    PROVE  ParentOf(pid, latest) \in Pids
BY PidFacts DEF ParentOf

LEMMA EntryType ==
    ASSUME TypeOK, NEW left \in Contexts
    PROVE  Entry(left) \in [Pids -> [at : StackAddr, owner : Contexts]]
BY DEF TypeOK, Entry, Contexts

LEMMA FallBackType ==
    ASSUME TypeOK, NEW cur \in [Terminals -> Pids \cup {NoPid}],
           NEW arr, NEW pid, NEW parent \in Pids
    PROVE  FallBack(cur, arr, pid, parent) \in [Terminals -> Pids \cup {NoPid}]
BY DEF FallBack

(* A started process leaves every variable but the one on display typed.   *)
LEMMA SpawnType ==
    ASSUME TypeOK, HasRoom, NEW t \in Terminals,
           NEW arr \in [Pids -> {0, 1}],
           NEW cur \in [Terminals -> Pids \cup {NoPid}],
           NEW frames \in [Pids -> [at : StackAddr, owner : Contexts]],
           Spawn(t, arr, cur, frames), current_terminal' \in 1 .. MaxTerminals
    PROVE  TypeOK'
<1>1. PICK pid \in Pids :
        /\ pid_arr' = [arr EXCEPT ![pid] = 1]
        /\ curr_pids' = [cur EXCEPT ![t] = pid]
        /\ term_pid' = [term_pid EXCEPT ![t] = pid]
        /\ pcb' = [pcb EXCEPT ![pid] = [pid |-> pid,
                                        parent |-> ParentOf(pid, cur[t])]]
        /\ frame' = [frames EXCEPT ![pid] = [at |-> EntryAddr,
                                             owner |-> running]]
        /\ page' = pid
        /\ esp0' = NewEsp0(pid)
        /\ running' = pid
  BY DEF Spawn
<1>2. ParentOf(pid, cur[t]) \in Pids
  BY ParentType
<1>3. EntryAddr \in StackAddr
  BY PidFacts DEF EntryAddr, StackAddr, HasRoom, TypeOK
<1>4. NewEsp0(pid) \in StackAddr
  BY PidFacts DEF NewEsp0, BaseOf, StackAddr
<1>5. frame' \in [Pids -> [at : StackAddr, owner : Contexts]]
  BY <1>1, <1>3 DEF TypeOK
<1>6. pcb' \in [Pids -> [pid : Pids, parent : Pids]]
  BY <1>1, <1>2 DEF TypeOK
<1> QED
  BY <1>1, <1>4, <1>5, <1>6 DEF TypeOK, Contexts

-----------------------------------------------------------------------------
(* Types.                                                                  *)

LEMMA InitType == Init => TypeOK
BY PidFacts
DEF Init, TypeOK, BaseOf, NoFrame, StackAddr, Contexts

LEMMA StepType ==
    ASSUME TypeOK, [Next]_vars
    PROVE  TypeOK'
<1> USE PidFacts
<1>0. /\ Shown \in Terminals
      /\ Halting \in Pids
      /\ running \in Contexts /\ Lost \in Contexts
      /\ curr_pids \in [Terminals -> Pids \cup {NoPid}]
      /\ SystemCall \in [Pids -> [at : StackAddr, owner : Contexts]]
      /\ Interrupt \in [Pids -> [at : StackAddr, owner : Contexts]]
  <2>1. Shown \in Terminals
    BY DEF TypeOK, Shown, Terminals
  <2>2. Halting \in Pids
    BY <2>1 DEF TypeOK, Halting, Latest
  <2>3. running \in Contexts /\ Lost \in Contexts
    BY DEF TypeOK, Contexts
  <2> QED
    BY <2>1, <2>2, <2>3, EntryType DEF SystemCall, Interrupt, TypeOK
<1>1. CASE BootShell
  <2>1. PICK t \in Terminals :
          /\ current_terminal' = t + 1
          /\ \/ Spawn(t, pid_arr, curr_pids, Interrupt)
             \/ /\ frame' = Interrupt
                /\ UNCHANGED <<pid_arr, curr_pids, term_pid, pcb, page, esp0,
                               running>>
    BY <1>1 DEF BootShell
  <2>2. current_terminal' \in 1 .. MaxTerminals
    BY <2>1 DEF Terminals
  <2>3. CASE Spawn(t, pid_arr, curr_pids, Interrupt)
    <3>1. HasRoom /\ pid_arr \in [Pids -> {0, 1}]
      BY <1>1 DEF BootShell, TypeOK
    <3> QED
      BY <1>0, <2>2, <2>3, <3>1, SpawnType
  <2>4. CASE ~Spawn(t, pid_arr, curr_pids, Interrupt)
    BY <1>0, <2>1, <2>2, <2>4 DEF TypeOK
  <2> QED
    BY <2>3, <2>4
<1>2. CASE OtherEntry
  BY <1>0, <1>2 DEF OtherEntry, TypeOK
<1>3. CASE SwitchTerminal
  BY <1>0, <1>3 DEF SwitchTerminal, TypeOK
<1>4. CASE Execute
  <2>1. HasRoom /\ pid_arr \in [Pids -> {0, 1}]
        /\ current_terminal' \in 1 .. MaxTerminals
    BY <1>4 DEF Execute, TypeOK
  <2> QED
    BY <1>0, <1>4, <2>1, SpawnType DEF Execute
<1>5. CASE ExecuteFails
  <2>1. CASE PidsFull(pid_arr) /\ frame' = SystemCall
             /\ UNCHANGED <<curr_pids, term_pid, pcb>>
    BY <1>0, <1>5, <2>1 DEF ExecuteFails, TypeOK
  <2>2. ASSUME NEW pid \in Pids, NEW parent, NEW taken,
               parent = ParentOf(pid, curr_pids[Shown]),
               taken = [pid_arr EXCEPT ![pid] = 1],
               curr_pids' = FallBack([curr_pids EXCEPT ![Shown] = pid],
                                     taken, pid, parent),
               term_pid' = FallBack([term_pid EXCEPT ![Shown] = pid],
                                    taken, pid, parent),
               pcb' = [pcb EXCEPT ![pid] = [pid |-> pid, parent |-> parent]],
               frame' = [SystemCall EXCEPT ![pid] = NoFrame]
        PROVE  TypeOK'
    <3>1. parent \in Pids
      BY <1>0, <2>2, ParentType
    <3>2. /\ [curr_pids EXCEPT ![Shown] = pid] \in [Terminals -> Pids \cup {NoPid}]
          /\ [term_pid EXCEPT ![Shown] = pid] \in [Terminals -> Pids \cup {NoPid}]
      BY <1>0 DEF TypeOK
    <3>3. /\ curr_pids' \in [Terminals -> Pids \cup {NoPid}]
          /\ term_pid' \in [Terminals -> Pids \cup {NoPid}]
      BY <2>2, <3>1, <3>2, FallBackType
    <3>4. pcb' \in [Pids -> [pid : Pids, parent : Pids]]
      BY <2>2, <3>1 DEF TypeOK
    <3>5. frame' \in [Pids -> [at : StackAddr, owner : Contexts]]
      BY <1>0, <2>2 DEF NoFrame, StackAddr, BaseOf, Contexts
    <3> QED
      BY <1>5, <3>3, <3>4, <3>5 DEF ExecuteFails, TypeOK
  <2> QED
    BY <1>5, <2>1, <2>2 DEF ExecuteFails
<1>6. CASE HaltBase
  <2> DEFINE self == pcb[Halting].pid
  <2>1. self \in Pids
    BY <1>0 DEF TypeOK
  <2>2. HasRoom /\ current_terminal' \in 1 .. MaxTerminals
    BY <1>6 DEF HaltBase, TypeOK
  <2>3. Freed(pid_arr, self) \in [Pids -> {0, 1}]
    BY DEF Freed, TypeOK
  <2>4. FallBack(curr_pids, pid_arr, self, self)
          \in [Terminals -> Pids \cup {NoPid}]
    BY <1>0, <2>1, FallBackType
  <2> QED
    BY <1>0, <1>6, <2>2, <2>3, <2>4, SpawnType DEF HaltBase
<1>7. CASE HaltChild
  <2> DEFINE self == pcb[Halting].pid
             parent == pcb[Halting].parent
  <2>1. self \in Pids /\ parent \in Pids
    BY <1>0 DEF TypeOK
  <2>2. /\ pid_arr' = Freed(pid_arr, self)
        /\ curr_pids' = FallBack(curr_pids, pid_arr, self, parent)
        /\ term_pid' = FallBack(term_pid, pid_arr, self, parent)
        /\ pcb' = [pcb EXCEPT ![Halting] = [pid |-> parent, parent |-> parent]]
        /\ page' = parent
        /\ esp0' = frame[Halting].at
        /\ running' = SystemCall[Halting].owner
        /\ frame' = [SystemCall EXCEPT ![Halting] = NoFrame]
        /\ UNCHANGED current_terminal
    BY <1>7 DEF HaltChild
  <2>3. pid_arr' \in [Pids -> {0, 1}]
    BY <2>2 DEF Freed, TypeOK
  <2>4. /\ curr_pids' \in [Terminals -> Pids \cup {NoPid}]
        /\ term_pid' \in [Terminals -> Pids \cup {NoPid}]
    BY <2>1, <2>2, FallBackType DEF TypeOK
  <2>5. pcb' \in [Pids -> [pid : Pids, parent : Pids]]
    BY <2>1, <2>2 DEF TypeOK
  <2>6. frame' \in [Pids -> [at : StackAddr, owner : Contexts]]
    BY <1>0, <2>2 DEF NoFrame, StackAddr, BaseOf, Contexts
  <2>7. esp0' \in StackAddr /\ running' \in Contexts
    BY <1>0, <2>2 DEF TypeOK
  <2> QED
    BY <2>1, <2>2, <2>3, <2>4, <2>5, <2>6, <2>7 DEF TypeOK
<1>8. CASE UNCHANGED vars
  BY <1>8 DEF vars, TypeOK
<1> QED
  BY <1>1, <1>2, <1>3, <1>4, <1>5, <1>6, <1>7, <1>8 DEF Next

(* Every variable stays in its type: pids index the tables they are used   *)
(* on, and the stack levels stay within their bound.                       *)
THEOREM Typing == Spec => []TypeOK
<1>1. TypeOK /\ [Next]_vars => TypeOK'
  BY StepType
<1> QED
  BY InitType, <1>1, PTL DEF Spec

-----------------------------------------------------------------------------
(* The pids, when no command comes before every shell is up.               *)

LEMMA InTops ==
    /\ \A p : p \in Tops <=> \E t \in Terminals : Booted(t) /\ curr_pids[t] = p
    /\ \A p : p \in Tops' <=> \E t \in Terminals : Booted(t)' /\ curr_pids'[t] = p
BY DEF Tops, Booted

LEMMA InitTree == Init => TreeInv
<1> SUFFICES ASSUME Init PROVE TreeInv
  OBVIOUS
<1>1. \A p \in Pids : ~Live(p)
  BY DEF Init, Live
<1>2. \A t \in Terminals : ~Booted(t)
  BY DEF Init, Booted
<1>3. page = NoPid /\ term_pid = curr_pids
  BY DEF Init
<1>4. PidsAccountedFor
  BY <1>1, <1>2, <1>3
  DEF PidsAccountedFor, NewestAreLive, NewestDiffer, ParentsAreLive,
      NewestHaveNoChild, OthersHaveOneChild
<1>5. BasesBooted
  BY <1>1, <1>2, PidFacts DEF BasesBooted
<1> QED
  BY <1>3, <1>4, <1>5 DEF TreeInv, MappedIsNewest

(* TreeInv speaks of five variables only.                                  *)
LEMMA UnchangedTree ==
    ASSUME TreeInv, UNCHANGED <<pid_arr, curr_pids, term_pid, pcb, page>>
    PROVE  TreeInv'
BY DEF TreeInv, PidsAccountedFor, NewestAreLive, NewestDiffer, ParentsAreLive,
       NewestHaveNoChild, OthersHaveOneChild, BasesBooted, MappedIsNewest,
       Live, Booted, Child, Tops, AllBooted

(* What a command finds: the shells are up and hold the lowest pids, and   *)
(* the process halt and execute act on is a live one.                      *)
LEMMA AtCommand ==
    ASSUME Inv, AllBooted
    PROVE  /\ Shown \in Terminals
           /\ Halting = curr_pids[Shown]
           /\ Halting \in Pids /\ Live(Halting)
           /\ pcb[Halting].pid = Halting
           /\ pcb[Halting].parent \in Pids /\ Live(pcb[Halting].parent)
           /\ \A b \in Pids : b < MaxTerminals => Live(b)
<1>1. Shown \in Terminals
  BY PidFacts DEF Inv, TypeOK, Shown, Terminals
<1>2. Halting = curr_pids[Shown] /\ Halting \in Pids
  BY <1>1 DEF Inv, TypeOK, AllBooted, Halting, Latest
<1>3. Live(Halting)
  BY <1>1, <1>2 DEF Inv, TreeInv, PidsAccountedFor, NewestAreLive, AllBooted, Booted
<1>4. /\ pcb[Halting].pid = Halting
      /\ pcb[Halting].parent \in Pids /\ Live(pcb[Halting].parent)
  BY <1>2, <1>3 DEF Inv, TypeOK, TreeInv, PidsAccountedFor, ParentsAreLive
<1>5. ASSUME NEW b \in Pids, b < MaxTerminals
      PROVE  Live(b)
  <2> DEFINE t == MaxTerminals - 1 - b
  <2>1. t \in Terminals /\ BasePid(t) = b
    BY <1>5, PidFacts DEF Terminals, BasePid
  <2> QED
    BY <2>1 DEF Inv, TreeInv, BasesBooted, AllBooted, Booted
<1> QED
  BY <1>1, <1>2, <1>3, <1>4, <1>5

(* switch_task gives terminal t the pid BasePid(t), which it finds free.    *)
LEMMA BootShellFacts ==
    ASSUME Inv, BootShell
    PROVE  \E t \in Terminals : \E pid \in Pids :
             /\ ~Booted(t) /\ ~AllBooted
             /\ pid = BasePid(t) /\ pid < MaxTerminals /\ ~Live(pid)
             /\ current_terminal' = t + 1
             /\ pid_arr' = [pid_arr EXCEPT ![pid] = 1]
             /\ curr_pids' = [curr_pids EXCEPT ![t] = pid]
             /\ term_pid' = [term_pid EXCEPT ![t] = pid]
             /\ pcb' = [pcb EXCEPT ![pid] = [pid |-> pid, parent |-> pid]]
             /\ frame' = [Interrupt EXCEPT ![pid] = [at |-> EntryAddr,
                                                     owner |-> running]]
             /\ page' = pid /\ esp0' = NewEsp0(pid) /\ running' = pid
<1> USE PidFacts DEF Inv
<1>1. PICK t \in Terminals :
        /\ NextToBoot(t)
        /\ current_terminal' = t + 1
        /\ \/ Spawn(t, pid_arr, curr_pids, Interrupt)
           \/ PidsFull(pid_arr)
  BY DEF BootShell
<1>2. ~Booted(t) /\ ~AllBooted /\ pid_arr[BasePid(t)] = 0
  <2>1. ~Booted(t) /\ ~AllBooted
    BY <1>1 DEF NextToBoot, Booted, AllBooted
  <2>2. ~Live(BasePid(t))
    BY <2>1 DEF TreeInv, BasesBooted
  <2> QED
    BY <2>1, <2>2 DEF TypeOK, Live
<1>3. PICK pid \in Pids :
        /\ FirstFree(pid_arr, pid)
        /\ pid_arr' = [pid_arr EXCEPT ![pid] = 1]
        /\ curr_pids' = [curr_pids EXCEPT ![t] = pid]
        /\ term_pid' = [term_pid EXCEPT ![t] = pid]
        /\ pcb' = [pcb EXCEPT ![pid] = [pid |-> pid,
                                        parent |-> ParentOf(pid, curr_pids[t])]]
        /\ frame' = [Interrupt EXCEPT ![pid] = [at |-> EntryAddr,
                                                owner |-> running]]
        /\ page' = pid
        /\ esp0' = NewEsp0(pid)
        /\ running' = pid
  BY <1>1, <1>2 DEF Spawn, PidsFull
<1>4. pid = BasePid(t)
  <2>1. ASSUME NEW q \in Pids, q < BasePid(t)
        PROVE  pid_arr[q] = 1
    <3> DEFINE u == MaxTerminals - 1 - q
    <3>1. u \in Terminals /\ u > t /\ BasePid(u) = q
      BY <2>1 DEF Terminals, BasePid
    <3>2. Booted(u)
      BY <1>1, <3>1 DEF NextToBoot, Booted
    <3> QED
      BY <3>1, <3>2 DEF TreeInv, BasesBooted, Live
  <2>2. pid_arr[pid] = 0 /\ \A q \in Pids : q < pid => pid_arr[q] = 1
    BY <1>3 DEF FirstFree
  <2> QED
    BY <1>2, <2>1, <2>2
<1>5. pid < MaxTerminals /\ ParentOf(pid, curr_pids[t]) = pid /\ ~Live(pid)
  BY <1>2, <1>4 DEF ParentOf, Live
<1> QED
  BY <1>1, <1>2, <1>3, <1>4, <1>5

LEMMA BootShellTree ==
    ASSUME Inv, BootShell
    PROVE  TreeInv'
<1> USE PidFacts DEF Inv
<1>1. PICK t \in Terminals, pid \in Pids :
        /\ ~Booted(t) /\ ~AllBooted
        /\ pid = BasePid(t) /\ pid < MaxTerminals /\ ~Live(pid)
        /\ pid_arr' = [pid_arr EXCEPT ![pid] = 1]
        /\ curr_pids' = [curr_pids EXCEPT ![t] = pid]
        /\ term_pid' = [term_pid EXCEPT ![t] = pid]
        /\ pcb' = [pcb EXCEPT ![pid] = [pid |-> pid, parent |-> pid]]
        /\ page' = pid
  BY BootShellFacts
<1>2. \A p \in Pids : Live(p)' <=> Live(p) \/ p = pid
  BY <1>1 DEF TypeOK, Live
<1>3. \A u \in Terminals : /\ Booted(u)' <=> Booted(u) \/ u = t
                           /\ Booted(u)' => curr_pids'[u] = BasePid(u)
  BY <1>1 DEF TypeOK, Booted, TreeInv, BasesBooted
<1>4. \A p \in Pids : Live(p)' =>
        /\ p < MaxTerminals
        /\ pcb'[p].pid = p
        /\ pcb'[p].parent = p
  BY <1>1, <1>2
  DEF TypeOK, TreeInv, BasesBooted, PidsAccountedFor, ParentsAreLive
<1>5. \A u \in Terminals : Booted(u)' <=> Live(BasePid(u))'
  <2>1. \A u \in Terminals : BasePid(u) = pid <=> u = t
    BY <1>1 DEF BasePid, Terminals
  <2> QED
    BY <1>2, <1>3, <2>1 DEF TreeInv, BasesBooted
<1>6. ASSUME NEW p \in Pids, Live(p)'
      PROVE  p \in Tops'
  <2> DEFINE u == MaxTerminals - 1 - p
  <2>1. u \in Terminals /\ BasePid(u) = p
    BY <1>4, <1>6 DEF Terminals, BasePid
  <2> QED
    BY <1>3, <1>5, <1>6, <2>1, InTops
<1>7. NewestAreLive'
  BY <1>3, <1>5 DEF NewestAreLive
<1>8. NewestDiffer'
  <2> SUFFICES ASSUME NEW u \in Terminals, NEW v \in Terminals, Booted(u)',
                      curr_pids'[u] = curr_pids'[v]
               PROVE  u = v
    BY DEF NewestDiffer
  <2>1. Booted(v)'
    BY DEF Booted
  <2>2. BasePid(u) = BasePid(v)
    BY <1>3, <2>1
  <2> QED
    BY <2>2 DEF BasePid, Terminals
<1>9. ParentsAreLive'
  BY <1>4 DEF ParentsAreLive
<1>10. NewestHaveNoChild' /\ OthersHaveOneChild'
  BY <1>4, <1>6 DEF NewestHaveNoChild, OthersHaveOneChild, Child
<1>11. term_pid' = curr_pids'
  BY <1>1 DEF TreeInv, PidsAccountedFor
<1>12. BasesBooted'
  BY <1>3, <1>4, <1>5 DEF BasesBooted
<1>13. MappedIsNewest'
  BY <1>1, <1>2, <1>6 DEF MappedIsNewest
<1> QED
  BY <1>7, <1>8, <1>9, <1>10, <1>11, <1>12, <1>13
  DEF TreeInv, PidsAccountedFor

(* A command pushes: the free pid becomes the newest of its terminal and   *)
(* the one child of what was the newest.                                   *)
LEMMA ExecuteTree ==
    ASSUME Inv, AllBooted, Execute
    PROVE  TreeInv'
<1> DEFINE s == Shown
           P == curr_pids[s]
<1> USE PidFacts DEF Inv
<1>1. /\ s \in Terminals /\ P \in Pids /\ Live(P)
      /\ \A b \in Pids : b < MaxTerminals => Live(b)
  BY AtCommand
<1>2. PICK pid \in Pids :
        /\ FirstFree(pid_arr, pid)
        /\ pid_arr' = [pid_arr EXCEPT ![pid] = 1]
        /\ curr_pids' = [curr_pids EXCEPT ![s] = pid]
        /\ term_pid' = [term_pid EXCEPT ![s] = pid]
        /\ pcb' = [pcb EXCEPT ![pid] = [pid |-> pid,
                                        parent |-> ParentOf(pid, P)]]
        /\ page' = pid
  BY DEF Execute, Spawn
<1>3. ~Live(pid) /\ pid # P /\ ~(pid < MaxTerminals) /\ ParentOf(pid, P) = P
  <2>1. ~Live(pid)
    BY <1>2 DEF FirstFree, Live
  <2> QED
    BY <1>1, <2>1 DEF ParentOf
<1>4. \A q \in Pids : Live(q)' <=> Live(q) \/ q = pid
  BY <1>2 DEF TypeOK, Live
<1>5. /\ pcb'[pid].pid = pid /\ pcb'[pid].parent = P
      /\ \A q \in Pids : q # pid => pcb'[q] = pcb[q]
  BY <1>2, <1>3 DEF TypeOK
<1>6. \A t \in Terminals : /\ Booted(t) /\ Booted(t)'
                           /\ curr_pids'[t] = IF t = s THEN pid ELSE curr_pids[t]
  BY <1>2 DEF TypeOK, Booted, AllBooted
<1>7. TreeInv /\ PidsAccountedFor /\ BasesBooted
  BY DEF TreeInv, PidsAccountedFor
<1>8. \A q \in Pids : ~Child(q, pid)
  BY <1>3, <1>7 DEF Child, PidsAccountedFor, ParentsAreLive
<1>9. \A q, r \in Pids : Child(q, r)' <=> Child(q, r) \/ (q = pid /\ r = P)
  BY <1>3, <1>4, <1>5 DEF Child
<1>10. \A q \in Pids : ~Child(q, P)
  BY <1>1, <1>6, <1>7 DEF PidsAccountedFor, NewestHaveNoChild
<1>11. NewestAreLive'
  <2>1. \A t \in Terminals : curr_pids[t] \in Pids /\ Live(curr_pids[t])
    BY <1>6, <1>7 DEF NewestAreLive, PidsAccountedFor, TypeOK, Booted
  <2> QED
    BY <1>4, <1>6, <2>1 DEF NewestAreLive
<1>12. NewestDiffer'
  <2>1. \A t \in Terminals : curr_pids[t] # pid
    BY <1>3, <1>6, <1>7 DEF NewestAreLive, PidsAccountedFor
  <2> QED
    BY <1>6, <1>7, <2>1 DEF NewestDiffer, PidsAccountedFor
<1>13. ParentsAreLive'
  BY <1>1, <1>4, <1>5, <1>7 DEF ParentsAreLive, PidsAccountedFor, TypeOK
<1>14. NewestHaveNoChild'
  <2> SUFFICES ASSUME NEW t \in Terminals, NEW q \in Pids
               PROVE  ~Child(q, curr_pids[t])'
    BY DEF NewestHaveNoChild
  <2>1. CASE t = s
    BY <1>3, <1>6, <1>8, <1>9, <2>1
  <2>2. CASE t # s
    <3>1. curr_pids[t] \in Pids /\ curr_pids[t] # P
      BY <1>1, <1>6, <1>7, <2>2
      DEF NewestDiffer, PidsAccountedFor, TypeOK, Booted
    <3>2. ~Child(q, curr_pids[t])
      BY <1>6, <1>7 DEF NewestHaveNoChild, PidsAccountedFor
    <3> QED
      BY <1>6, <1>9, <2>2, <3>1, <3>2
  <2> QED
    BY <2>1, <2>2
<1>15. OthersHaveOneChild'
  <2> SUFFICES ASSUME NEW p \in Pids, Live(p)', p \notin Tops'
               PROVE  \E q \in Pids : /\ Child(q, p)'
                                      /\ \A r \in Pids : Child(r, p)' => r = q
    BY DEF OthersHaveOneChild
  <2>1. p # pid /\ Live(p)
    BY <1>1, <1>4, <1>6, InTops
  <2>2. CASE p = P
    BY <1>9, <1>10, <2>2
  <2>3. CASE p # P
    <3>1. p \notin Tops
      BY <1>6, <2>3, InTops
    <3>2. PICK q \in Pids : Child(q, p) /\ \A r \in Pids : Child(r, p) => r = q
      BY <1>7, <2>1, <3>1 DEF OthersHaveOneChild, PidsAccountedFor
    <3> QED
      BY <1>9, <2>3, <3>2
  <2> QED
    BY <2>2, <2>3
<1>16. term_pid' = curr_pids'
  BY <1>2, <1>7 DEF PidsAccountedFor
<1>17. BasesBooted'
  <2>1. \A p \in Pids : Live(p)' => (pcb'[p].parent = p <=> p < MaxTerminals)
    BY <1>3, <1>4, <1>5, <1>7 DEF BasesBooted
  <2>2. \A t \in Terminals : Booted(t)' <=> Live(BasePid(t))'
    BY <1>1, <1>4, <1>6
  <2>3. AllBooted'
    BY <1>6 DEF AllBooted, Booted
  <2> QED
    BY <2>1, <2>2, <2>3 DEF BasesBooted
<1>18. MappedIsNewest'
  BY <1>1, <1>2, <1>6, InTops DEF MappedIsNewest
<1> QED
  BY <1>11, <1>12, <1>13, <1>14, <1>15, <1>16, <1>17, <1>18
  DEF TreeInv, PidsAccountedFor

(* A refused command takes a pid and gives it back.                        *)
LEMMA ExecuteFailsTree ==
    ASSUME Inv, AllBooted, ExecuteFails
    PROVE  TreeInv'
<1> DEFINE s == Shown
           P == curr_pids[s]
<1> USE PidFacts DEF Inv
<1>1. /\ s \in Terminals /\ P \in Pids
      /\ \A b \in Pids : b < MaxTerminals => Live(b)
  BY AtCommand
<1>2. CASE UNCHANGED <<curr_pids, term_pid, pcb>>
  BY <1>2, UnchangedTree DEF ExecuteFails
<1>3. ASSUME NEW pid \in Pids, NEW taken, NEW parent,
             FirstFree(pid_arr, pid),
             taken = [pid_arr EXCEPT ![pid] = 1],
             parent = ParentOf(pid, P),
             curr_pids' = FallBack([curr_pids EXCEPT ![s] = pid],
                                   taken, pid, parent),
             term_pid' = FallBack([term_pid EXCEPT ![s] = pid],
                                  taken, pid, parent),
             pcb' = [pcb EXCEPT ![pid] = [pid |-> pid, parent |-> parent]]
      PROVE  TreeInv'
  <2>1. ~Live(pid)
    BY <1>3 DEF FirstFree, Live
  <2>2. parent = P
    BY <1>1, <1>3, <2>1 DEF ParentOf
  <2>3. taken[pid] = 1
    BY <1>3 DEF TypeOK
  <2>4. curr_pids' = curr_pids
    BY <1>1, <1>3, <2>2, <2>3 DEF FallBack, TypeOK
  <2>5. term_pid' = curr_pids
    BY <1>1, <1>3, <2>2, <2>3 DEF FallBack, TypeOK, TreeInv, PidsAccountedFor
  <2>6. pid_arr' = pid_arr /\ page' = page
    BY DEF ExecuteFails
  <2>7. \A q \in Pids : Live(q)' <=> Live(q)
    BY <2>6 DEF Live
  <2>8. \A q \in Pids : Live(q) => pcb'[q] = pcb[q]
    BY <1>3, <2>1 DEF TypeOK
  <2>9. \A q \in Pids : \A r : Child(q, r)' <=> Child(q, r)
    BY <2>7, <2>8 DEF Child
  <2>10. \A t \in Terminals : Booted(t)' <=> Booted(t)
    BY <2>4 DEF Booted
  <2>11. Tops' = Tops /\ AllBooted' = AllBooted
    BY <2>4 DEF Tops, Booted, AllBooted
  <2>12. NewestAreLive' /\ NewestDiffer' /\ NewestHaveNoChild'
    BY <2>4, <2>6, <2>9, <2>10
    DEF TreeInv, PidsAccountedFor, NewestAreLive, NewestDiffer,
        NewestHaveNoChild, Live
  <2>13. ParentsAreLive'
    BY <2>6, <2>7, <2>8 DEF TreeInv, PidsAccountedFor, ParentsAreLive, Live
  <2>14. OthersHaveOneChild'
    BY <2>7, <2>9, <2>11 DEF TreeInv, PidsAccountedFor, OthersHaveOneChild
  <2>15. BasesBooted'
    BY <2>4, <2>7, <2>8, <2>10, <2>11 DEF TreeInv, BasesBooted
  <2>16. MappedIsNewest'
    BY <2>6, <2>11 DEF TreeInv, MappedIsNewest
  <2> QED
    BY <2>4, <2>5, <2>12, <2>13, <2>14, <2>15, <2>16
    DEF TreeInv, PidsAccountedFor
<1> QED
  BY <1>2, <1>3 DEF ExecuteFails

(* A base shell that exits gets its own pid back, and with it its place.   *)
LEMMA HaltBaseFacts ==
    ASSUME Inv, AllBooted, HaltBase
    PROVE  /\ UNCHANGED <<pid_arr, curr_pids, term_pid, pcb, current_terminal>>
           /\ pcb[Halting].parent = Halting
           /\ page' = Halting /\ running' = Halting /\ esp0' = NewEsp0(Halting)
           /\ frame' = [SystemCall EXCEPT ![Halting] = [at |-> EntryAddr,
                                                        owner |-> running]]
<1> DEFINE s == Shown
           h == Halting
           arr == Freed(pid_arr, h)
<1> USE PidFacts DEF Inv
<1>1. /\ s \in Terminals /\ h = curr_pids[s] /\ h \in Pids /\ Live(h)
      /\ pcb[h].pid = h
      /\ \A b \in Pids : b < MaxTerminals => Live(b)
  BY AtCommand
<1>2. pcb[h].parent = h /\ h < MaxTerminals
  BY <1>1 DEF HaltBase, IsBase, TreeInv, BasesBooted
<1>3. FallBack(curr_pids, pid_arr, h, h) = curr_pids
  BY <1>1 DEF FallBack, TypeOK
<1>4. PICK pid \in Pids :
        /\ FirstFree(arr, pid)
        /\ pid_arr' = [arr EXCEPT ![pid] = 1]
        /\ curr_pids' = [curr_pids EXCEPT ![s] = pid]
        /\ term_pid' = [term_pid EXCEPT ![s] = pid]
        /\ pcb' = [pcb EXCEPT ![pid] = [pid |-> pid,
                                        parent |-> ParentOf(pid, curr_pids[s])]]
        /\ frame' = [SystemCall EXCEPT ![pid] = [at |-> EntryAddr,
                                                 owner |-> running]]
        /\ page' = pid
        /\ esp0' = NewEsp0(pid)
        /\ running' = pid
  BY <1>1, <1>3 DEF HaltBase, Spawn
<1>5. pid = h
  <2>1. arr \in [Pids -> {0, 1}] /\ arr[h] = 0
        /\ \A q \in Pids : q # h => arr[q] = pid_arr[q]
    BY <1>1 DEF Freed, TypeOK
  <2>2. ~(h < pid)
    BY <1>1, <1>4, <2>1 DEF FirstFree
  <2>3. ~(pid < h)
    BY <1>1, <1>2, <1>4, <2>1 DEF FirstFree, Live
  <2> QED
    BY <1>1, <2>2, <2>3
<1>6. pid_arr' = pid_arr
  BY <1>1, <1>4, <1>5 DEF Freed, TypeOK, Live
<1>7. curr_pids' = curr_pids /\ term_pid' = term_pid
  BY <1>1, <1>4, <1>5 DEF TypeOK, TreeInv, PidsAccountedFor
<1>8. pcb' = pcb
  <2>1. ParentOf(h, curr_pids[s]) = h
    BY <1>2 DEF ParentOf
  <2>2. pcb[h] = [pid |-> h, parent |-> h]
    BY <1>1, <1>2 DEF TypeOK
  <2> QED
    BY <1>1, <1>4, <1>5, <2>1, <2>2 DEF TypeOK
<1> QED
  BY <1>2, <1>4, <1>5, <1>6, <1>7, <1>8 DEF HaltBase

LEMMA HaltBaseTree ==
    ASSUME Inv, AllBooted, HaltBase
    PROVE  TreeInv'
<1>1. /\ UNCHANGED <<pid_arr, curr_pids, term_pid, pcb>>
      /\ page' = Halting
  BY HaltBaseFacts
<1>2. MappedIsNewest'
  <2>1. Shown \in Terminals /\ curr_pids'[Shown] = Halting /\ Halting \in Pids
    BY <1>1, AtCommand
  <2>2. page' \in Tops'
    BY <1>1, <2>1, InTops, PidFacts DEF Booted
  <2> QED
    BY <2>2 DEF MappedIsNewest
<1>3. PidsAccountedFor' /\ BasesBooted'
  BY <1>1
  DEF Inv, TreeInv, PidsAccountedFor, NewestAreLive, NewestDiffer,
      ParentsAreLive, NewestHaveNoChild, OthersHaveOneChild, BasesBooted,
      Live, Booted, Child, Tops, AllBooted
<1> QED
  BY <1>2, <1>3 DEF TreeInv

(* Any other exit pops: the parent, whose one child ends, is the newest.   *)
LEMMA HaltChildTree ==
    ASSUME Inv, AllBooted, HaltChild
    PROVE  TreeInv'
<1> DEFINE s == Shown
           h == Halting
           P == pcb[h].parent
<1> USE PidFacts DEF Inv
<1>1. /\ s \in Terminals /\ h = curr_pids[s] /\ h \in Pids /\ Live(h)
      /\ pcb[h].pid = h /\ P \in Pids /\ Live(P)
      /\ \A b \in Pids : b < MaxTerminals => Live(b)
  BY AtCommand
<1>2. P # h /\ ~(h < MaxTerminals)
  BY <1>1 DEF HaltChild, IsBase, TreeInv, BasesBooted
<1>3. /\ pid_arr' = [pid_arr EXCEPT ![h] = 0]
      /\ curr_pids' = [curr_pids EXCEPT ![s] = P]
      /\ term_pid' = [term_pid EXCEPT ![s] = P]
      /\ pcb' = [pcb EXCEPT ![h] = [pid |-> P, parent |-> P]]
      /\ page' = P
  BY <1>1 DEF HaltChild, Freed, FallBack, Live
<1>4. TreeInv /\ PidsAccountedFor /\ BasesBooted
  BY DEF TreeInv, PidsAccountedFor
<1>5. \A q \in Pids : Live(q)' <=> Live(q) /\ q # h
  BY <1>1, <1>3 DEF TypeOK, Live
<1>6. \A q \in Pids : q # h => pcb'[q] = pcb[q]
  BY <1>3 DEF TypeOK
<1>7. \A t \in Terminals : /\ Booted(t) /\ Booted(t)'
                           /\ curr_pids'[t] = IF t = s THEN P ELSE curr_pids[t]
  BY <1>1, <1>3 DEF TypeOK, Booted, AllBooted
<1>8. Child(h, P) /\ \A q \in Pids : ~Child(q, h)
  BY <1>1, <1>2, <1>4, <1>7 DEF Child, PidsAccountedFor, NewestHaveNoChild
<1>9. P \notin Tops
  BY <1>1, <1>4, <1>8, InTops DEF PidsAccountedFor, NewestHaveNoChild
<1>10. \A q, r \in Pids : r = P => ~Child(q, r)'
  <2>1. \A q \in Pids : Child(q, P) => q = h
    BY <1>1, <1>4, <1>8, <1>9 DEF PidsAccountedFor, OthersHaveOneChild
  <2> QED
    BY <1>5, <1>6, <2>1 DEF Child
<1>11. \A q, r \in Pids : Child(q, r)' <=> Child(q, r) /\ q # h
  BY <1>5, <1>6 DEF Child
<1>12. \A t \in Terminals : /\ curr_pids[t] \in Pids /\ Live(curr_pids[t])
                            /\ curr_pids[t] # P
                            /\ curr_pids[t] = h => t = s
  BY <1>1, <1>4, <1>7, <1>9, InTops
  DEF NewestAreLive, NewestDiffer, PidsAccountedFor, TypeOK, Booted
<1>13. NewestAreLive'
  BY <1>1, <1>2, <1>5, <1>7, <1>12 DEF NewestAreLive
<1>14. NewestDiffer'
  BY <1>4, <1>7, <1>12 DEF NewestDiffer, PidsAccountedFor
<1>15. ParentsAreLive'
  <2> SUFFICES ASSUME NEW p \in Pids, Live(p)'
               PROVE  (pcb[p].pid = p /\ Live(pcb[p].parent))'
    BY DEF ParentsAreLive
  <2>1. Live(p) /\ p # h
    BY <1>5
  <2>2. pcb[p].pid = p /\ Live(pcb[p].parent) /\ pcb[p].parent \in Pids
    BY <1>4, <2>1 DEF ParentsAreLive, PidsAccountedFor, TypeOK
  <2>3. pcb[p].parent # h
    BY <1>8, <2>1 DEF Child
  <2>4. pcb'[p].pid = p /\ pcb'[p].parent = pcb[p].parent
    BY <1>6, <2>1, <2>2
  <2> QED
    BY <1>5, <2>2, <2>3, <2>4 DEF Live
<1>16. NewestHaveNoChild'
  <2> SUFFICES ASSUME NEW t \in Terminals, NEW q \in Pids
               PROVE  ~Child(q, curr_pids[t])'
    BY DEF NewestHaveNoChild
  <2>1. CASE t = s
    BY <1>1, <1>7, <1>10, <2>1
  <2>2. CASE t # s
    <3>1. ~Child(q, curr_pids[t])
      BY <1>4, <1>7 DEF NewestHaveNoChild, PidsAccountedFor
    <3> QED
      BY <1>7, <1>11, <1>12, <2>2, <3>1
  <2> QED
    BY <2>1, <2>2
<1>17. OthersHaveOneChild'
  <2> SUFFICES ASSUME NEW p \in Pids, Live(p)', p \notin Tops'
               PROVE  \E q \in Pids : /\ Child(q, p)'
                                      /\ \A r \in Pids : Child(r, p)' => r = q
    BY DEF OthersHaveOneChild
  <2>1. p # h /\ Live(p) /\ p # P
    BY <1>1, <1>5, <1>7, InTops
  <2>2. p \notin Tops
    BY <1>1, <1>7, <2>1, InTops
  <2>3. PICK q \in Pids : Child(q, p) /\ \A r \in Pids : Child(r, p) => r = q
    BY <1>4, <2>1, <2>2 DEF OthersHaveOneChild, PidsAccountedFor
  <2>4. q # h
    BY <2>1, <2>3 DEF Child
  <2> QED
    BY <1>11, <2>3, <2>4
<1>18. term_pid' = curr_pids'
  BY <1>3, <1>4 DEF PidsAccountedFor
<1>19. BasesBooted'
  <2>1. \A p \in Pids : Live(p)' => (pcb'[p].parent = p <=> p < MaxTerminals)
    BY <1>4, <1>5, <1>6 DEF BasesBooted
  <2>2. \A t \in Terminals : Booted(t)' <=> Live(BasePid(t))'
    BY <1>1, <1>2, <1>5, <1>7
  <2>3. AllBooted'
    BY <1>7 DEF AllBooted, Booted
  <2> QED
    BY <2>1, <2>2, <2>3 DEF BasesBooted
<1>20. MappedIsNewest'
  BY <1>1, <1>3, <1>7, InTops DEF MappedIsNewest
<1> QED
  BY <1>13, <1>14, <1>15, <1>16, <1>17, <1>18, <1>19, <1>20
  DEF TreeInv, PidsAccountedFor

LEMMA StepTree ==
    ASSUME EarlyCommands = FALSE, Inv, [Next]_vars
    PROVE  Inv'
<1>1. TypeOK'
  BY StepType DEF Inv
<1>2. MayCommand => AllBooted
  BY DEF MayCommand
<1>3. CASE BootShell
  BY <1>1, <1>3, BootShellTree DEF Inv
<1>4. CASE OtherEntry
  BY <1>1, <1>4, UnchangedTree DEF Inv, OtherEntry
<1>5. CASE SwitchTerminal
  BY <1>1, <1>5, UnchangedTree DEF Inv, SwitchTerminal
<1>6. CASE Execute
  BY <1>1, <1>2, <1>6, ExecuteTree DEF Inv, Execute
<1>7. CASE ExecuteFails
  BY <1>1, <1>2, <1>7, ExecuteFailsTree DEF Inv, ExecuteFails
<1>8. CASE HaltBase
  BY <1>1, <1>2, <1>8, HaltBaseTree DEF Inv, HaltBase
<1>9. CASE HaltChild
  BY <1>1, <1>2, <1>9, HaltChildTree DEF Inv, HaltChild
<1>10. CASE UNCHANGED vars
  BY <1>1, <1>10, UnchangedTree DEF Inv, vars
<1> QED
  BY <1>3, <1>4, <1>5, <1>6, <1>7, <1>8, <1>9, <1>10 DEF Next

LEMMA QuietInv == EarlyCommands = FALSE => (Spec => []Inv)
<1> SUFFICES ASSUME EarlyCommands = FALSE PROVE Spec => []Inv
  OBVIOUS
<1>1. Init => Inv
  BY InitType, InitTree DEF Inv
<1>2. Inv /\ [Next]_vars => Inv'
  BY StepTree
<1> QED
  BY <1>1, <1>2, PTL DEF Spec

(* However the user switches between terminals, no pid leaks and none is   *)
(* shared between terminals.                                               *)
THEOREM PidsNeverLeak == EarlyCommands = FALSE => (Spec => []PidsAccountedFor)
<1>1. Inv => PidsAccountedFor
  BY DEF Inv, TreeInv
<1> QED
  BY <1>1, QuietInv, PTL

(* The mapped page is always that of some terminal's newest process.       *)
THEOREM MappedPage == EarlyCommands = FALSE => (Spec => []MappedIsNewest)
<1>1. Inv => MappedIsNewest
  BY DEF Inv, TreeInv
<1> QED
  BY <1>1, QuietInv, PTL

-----------------------------------------------------------------------------
(* The CPU, when besides the user stays on one terminal.                   *)

LEMMA InitSession == Init => OneSession
<1> SUFFICES ASSUME Init PROVE OneSession
  OBVIOUS
<1>1. running = Boot /\ (\A p \in Pids : ~Live(p))
      /\ (\A t \in Terminals : ~Booted(t))
  BY DEF Init, Live, Booted
<1> QED
  BY <1>1, PidFacts DEF OneSession, RunningIsNewest, Boot, Lost

(* The running process has no child, so an entry to the kernel, which      *)
(* pushes on its stack, leaves the frames of the waiting parents alone.    *)
LEMMA EntrySafe ==
    ASSUME Inv, OneSession, NEW left,
           NEW p \in Pids, Live(p), pcb[p].parent # p
    PROVE  Entry(left)[p] = frame[p]
<1> USE PidFacts DEF Inv
<1>1. running \in Pids
  <2>1. PICK t \in Terminals : Booted(t)
    <3>1. p \notin Tops => \E q \in Pids : Child(q, p)
      BY DEF TreeInv, PidsAccountedFor, OthersHaveOneChild
    <3>2. AllBooted
      BY DEF TreeInv, BasesBooted
    <3>3. MaxTerminals - 1 \in Terminals
      BY DEF Terminals
    <3> QED
      BY <3>2, <3>3 DEF AllBooted, Booted
  <2> QED
    BY <2>1 DEF OneSession, TypeOK, Contexts
<1>2. running = curr_pids[Shown] /\ esp0.stack = running
  BY <1>1 DEF OneSession, RunningIsNewest
<1>3. Shown \in Terminals /\ Booted(Shown)
  BY <1>1, <1>2 DEF Booted, TypeOK, Shown, Terminals
<1>4. pcb[p].parent # running
  BY <1>2, <1>3 DEF TreeInv, PidsAccountedFor, NewestHaveNoChild, Child
<1>5. frame[p].at.stack # esp0.stack
  BY <1>2, <1>4 DEF OneSession
<1> QED
  BY <1>5 DEF Entry

LEMMA UnchangedSession ==
    ASSUME Inv, OneSession, NEW left, frame' = Entry(left),
           UNCHANGED <<pid_arr, curr_pids, current_terminal, pcb, page, esp0,
                       running>>
    PROVE  OneSession'
<1>1. \A p \in Pids : Live(p) /\ pcb[p].parent # p => frame'[p] = frame[p]
  BY EntrySafe
<1> QED
  BY <1>1 DEF OneSession, RunningIsNewest, Shown, Booted, Live

(* A process started by the newest process of its terminal.                *)
LEMMA SpawnSession ==
    ASSUME Inv, OneSession, NEW left, NEW t \in Terminals, NEW pid \in Pids,
           current_terminal' = t + 1,
           pid_arr' = [pid_arr EXCEPT ![pid] = 1],
           curr_pids' = [curr_pids EXCEPT ![t] = pid],
           pcb'[pid].parent = pid \/ pcb'[pid].parent = running,
           pcb'[pid].parent # pid => running = esp0.stack,
           \A q \in Pids : q # pid => pcb'[q] = pcb[q],
           frame' = [Entry(left) EXCEPT ![pid] = [at |-> EntryAddr,
                                                  owner |-> running]],
           page' = pid, esp0' = NewEsp0(pid), running' = pid
    PROVE  OneSession'
<1> USE PidFacts DEF Inv
<1>1. RunningIsNewest' /\ running' # Lost /\ running' # Boot
  BY DEF RunningIsNewest, Shown, Terminals, TypeOK
<1>2. esp0'.stack = running'
  BY DEF NewEsp0, BaseOf
<1>3. ASSUME NEW p \in Pids, Live(p)', pcb'[p].parent # p
      PROVE  frame'[p].owner = pcb'[p].parent /\ frame'[p].at.stack = pcb'[p].parent
  <2>1. Entry(left) \in [Pids -> {Entry(left)[q] : q \in Pids}]
    BY DEF Entry
  <2>2. CASE p = pid
    BY <1>3, <2>1, <2>2 DEF EntryAddr
  <2>3. CASE p # pid
    <3>1. Live(p) /\ pcb[p].parent # p
      BY <1>3, <2>3 DEF Live, TypeOK
    <3>2. frame'[p] = frame[p]
      BY <2>1, <2>3, <3>1, EntrySafe
    <3> QED
      BY <2>3, <3>1, <3>2 DEF OneSession
  <2> QED
    BY <2>2, <2>3
<1> QED
  BY <1>1, <1>2, <1>3 DEF OneSession

(* What runs when a command comes.                                         *)
LEMMA RunningAtCommand ==
    ASSUME Inv, OneSession, AllBooted, running \in Pids
    PROVE  running = Halting /\ esp0.stack = running
BY AtCommand DEF OneSession, RunningIsNewest

LEMMA HaltChildFacts ==
    ASSUME Inv, OneSession, AllBooted, HaltChild
    PROVE  /\ Halting = running /\ running \in Pids
           /\ pcb[running].pid = running
           /\ pcb[running].parent \in Pids /\ pcb[running].parent # running
           /\ running' = pcb[running].parent
           /\ esp0'.stack = pcb[running].parent
           /\ page' = pcb[running].parent
           /\ pid_arr' = [pid_arr EXCEPT ![running] = 0]
           /\ curr_pids' = [curr_pids EXCEPT ![Shown] = pcb[running].parent]
<1>1. running \in Pids
  BY DEF HaltChild, MayCommand
<1>2. /\ Halting = running /\ Live(running) /\ pcb[running].pid = running
      /\ pcb[running].parent \in Pids
  BY <1>1, RunningAtCommand, AtCommand
<1>3. pcb[running].parent # running
  BY <1>2 DEF HaltChild, IsBase
<1>4. SystemCall[running] = frame[running]
  BY <1>1, <1>2, <1>3, EntrySafe DEF SystemCall
<1>5. frame[running].owner = pcb[running].parent
      /\ frame[running].at.stack = pcb[running].parent
  BY <1>1, <1>2, <1>3 DEF OneSession
<1> QED
  BY <1>1, <1>2, <1>3, <1>4, <1>5 DEF HaltChild, Freed, FallBack, Live

LEMMA StepSession ==
    ASSUME EarlyCommands = FALSE, UserSwitches = FALSE,
           Inv, OneSession, [Next]_vars
    PROVE  OneSession'
<1> USE PidFacts DEF Inv
<1>1. CASE BootShell
  <2>1. PICK t \in Terminals, pid \in Pids :
          /\ current_terminal' = t + 1
          /\ pid_arr' = [pid_arr EXCEPT ![pid] = 1]
          /\ curr_pids' = [curr_pids EXCEPT ![t] = pid]
          /\ pcb' = [pcb EXCEPT ![pid] = [pid |-> pid, parent |-> pid]]
          /\ frame' = [Interrupt EXCEPT ![pid] = [at |-> EntryAddr,
                                                  owner |-> running]]
          /\ page' = pid /\ esp0' = NewEsp0(pid) /\ running' = pid
    BY <1>1, BootShellFacts
  <2>2. /\ pcb'[pid].parent = pid
        /\ \A q \in Pids : q # pid => pcb'[q] = pcb[q]
    BY <2>1 DEF TypeOK
  <2>3. frame' = [Entry(Lost) EXCEPT ![pid] = [at |-> EntryAddr,
                                               owner |-> running]]
    BY <2>1 DEF Interrupt
  <2> QED
    BY <2>1, <2>2, <2>3, SpawnSession
<1>2. CASE OtherEntry
  <2>1. PICK left : frame' = Entry(left)
    BY <1>2 DEF OtherEntry, SystemCall, Interrupt
  <2> QED
    BY <1>2, <2>1, UnchangedSession DEF OtherEntry
<1>3. CASE SwitchTerminal
  BY <1>3 DEF SwitchTerminal
<1>4. CASE Execute
  <2>1. AllBooted /\ running \in Pids
    BY <1>4 DEF Execute, MayCommand
  <2>2. /\ Shown \in Terminals /\ curr_pids[Shown] = running
        /\ esp0.stack = running /\ Live(running)
        /\ \A b \in Pids : b < MaxTerminals => Live(b)
    BY <2>1, AtCommand, RunningAtCommand
  <2>3. PICK pid \in Pids :
          /\ FirstFree(pid_arr, pid)
          /\ pid_arr' = [pid_arr EXCEPT ![pid] = 1]
          /\ curr_pids' = [curr_pids EXCEPT ![Shown] = pid]
          /\ pcb' = [pcb EXCEPT ![pid] = [pid |-> pid,
                                          parent |-> ParentOf(pid, running)]]
          /\ frame' = [SystemCall EXCEPT ![pid] = [at |-> EntryAddr,
                                                   owner |-> running]]
          /\ page' = pid
          /\ esp0' = NewEsp0(pid)
          /\ running' = pid
    BY <1>4, <2>2 DEF Execute, Spawn
  <2>4. ParentOf(pid, running) = running
    BY <2>1, <2>2, <2>3 DEF FirstFree, Live, ParentOf
  <2>5. /\ pcb'[pid].parent = running
        /\ \A q \in Pids : q # pid => pcb'[q] = pcb[q]
    BY <2>3, <2>4 DEF TypeOK
  <2>6. current_terminal' = Shown + 1
    BY <1>4 DEF Execute, Shown, TypeOK
  <2>7. frame' = [Entry(running) EXCEPT ![pid] = [at |-> EntryAddr,
                                                  owner |-> running]]
    BY <2>3 DEF SystemCall
  <2> QED
    BY <2>2, <2>3, <2>5, <2>6, <2>7, SpawnSession
<1>5. CASE ExecuteFails
  <2>1. AllBooted /\ running \in Pids
    BY <1>5 DEF ExecuteFails, MayCommand
  <2>2. /\ Shown \in Terminals /\ curr_pids[Shown] = running
        /\ \A b \in Pids : b < MaxTerminals => Live(b)
    BY <2>1, AtCommand, RunningAtCommand
  <2>3. CASE frame' = SystemCall /\ UNCHANGED <<curr_pids, term_pid, pcb>>
    BY <1>5, <2>3, UnchangedSession DEF ExecuteFails, SystemCall
  <2>4. ASSUME NEW pid \in Pids, NEW taken, NEW parent,
               FirstFree(pid_arr, pid),
               taken = [pid_arr EXCEPT ![pid] = 1],
               parent = ParentOf(pid, curr_pids[Shown]),
               curr_pids' = FallBack([curr_pids EXCEPT ![Shown] = pid],
                                     taken, pid, parent),
               pcb' = [pcb EXCEPT ![pid] = [pid |-> pid, parent |-> parent]],
               frame' = [SystemCall EXCEPT ![pid] = NoFrame]
        PROVE  OneSession'
    <3>1. ~Live(pid) /\ parent = running /\ taken[pid] = 1
      BY <2>1, <2>2, <2>4 DEF FirstFree, Live, ParentOf, TypeOK
    <3>2. curr_pids' = curr_pids
      BY <2>2, <2>4, <3>1 DEF FallBack, TypeOK
    <3>3. ASSUME NEW p \in Pids, Live(p)', pcb'[p].parent # p
          PROVE  /\ Live(p) /\ pcb'[p] = pcb[p]
                 /\ frame'[p] = frame[p]
      <4>1. Live(p) /\ p # pid
        BY <1>5, <3>1, <3>3 DEF ExecuteFails, Live
      <4>2. pcb'[p] = pcb[p]
        BY <2>4, <4>1 DEF TypeOK
      <4>3. SystemCall[p] = frame[p]
        BY <3>3, <4>1, <4>2, EntrySafe DEF SystemCall
      <4>4. SystemCall \in [Pids -> {SystemCall[q] : q \in Pids}]
        BY DEF SystemCall, Entry
      <4> QED
        BY <2>4, <4>1, <4>2, <4>3, <4>4
    <3> QED
      BY <1>5, <3>2, <3>3
      DEF ExecuteFails, OneSession, RunningIsNewest, Shown, Booted
  <2> QED
    BY <1>5, <2>3, <2>4 DEF ExecuteFails
<1>6. CASE HaltBase
  <2>1. AllBooted /\ running \in Pids
    BY <1>6 DEF HaltBase, MayCommand
  <2>2. /\ Shown \in Terminals /\ Halting = running /\ running = curr_pids[Shown]
        /\ Live(running)
    BY <2>1, AtCommand, RunningAtCommand
  <2>3. /\ UNCHANGED <<pid_arr, curr_pids, term_pid, pcb, current_terminal>>
        /\ pcb[running].parent = running
        /\ page' = running /\ running' = running /\ esp0' = NewEsp0(running)
        /\ frame' = [SystemCall EXCEPT ![running] = [at |-> EntryAddr,
                                                     owner |-> running]]
    BY <1>6, <2>1, <2>2, HaltBaseFacts
  <2>4. /\ pid_arr' = [pid_arr EXCEPT ![running] = 1]
        /\ curr_pids' = [curr_pids EXCEPT ![Shown] = running]
    BY <2>2, <2>3 DEF TypeOK, Live
  <2>5. current_terminal' = Shown + 1
    BY <2>3 DEF Shown, TypeOK
  <2>6. frame' = [Entry(running) EXCEPT ![running] = [at |-> EntryAddr,
                                                      owner |-> running]]
    BY <2>3 DEF SystemCall
  <2> QED
    BY <2>1, <2>2, <2>3, <2>4, <2>5, <2>6, SpawnSession
<1>7. CASE HaltChild
  <2>1. AllBooted
    BY <1>7 DEF HaltChild, MayCommand
  <2>2. /\ Halting = running /\ running \in Pids
        /\ pcb[running].parent \in Pids /\ pcb[running].parent # running
        /\ running' = pcb[running].parent
        /\ esp0'.stack = pcb[running].parent
        /\ page' = pcb[running].parent
        /\ pid_arr' = [pid_arr EXCEPT ![running] = 0]
        /\ curr_pids' = [curr_pids EXCEPT ![Shown] = pcb[running].parent]
    BY <1>7, <2>1, HaltChildFacts
  <2>3. RunningIsNewest' /\ running' # Lost /\ running' # Boot
    <3>1. Shown \in Terminals /\ Shown' = Shown
      BY <1>7, <2>1, AtCommand DEF HaltChild, Shown
    <3> QED
      BY <2>2, <3>1 DEF RunningIsNewest, TypeOK
  <2>4. ASSUME NEW p \in Pids, Live(p)', pcb'[p].parent # p
        PROVE  /\ Live(p) /\ pcb'[p] = pcb[p]
               /\ frame'[p] = frame[p]
    <3>1. Live(p) /\ p # running
      BY <2>2, <2>4 DEF Live, TypeOK
    <3>2. pcb'[p] = pcb[p]
      BY <1>7, <2>2, <3>1 DEF HaltChild, TypeOK
    <3>3. SystemCall[p] = frame[p]
      BY <2>4, <3>1, <3>2, EntrySafe DEF SystemCall
    <3>4. SystemCall \in [Pids -> {SystemCall[q] : q \in Pids}]
      BY DEF SystemCall, Entry
    <3>5. frame' = [SystemCall EXCEPT ![running] = NoFrame]
      BY <1>7, <2>2 DEF HaltChild
    <3> QED
      BY <3>1, <3>2, <3>3, <3>4, <3>5
  <2> QED
    BY <2>2, <2>3, <2>4 DEF OneSession
<1>8. CASE UNCHANGED vars
  BY <1>8 DEF vars, OneSession, RunningIsNewest, Shown, Booted, Live
<1> QED
  BY <1>1, <1>2, <1>3, <1>4, <1>5, <1>6, <1>7, <1>8 DEF Next

QuietUser == EarlyCommands = FALSE /\ UserSwitches = FALSE

LEMMA SessionInv == QuietUser => (Spec => [](Inv /\ OneSession))
<1> SUFFICES ASSUME QuietUser PROVE Spec => [](Inv /\ OneSession)
  OBVIOUS
<1>1. Init => Inv /\ OneSession
  BY InitType, InitTree, InitSession DEF Inv
<1>2. Inv /\ OneSession /\ [Next]_vars => Inv' /\ OneSession'
  BY StepTree, StepSession DEF QuietUser
<1> QED
  BY <1>1, <1>2, PTL DEF Spec

(* The running process is the one system calls act on, in its own page.    *)
THEOREM CurrentProcess == QuietUser => (Spec => []RunningIsNewest)
<1>1. OneSession => RunningIsNewest
  BY DEF OneSession
<1> QED
  BY <1>1, SessionInv, PTL

(* The frame of every waiting parent survives until its child halts.       *)
THEOREM SavedFrames == QuietUser => (Spec => []FramesIntact)
<1>1. OneSession => FramesIntact
  BY DEF OneSession, FramesIntact
<1> QED
  BY <1>1, SessionInv, PTL

(* Only the running process gives its pid back.                            *)
THEOREM OnlyRunningHalts == QuietUser => (Spec => OnlyRunningDies)
<1> SUFFICES ASSUME QuietUser PROVE Spec => OnlyRunningDies
  OBVIOUS
<1>1. ASSUME Inv, OneSession, [Next]_vars, NEW p \in Pids, Live(p), ~Live(p)'
      PROVE  p = running
  <2> USE PidFacts DEF Inv
  <2>1. pid_arr' # pid_arr
    BY <1>1 DEF Live
  <2>2. CASE BootShell
    <3>1. PICK pid \in Pids : pid_arr' = [pid_arr EXCEPT ![pid] = 1]
      BY <1>1, <2>2, BootShellFacts
    <3> QED
      BY <1>1, <3>1 DEF Live, TypeOK
  <2>3. CASE Execute
    <3>1. PICK pid \in Pids : pid_arr' = [pid_arr EXCEPT ![pid] = 1]
      BY <2>3 DEF Execute, Spawn
    <3> QED
      BY <1>1, <3>1 DEF Live, TypeOK
  <2>4. CASE HaltBase
    BY <1>1, <2>1, <2>4, HaltBaseFacts DEF QuietUser, HaltBase, MayCommand
  <2>5. CASE HaltChild
    <3>1. running \in Pids /\ pid_arr' = [pid_arr EXCEPT ![running] = 0]
      BY <1>1, <2>5, HaltChildFacts DEF QuietUser, HaltChild, MayCommand
    <3> QED
      BY <1>1, <3>1 DEF Live, TypeOK
  <2> QED
    BY <1>1, <2>1, <2>2, <2>3, <2>4, <2>5
    DEF Next, vars, OtherEntry, SwitchTerminal, ExecuteFails
<1>2. Inv /\ OneSession /\ [Next]_vars
        => [\A p \in Pids : Live(p) /\ ~Live(p)' => p = running]_vars
  BY <1>1
<1> QED
  BY <1>2, SessionInv, PTL DEF Spec, OnlyRunningDies

(* A halt resumes the parent with the parent's page mapped.                *)
THEOREM HaltReturnsToParent == QuietUser => (Spec => HaltResumesParent)
<1> SUFFICES ASSUME QuietUser PROVE Spec => HaltResumesParent
  OBVIOUS
<1>1. ASSUME Inv, OneSession, HaltBase
      PROVE  running' = pcb[running].parent /\ page' = running'
  <2>1. AllBooted /\ running \in Pids
    BY <1>1 DEF QuietUser, HaltBase, MayCommand
  <2> QED
    BY <1>1, <2>1, HaltBaseFacts, RunningAtCommand
<1>2. ASSUME Inv, OneSession, HaltChild
      PROVE  running' = pcb[running].parent /\ page' = running'
  <2>1. AllBooted
    BY <1>2 DEF QuietUser, HaltChild, MayCommand
  <2> QED
    BY <1>2, <2>1, HaltChildFacts
<1>3. Inv /\ OneSession /\ [Next]_vars
        => [(HaltBase \/ HaltChild) => /\ running' = pcb[running].parent
                                       /\ page' = running']_vars
  BY <1>1, <1>2
<1> QED
  BY <1>3, SessionInv, PTL DEF Spec, HaltResumesParent

-----------------------------------------------------------------------------
(* Whoever is on display and whenever commands come, during the boot too.  *)
(* Terminals may share a base shell then, and pids may leak; but what      *)
(* commands start is never shared.                                         *)

Upper(p) == p >= MaxTerminals   \* not a base shell

LowAreBases ==
    \A p \in Pids : ~Upper(p) =>
        \/ pcb[p].pid = p /\ pcb[p].parent = p
        \/ pcb[p].pid = 0 /\ pcb[p].parent = 0

StartedAndWaitedFor ==
    \A p \in Pids : Upper(p) /\ Live(p) =>
        /\ pcb[p].pid = p /\ pcb[p].parent # p
        /\ frame[p].at.depth > 0
        /\ Upper(pcb[p].parent) => Live(pcb[p].parent)

NewestIsOneTerminals ==
    \A t \in Terminals : Upper(curr_pids[t]) =>
        /\ Live(curr_pids[t])
        /\ \A u \in Terminals : curr_pids[u] = curr_pids[t] => u = t
        /\ \A q \in Pids : ~Child(q, curr_pids[t])

OneChildAtMost ==
    \A p, q, r \in Pids : Upper(p) /\ Child(q, p) /\ Child(r, p) => q = r

CommandsInv ==
    LowAreBases /\ StartedAndWaitedFor /\ NewestIsOneTerminals /\ OneChildAtMost

LEMMA UpperFacts ==
    /\ ~Upper(NoPid) /\ ~Upper(0)
    /\ \A p \in Pids : Upper(p) <=> ~(p < MaxTerminals)
BY PidFacts DEF Upper, NoPid

LEMMA UpperChildren ==
    ASSUME TypeOK, LowAreBases, NEW p \in Pids, NEW q \in Pids, Upper(p), Child(q, p)
    PROVE  Upper(q)
BY UpperFacts DEF LowAreBases, Child

LEMMA InitCommands == Init => CommandsInv
<1> SUFFICES ASSUME Init PROVE CommandsInv
  OBVIOUS
<1>1. \A p \in Pids : ~Live(p) /\ pcb[p].pid = 0 /\ pcb[p].parent = 0
  BY DEF Init, Live
<1>2. \A t \in Terminals : ~Upper(curr_pids[t])
  BY UpperFacts DEF Init
<1> QED
  BY <1>1, <1>2
  DEF CommandsInv, LowAreBases, StartedAndWaitedFor, NewestIsOneTerminals,
      OneChildAtMost, Child

LEMMA EntryMovesNothing ==
    ASSUME NEW left
    PROVE  \A p \in Pids : Entry(left)[p].at = frame[p].at
<1> SUFFICES ASSUME NEW p \in Pids PROVE Entry(left)[p].at = frame[p].at
  OBVIOUS
<1>1. frame[p].at = [frame[p] EXCEPT !.owner = Lost].at
  OBVIOUS
<1> QED
  BY DEF Entry

(* A step that changes neither pids nor PCBs.                              *)
LEMMA UnchangedCommands ==
    ASSUME CommandsInv, UNCHANGED <<pid_arr, curr_pids, pcb>>,
           \A p \in Pids : frame'[p].at = frame[p].at
    PROVE  CommandsInv'
<1>1. LowAreBases'
  BY DEF CommandsInv, LowAreBases
<1>2. StartedAndWaitedFor'
  BY DEF CommandsInv, StartedAndWaitedFor, Live
<1>3. NewestIsOneTerminals' /\ OneChildAtMost'
  BY DEF CommandsInv, NewestIsOneTerminals, OneChildAtMost, Live, Child
<1> QED
  BY <1>1, <1>2, <1>3 DEF CommandsInv

(* execute, whatever base shells were freed for it.                        *)
LEMMA SpawnCommands ==
    ASSUME TypeOK, CommandsInv, NEW t \in Terminals,
           NEW arr \in [Pids -> {0, 1}], NEW cur \in [Terminals -> Pids \cup {NoPid}],
           NEW frames \in [Pids -> [at : StackAddr, owner : Contexts]],
           \A p \in Pids : Upper(p) => arr[p] = pid_arr[p],
           \A u \in Terminals : cur[u] = curr_pids[u] \/ ~Upper(cur[u]),
           \A p \in Pids : frames[p].at = frame[p].at,
           Spawn(t, arr, cur, frames)
    PROVE  CommandsInv'
<1>1. PICK pid \in Pids :
        /\ FirstFree(arr, pid)
        /\ pid_arr' = [arr EXCEPT ![pid] = 1]
        /\ curr_pids' = [cur EXCEPT ![t] = pid]
        /\ pcb' = [pcb EXCEPT ![pid] = [pid |-> pid,
                                        parent |-> ParentOf(pid, cur[t])]]
        /\ frame' = [frames EXCEPT ![pid] = [at |-> EntryAddr,
                                             owner |-> running]]
  BY DEF Spawn
<1> DEFINE par == ParentOf(pid, cur[t])
<1>2. par \in Pids
  BY ParentType
<1>3. \A p \in Pids : Upper(p) => /\ pid_arr'[p] = 1 <=> Live(p) \/ p = pid
                                  /\ Live(p)' <=> Live(p) \/ p = pid
  BY <1>1 DEF Live, TypeOK
<1>4. /\ pcb'[pid].pid = pid /\ pcb'[pid].parent = par
      /\ \A p \in Pids : p # pid => pcb'[p] = pcb[p]
  BY <1>1 DEF TypeOK
<1>5. /\ frame'[pid].at.depth > 0
      /\ \A p \in Pids : p # pid => frame'[p].at = frame[p].at
  <2>1. esp0.depth \in Nat
    BY PidFacts DEF TypeOK, StackAddr
  <2> QED
    BY <1>1, <2>1 DEF EntryAddr
<1>6. \A u \in Terminals : curr_pids'[u] = IF u = t THEN pid ELSE cur[u]
  BY <1>1
<1>7. Upper(pid) => ~Live(pid)
  BY <1>1 DEF FirstFree, Live
<1>8. ~Upper(pid) => par = pid
  BY UpperFacts DEF ParentOf
<1>9. Upper(pid) /\ Upper(par) => par = curr_pids[t]
  BY <1>2, UpperFacts DEF ParentOf
<1>10. Upper(pid) => par # pid /\ (Upper(par) => Live(par))
  <2>1. CASE Upper(par)
    BY <1>7, <1>9, <2>1 DEF CommandsInv, NewestIsOneTerminals
  <2>2. CASE ~Upper(par)
    BY <2>2
  <2> QED
    BY <2>1, <2>2
<1> HIDE DEF par
<1>11. ASSUME NEW p \in Pids, NEW q \in Pids, Upper(p), Child(q, p)'
       PROVE  \/ q # pid /\ p # pid /\ Child(q, p)
              \/ q = pid /\ p # pid /\ p = par /\ p = curr_pids[t]
  <2>1. Live(q)' /\ q # p /\ pcb'[q].parent = p
    BY <1>11 DEF Child
  <2>2. CASE q = pid
    <3>1. p = par
      BY <1>4, <2>1, <2>2
    <3>2. Upper(pid)
      BY <1>8, <1>11, <2>1, <2>2, <3>1
    <3> QED
      BY <1>9, <1>11, <2>1, <2>2, <3>1, <3>2
  <2>3. CASE q # pid
    <3>1. pcb[q].parent = p
      BY <1>4, <2>1, <2>3
    <3>2. Upper(q)
      BY <1>11, <2>1, <3>1, UpperFacts DEF CommandsInv, LowAreBases
    <3>3. Live(q)
      BY <1>3, <2>1, <2>3, <3>2
    <3>4. Live(p)
      BY <1>11, <3>1, <3>2, <3>3 DEF CommandsInv, StartedAndWaitedFor
    <3>5. p # pid
      BY <1>7, <1>11, <3>4
    <3> QED
      BY <2>1, <2>3, <3>1, <3>3, <3>5 DEF Child
  <2> QED
    BY <2>2, <2>3
<1>12. LowAreBases'
  BY <1>4, <1>8 DEF CommandsInv, LowAreBases
<1>13. StartedAndWaitedFor'
  <2> SUFFICES ASSUME NEW p \in Pids, Upper(p), Live(p)'
               PROVE  /\ pcb'[p].pid = p /\ pcb'[p].parent # p
                      /\ frame'[p].at.depth > 0
                      /\ Upper(pcb'[p].parent) => pid_arr'[pcb'[p].parent] = 1
    BY DEF StartedAndWaitedFor, Live
  <2>1. CASE p = pid
    BY <1>2, <1>3, <1>4, <1>5, <1>10, <2>1
  <2>2. CASE p # pid
    <3>1. Live(p) /\ pcb'[p] = pcb[p] /\ frame'[p].at = frame[p].at
      BY <1>3, <1>4, <1>5, <2>2
    <3>2. /\ pcb[p].pid = p /\ pcb[p].parent # p
          /\ frame[p].at.depth > 0
          /\ Upper(pcb[p].parent) => Live(pcb[p].parent)
      BY <3>1 DEF CommandsInv, StartedAndWaitedFor
    <3>3. pcb[p].parent \in Pids
      BY DEF TypeOK
    <3> QED
      BY <1>3, <3>1, <3>2, <3>3
  <2> QED
    BY <2>1, <2>2
<1>14. NewestIsOneTerminals'
  <2> SUFFICES ASSUME NEW u \in Terminals, Upper(curr_pids'[u])
               PROVE  /\ pid_arr'[curr_pids'[u]] = 1
                      /\ \A v \in Terminals : curr_pids'[v] = curr_pids'[u] => v = u
                      /\ \A q \in Pids : ~ (/\ Live(q)' /\ q # curr_pids'[u]
                                             /\ pcb'[q].parent = curr_pids'[u])
    BY DEF NewestIsOneTerminals, Child, Live
  <2>1. PICK p \in Pids : p = curr_pids'[u] /\ Upper(p)
    BY <1>1, UpperFacts
  <2>2. \A v \in Terminals : v # t /\ Upper(curr_pids'[v]) =>
           /\ curr_pids'[v] = curr_pids[v] /\ Live(curr_pids[v])
    BY <1>6 DEF CommandsInv, NewestIsOneTerminals
  <2>3. pid_arr'[p] = 1
    <3>1. CASE u = t
      BY <1>3, <1>6, <2>1, <3>1
    <3>2. CASE u # t
      BY <1>3, <2>1, <2>2, <3>2
    <3> QED
      BY <3>1, <3>2
  <2>4. ASSUME NEW v \in Terminals, curr_pids'[v] = p PROVE v = u
    <3>1. CASE u = t /\ v # t
      BY <1>6, <1>7, <2>1, <2>2, <2>4, <3>1
    <3>2. CASE u # t /\ v = t
      BY <1>6, <1>7, <2>1, <2>2, <2>4, <3>2
    <3>3. CASE u # t /\ v # t
      BY <2>1, <2>2, <2>4, <3>3 DEF CommandsInv, NewestIsOneTerminals
    <3> QED
      BY <3>1, <3>2, <3>3
  <2>5. ASSUME NEW q \in Pids, Child(q, p)' PROVE FALSE
    <3>1. \/ q # pid /\ p # pid /\ Child(q, p)
          \/ q = pid /\ p # pid /\ p = par /\ p = curr_pids[t]
      BY <1>11, <2>1, <2>5
    <3>2. u # t /\ p = curr_pids[u]
      BY <1>6, <2>1, <2>2, <3>1
    <3> QED
      BY <2>1, <3>1, <3>2 DEF CommandsInv, NewestIsOneTerminals
  <2> QED
    BY <2>1, <2>3, <2>4, <2>5 DEF Child
<1>15. OneChildAtMost'
  <2> SUFFICES ASSUME NEW p \in Pids, NEW q \in Pids, NEW r \in Pids,
                      Upper(p), Child(q, p)', Child(r, p)'
               PROVE  q = r
    BY DEF OneChildAtMost
  <2>1. /\ \/ q # pid /\ Child(q, p)
           \/ q = pid /\ p = curr_pids[t]
        /\ \/ r # pid /\ Child(r, p)
           \/ r = pid /\ p = curr_pids[t]
    BY <1>11
  <2> QED
    BY <2>1 DEF CommandsInv, NewestIsOneTerminals, OneChildAtMost
<1> QED
  BY <1>12, <1>13, <1>14, <1>15 DEF CommandsInv

LEMMA HaltingFacts ==
    ASSUME TypeOK, CommandsInv
    PROVE  /\ Shown \in Terminals /\ Halting \in Pids
           /\ pcb[Halting].pid \in Pids /\ pcb[Halting].parent \in Pids
           /\ Upper(Halting) => /\ Halting = curr_pids[Shown]
                                /\ Live(Halting)
                                /\ pcb[Halting].pid = Halting
                                /\ pcb[Halting].parent # Halting
                                /\ frame[Halting].at.depth > 0
           /\ ~Upper(Halting) => /\ IsBase(Halting)
                                 /\ ~Upper(pcb[Halting].pid)
<1>1. Shown \in Terminals
  BY PidFacts DEF TypeOK, Shown, Terminals
<1>2. Halting \in Pids /\ (Upper(Halting) => Halting = curr_pids[Shown])
  BY <1>1, UpperFacts, PidFacts DEF Halting, Latest, TypeOK
<1>3. pcb[Halting].pid \in Pids /\ pcb[Halting].parent \in Pids
  BY <1>2 DEF TypeOK
<1>4. Upper(Halting) => Live(Halting)
  BY <1>1, <1>2 DEF CommandsInv, NewestIsOneTerminals
<1>5. Upper(Halting) => /\ pcb[Halting].pid = Halting
                        /\ pcb[Halting].parent # Halting
                        /\ frame[Halting].at.depth > 0
  BY <1>2, <1>4 DEF CommandsInv, StartedAndWaitedFor
<1>6. ~Upper(Halting) => IsBase(Halting) /\ ~Upper(pcb[Halting].pid)
  BY <1>2, UpperFacts DEF CommandsInv, LowAreBases, IsBase
<1> QED
  BY <1>1, <1>2, <1>3, <1>4, <1>5, <1>6

LEMMA FramesOfEntries ==
    ASSUME TypeOK
    PROVE  /\ SystemCall \in [Pids -> [at : StackAddr, owner : Contexts]]
           /\ Interrupt \in [Pids -> [at : StackAddr, owner : Contexts]]
           /\ \A p \in Pids : SystemCall[p].at = frame[p].at
           /\ \A p \in Pids : Interrupt[p].at = frame[p].at
<1>1. running \in Contexts /\ Lost \in Contexts
  BY DEF TypeOK, Contexts
<1> QED
  BY <1>1, EntryType, EntryMovesNothing DEF SystemCall, Interrupt

LEMMA BootShellCommands ==
    ASSUME TypeOK, CommandsInv, BootShell
    PROVE  CommandsInv'
<1>1. PICK t \in Terminals :
        \/ Spawn(t, pid_arr, curr_pids, Interrupt)
        \/ frame' = Interrupt /\ UNCHANGED <<pid_arr, curr_pids, pcb>>
  BY DEF BootShell
<1>2. pid_arr \in [Pids -> {0, 1}] /\ curr_pids \in [Terminals -> Pids \cup {NoPid}]
  BY DEF TypeOK
<1>3. CASE Spawn(t, pid_arr, curr_pids, Interrupt)
  BY <1>2, <1>3, FramesOfEntries, SpawnCommands
<1>4. CASE frame' = Interrupt /\ UNCHANGED <<pid_arr, curr_pids, pcb>>
  BY <1>4, FramesOfEntries, UnchangedCommands
<1> QED
  BY <1>1, <1>3, <1>4

LEMMA ExecuteCommands ==
    ASSUME TypeOK, CommandsInv, Execute
    PROVE  CommandsInv'
<1>1. pid_arr \in [Pids -> {0, 1}] /\ curr_pids \in [Terminals -> Pids \cup {NoPid}]
  BY DEF TypeOK
<1>2. Shown \in Terminals
  BY HaltingFacts
<1> QED
  BY <1>1, <1>2, FramesOfEntries, SpawnCommands DEF Execute

(* halt of a base shell frees none but base shells' pids.                  *)
LEMMA HaltBaseCommands ==
    ASSUME TypeOK, CommandsInv, HaltBase
    PROVE  CommandsInv'
<1> DEFINE self == pcb[Halting].pid
           arr == Freed(pid_arr, self)
           cur == FallBack(curr_pids, pid_arr, self, self)
<1>1. Shown \in Terminals /\ self \in Pids /\ ~Upper(self)
  BY HaltingFacts DEF HaltBase, IsBase
<1>2. Spawn(Shown, arr, cur, SystemCall)
  BY DEF HaltBase
<1>3. arr \in [Pids -> {0, 1}] /\ \A p \in Pids : Upper(p) => arr[p] = pid_arr[p]
  BY <1>1 DEF Freed, TypeOK
<1>4. cur \in [Terminals -> Pids \cup {NoPid}]
  BY <1>1, FallBackType DEF TypeOK
<1>5. \A u \in Terminals : cur[u] = curr_pids[u] \/ ~Upper(cur[u])
  BY <1>1 DEF FallBack, TypeOK
<1> HIDE DEF self, arr, cur
<1> QED
  BY <1>1, <1>2, <1>3, <1>4, <1>5, FramesOfEntries, SpawnCommands

(* A refused command takes a pid and gives it back; the terminal may be    *)
(* left with a base shell that is not its own.                             *)
LEMMA ExecuteFailsCommands ==
    ASSUME TypeOK, CommandsInv, ExecuteFails
    PROVE  CommandsInv'
<1>1. Shown \in Terminals
  BY HaltingFacts
<1>2. CASE frame' = SystemCall /\ UNCHANGED <<curr_pids, pcb>>
  BY <1>2, FramesOfEntries, UnchangedCommands DEF ExecuteFails
<1>3. ASSUME NEW pid \in Pids, NEW taken, NEW parent,
             FirstFree(pid_arr, pid),
             taken = [pid_arr EXCEPT ![pid] = 1],
             parent = ParentOf(pid, curr_pids[Shown]),
             curr_pids' = FallBack([curr_pids EXCEPT ![Shown] = pid],
                                   taken, pid, parent),
             pcb' = [pcb EXCEPT ![pid] = [pid |-> pid, parent |-> parent]],
             frame' = [SystemCall EXCEPT ![pid] = NoFrame]
      PROVE  CommandsInv'
  <2>1. ~Live(pid) /\ taken[pid] = 1
    BY <1>3 DEF FirstFree, Live, TypeOK
  <2>2. curr_pids' = [curr_pids EXCEPT ![Shown] = parent]
    BY <1>1, <1>3, <2>1 DEF FallBack, TypeOK
  <2>3. Upper(parent) => parent = curr_pids[Shown]
    BY <1>3, UpperFacts DEF ParentOf
  <2>4. ~Upper(pid) => parent = pid
    BY <1>3, UpperFacts DEF ParentOf
  <2>5. \A u \in Terminals : curr_pids'[u] = curr_pids[u] \/ ~Upper(curr_pids'[u])
    BY <1>1, <2>2, <2>3 DEF TypeOK
  <2>6. pid_arr' = pid_arr
    BY DEF ExecuteFails
  <2>7. \A p \in Pids : p # pid => pcb'[p] = pcb[p] /\ frame'[p].at = frame[p].at
    BY <1>3, FramesOfEntries DEF TypeOK
  <2>8. pcb'[pid].pid = pid /\ pcb'[pid].parent = parent
    BY <1>3 DEF TypeOK
  <2>9. LowAreBases'
    BY <2>4, <2>7, <2>8 DEF CommandsInv, LowAreBases
  <2>10. \A p \in Pids : Live(p)' <=> Live(p)
    BY <2>6 DEF Live
  <2>11. StartedAndWaitedFor'
    <3> SUFFICES ASSUME NEW p \in Pids, Upper(p), Live(p)
                 PROVE  /\ pcb'[p].pid = p /\ pcb'[p].parent # p
                        /\ frame'[p].at.depth > 0
                        /\ Upper(pcb'[p].parent) => pid_arr'[pcb'[p].parent] = 1
      BY <2>10 DEF StartedAndWaitedFor, Live
    <3>1. pcb'[p] = pcb[p] /\ frame'[p].at = frame[p].at
      BY <2>1, <2>7
    <3> QED
      BY <2>6, <3>1 DEF CommandsInv, StartedAndWaitedFor, Live
  <2>12. \A q \in Pids : Live(q) => pcb'[q] = pcb[q]
    BY <2>1, <2>7
  <2>13. NewestIsOneTerminals'
    <3> SUFFICES ASSUME NEW u \in Terminals, Upper(curr_pids'[u])
                 PROVE  /\ pid_arr'[curr_pids'[u]] = 1
                        /\ \A v \in Terminals : curr_pids'[v] = curr_pids'[u] => v = u
                        /\ \A q \in Pids : ~ (/\ Live(q) /\ q # curr_pids'[u]
                                              /\ pcb'[q].parent = curr_pids'[u])
      BY <2>10 DEF NewestIsOneTerminals, Child, Live
    <3>1. curr_pids'[u] = curr_pids[u]
      BY <2>5
    <3>2. \A v \in Terminals : curr_pids'[v] = curr_pids'[u] => curr_pids[v] = curr_pids[u]
      BY <2>5, <3>1
    <3> QED
      BY <2>6, <2>12, <3>1, <3>2 DEF CommandsInv, NewestIsOneTerminals, Child, Live
  <2>14. OneChildAtMost'
    BY <2>10, <2>12 DEF CommandsInv, OneChildAtMost, Child
  <2> QED
    BY <2>9, <2>11, <2>13, <2>14 DEF CommandsInv
<1> QED
  BY <1>2, <1>3 DEF ExecuteFails

(* halt of anything else: the parent, waited for by nobody else and newest *)
(* nowhere, becomes the newest.                                            *)
LEMMA HaltChildCommands ==
    ASSUME TypeOK, CommandsInv, HaltChild
    PROVE  CommandsInv'
<1> DEFINE s == Shown
           h == Halting
           P == pcb[h].parent
<1>1. /\ s \in Terminals /\ h \in Pids /\ P \in Pids /\ Upper(h)
      /\ h = curr_pids[s] /\ Live(h) /\ pcb[h].pid = h /\ P # h
  BY HaltingFacts DEF HaltChild
<1>2. /\ pid_arr' = [pid_arr EXCEPT ![h] = 0]
      /\ curr_pids' = [curr_pids EXCEPT ![s] = P]
      /\ pcb' = [pcb EXCEPT ![h] = [pid |-> P, parent |-> P]]
      /\ frame' = [SystemCall EXCEPT ![h] = NoFrame]
  BY <1>1 DEF HaltChild, Freed, FallBack, Live
<1>3. \A p \in Pids : /\ Live(p)' <=> Live(p) /\ p # h
                      /\ pid_arr'[p] = 1 <=> Live(p) /\ p # h
  BY <1>2 DEF Live, TypeOK
<1>4. \A p \in Pids : p # h => pcb'[p] = pcb[p] /\ frame'[p].at = frame[p].at
  BY <1>2, FramesOfEntries DEF TypeOK
<1>5. \A u \in Terminals : curr_pids'[u] = IF u = s THEN P ELSE curr_pids[u]
  BY <1>1, <1>2 DEF TypeOK
<1> HIDE DEF s, h, P
<1>6. Child(h, P)
  BY <1>1 DEF Child, P
<1>7. /\ \A u \in Terminals : curr_pids[u] = h => u = s
      /\ \A q \in Pids : ~Child(q, h)
  BY <1>1 DEF CommandsInv, NewestIsOneTerminals
<1>8. Upper(P) => Live(P) /\ \A u \in Terminals : curr_pids[u] # P
  <2>1. Upper(P) => Live(P)
    BY <1>1 DEF CommandsInv, StartedAndWaitedFor, P
  <2> QED
    BY <1>1, <1>6, <2>1 DEF CommandsInv, NewestIsOneTerminals
<1>9. LowAreBases'
  BY <1>1, <1>4 DEF CommandsInv, LowAreBases
<1>10. StartedAndWaitedFor'
  <2> SUFFICES ASSUME NEW p \in Pids, Upper(p), Live(p), p # h
               PROVE  /\ pcb'[p].pid = p /\ pcb'[p].parent # p
                      /\ frame'[p].at.depth > 0
                      /\ Upper(pcb'[p].parent) => pid_arr'[pcb'[p].parent] = 1
    BY <1>3 DEF StartedAndWaitedFor, Live
  <2>1. /\ pcb[p].pid = p /\ pcb[p].parent # p
        /\ frame[p].at.depth > 0
        /\ Upper(pcb[p].parent) => Live(pcb[p].parent)
    BY DEF CommandsInv, StartedAndWaitedFor
  <2>2. pcb[p].parent \in Pids
    BY DEF TypeOK
  <2>3. pcb[p].parent # h
    BY <1>7 DEF Child
  <2> QED
    BY <1>3, <1>4, <2>1, <2>2, <2>3
<1>11. \A p, q \in Pids : Child(q, p)' => Child(q, p) /\ q # h
  BY <1>3, <1>4 DEF Child
<1>12. NewestIsOneTerminals'
  <2> SUFFICES ASSUME NEW u \in Terminals, Upper(curr_pids'[u])
               PROVE  /\ pid_arr'[curr_pids'[u]] = 1
                      /\ \A v \in Terminals : curr_pids'[v] = curr_pids'[u] => v = u
                      /\ \A q \in Pids : ~ (/\ Live(q)' /\ q # curr_pids'[u]
                                            /\ pcb'[q].parent = curr_pids'[u])
    BY DEF NewestIsOneTerminals, Child, Live
  <2>1. PICK p \in Pids : p = curr_pids'[u] /\ Upper(p)
    BY <1>1, <1>5, UpperFacts DEF TypeOK
  <2>2. CASE u = s
    <3>1. p = P /\ pid_arr'[p] = 1
      BY <1>1, <1>3, <1>5, <1>8, <2>1, <2>2
    <3>2. \A v \in Terminals : curr_pids'[v] = p => v = u
      BY <1>5, <1>8, <2>1, <2>2, <3>1
    <3>3. \A q \in Pids : ~Child(q, p)'
      BY <1>1, <1>6, <1>11, <2>1, <3>1 DEF CommandsInv, OneChildAtMost
    <3> QED
      BY <2>1, <3>1, <3>2, <3>3 DEF Child
  <2>3. CASE u # s
    <3>1. p = curr_pids[u] /\ Live(p) /\ p # h
      BY <1>5, <1>7, <2>1, <2>3 DEF CommandsInv, NewestIsOneTerminals
    <3>2. ASSUME NEW v \in Terminals, curr_pids'[v] = p PROVE v = u
      <4>1. v # s
        BY <1>5, <1>8, <2>1, <3>1, <3>2
      <4> QED
        BY <1>5, <2>1, <3>1, <3>2, <4>1 DEF CommandsInv, NewestIsOneTerminals
    <3>3. \A q \in Pids : ~Child(q, p)'
      BY <1>11, <2>1, <3>1 DEF CommandsInv, NewestIsOneTerminals
    <3> QED
      BY <1>3, <2>1, <3>1, <3>2, <3>3 DEF Child
  <2> QED
    BY <2>2, <2>3
<1>13. OneChildAtMost'
  BY <1>11 DEF CommandsInv, OneChildAtMost
<1> QED
  BY <1>9, <1>10, <1>12, <1>13 DEF CommandsInv

LEMMA CommandsAlways == Spec => [](TypeOK /\ CommandsInv)
<1>1. Init => TypeOK /\ CommandsInv
  BY InitType, InitCommands
<1>2. TypeOK /\ CommandsInv /\ [Next]_vars => (TypeOK /\ CommandsInv)'
  <2> SUFFICES ASSUME TypeOK, CommandsInv, [Next]_vars PROVE CommandsInv'
    BY StepType
  <2>1. CASE OtherEntry \/ SwitchTerminal \/ UNCHANGED vars
    <3>1. /\ UNCHANGED <<pid_arr, curr_pids, pcb>>
          /\ frame' \in {SystemCall, Interrupt, frame}
      BY <2>1 DEF OtherEntry, SwitchTerminal, vars
    <3> QED
      BY <3>1, FramesOfEntries, UnchangedCommands
  <2> QED
    BY <2>1, BootShellCommands, ExecuteCommands, ExecuteFailsCommands,
       HaltBaseCommands, HaltChildCommands DEF Next
<1> QED
  BY <1>1, <1>2, PTL DEF Spec

(* Even when commands come while the shells are still being started, and   *)
(* after any Alt+Fn, halt returns through a frame that an execute saved    *)
(* and nobody has used: the process it ends is live and was started.       *)
THEOREM HaltReturnsThroughAFrame == Spec => []HaltHasFrame
<1>1. TypeOK /\ CommandsInv => HaltHasFrame
  BY HaltingFacts DEF HaltHasFrame, NoFrame, BaseOf
<1> QED
  BY <1>1, CommandsAlways, PTL

(* A terminal that has a process never has none again, so that switch_task *)
(* boots no terminal twice.                                                *)
THEOREM TerminalsBootOnce == Spec => BootsOnce
<1>1. ASSUME TypeOK, [Next]_vars, NEW t \in Terminals, Booted(t)
      PROVE  Booted(t)'
  <2>1. \A p \in Pids : p # NoPid
    BY PidFacts
  <2>2. Shown \in Terminals /\ Halting \in Pids
    <3>1. Shown \in Terminals
      BY <1>1, PidFacts DEF TypeOK, Shown, Terminals
    <3> QED
      BY <1>1, <3>1, PidFacts DEF Halting, Latest, TypeOK
  <2>3. pcb[Halting].pid \in Pids /\ pcb[Halting].parent \in Pids
    BY <1>1, <2>2 DEF TypeOK
  <2>4. ASSUME NEW u \in Terminals, NEW arr, NEW frames,
               NEW cur \in [Terminals -> Pids \cup {NoPid}],
               cur[t] # NoPid, Spawn(u, arr, cur, frames)
        PROVE  Booted(t)'
    <3>1. PICK pid \in Pids : curr_pids' = [cur EXCEPT ![u] = pid]
      BY <2>4 DEF Spawn
    <3> QED
      BY <2>1, <2>4, <3>1 DEF Booted
  <2>5. curr_pids \in [Terminals -> Pids \cup {NoPid}] /\ curr_pids[t] # NoPid
    BY <1>1 DEF TypeOK, Booted
  <2>6. ASSUME NEW cur \in [Terminals -> Pids \cup {NoPid}], cur[t] # NoPid,
               NEW arr, NEW pid, NEW parent \in Pids
        PROVE  /\ FallBack(cur, arr, pid, parent) \in [Terminals -> Pids \cup {NoPid}]
               /\ FallBack(cur, arr, pid, parent)[t] # NoPid
    BY <2>1, <2>2, <2>6 DEF FallBack
  <2>7. CASE BootShell
    BY <2>4, <2>5, <2>7 DEF BootShell, Booted
  <2>8. CASE Execute
    BY <2>2, <2>4, <2>5, <2>8 DEF Execute
  <2>9. CASE ExecuteFails
    <3>1. ASSUME NEW pid \in Pids, NEW parent, NEW arr,
                 parent = ParentOf(pid, curr_pids[Shown]),
                 curr_pids' = FallBack([curr_pids EXCEPT ![Shown] = pid], arr,
                                       pid, parent)
          PROVE  Booted(t)'
      <4>1. parent \in Pids
        BY <2>2, <2>5, <3>1, ParentType
      <4> DEFINE cur == [curr_pids EXCEPT ![Shown] = pid]
      <4>2. cur \in [Terminals -> Pids \cup {NoPid}] /\ cur[t] # NoPid
        BY <2>1, <2>2, <2>5
      <4> HIDE DEF cur
      <4>3. FallBack(cur, arr, pid, parent)[t] # NoPid
        BY <2>6, <4>1, <4>2
      <4> QED
        BY <3>1, <4>3 DEF Booted, cur
    <3> QED
      BY <1>1, <2>9, <3>1 DEF ExecuteFails, Booted
  <2>10. CASE HaltBase
    <3> DEFINE cur == FallBack(curr_pids, pid_arr, pcb[Halting].pid, pcb[Halting].pid)
    <3>1. cur \in [Terminals -> Pids \cup {NoPid}] /\ cur[t] # NoPid
      BY <2>3, <2>5, <2>6
    <3>2. Spawn(Shown, Freed(pid_arr, pcb[Halting].pid), cur, SystemCall)
      BY <2>10 DEF HaltBase
    <3> HIDE DEF cur
    <3> QED
      BY <2>2, <2>4, <3>1, <3>2
  <2>11. CASE HaltChild
    <3>1. curr_pids' = FallBack(curr_pids, pid_arr, pcb[Halting].pid, pcb[Halting].parent)
      BY <2>11 DEF HaltChild
    <3> QED
      BY <2>3, <2>5, <2>6, <3>1 DEF Booted
  <2>12. CASE OtherEntry \/ SwitchTerminal \/ UNCHANGED vars
    BY <1>1, <2>12 DEF OtherEntry, SwitchTerminal, vars, Booted
  <2> QED
    BY <1>1, <2>7, <2>8, <2>9, <2>10, <2>11, <2>12 DEF Next
<1>2. TypeOK /\ [Next]_vars => [\A t \in Terminals : Booted(t) => Booted(t)']_vars
  BY <1>1
<1> QED
  BY <1>2, Typing, PTL DEF Spec, BootsOnce

-----------------------------------------------------------------------------
(* Ancestry is defined by recursion over PCBs.  That it defines anything   *)
(* needs an order in which parents come before children, among the PCBs of *)
(* pids that ended, too.                                                   *)

Ranked(table) ==
    \E n \in Nat, rank \in [Pids -> Nat] : \A p \in Pids :
        /\ rank[p] <= n
        /\ table[p].parent # p => rank[table[p].parent] < rank[p]

AncestryEntry(table, f, p) ==
    IF table[p].parent = p THEN <<p>> ELSE Append(f[table[p].parent], p)

IsAncestry(table, f) == f = [p \in Pids |-> AncestryEntry(table, f, p)]

LEMMA LeastElement ==
    ASSUME NEW S, S \subseteq Nat, S # {}
    PROVE  \E least \in S : \A n \in S : least <= n
<1> DEFINE Less == OpToRel(<, Nat)
<1>1. IsWellFoundedOn(Less, Nat)
  BY NatLessThanWellFounded
<1>2. \A m, n \in Nat : m < n => <<m, n>> \in Less
  BY DEF OpToRel
<1> HIDE DEF Less
<1>3. PICK least \in S : \A n \in S : ~ (<<n, least>> \in Less)
  BY <1>1, WFMin
<1>4. \A n \in S : ~ (n < least)
  BY <1>2, <1>3
<1> QED
  BY <1>4

LEMMA Induction ==
    ASSUME NEW S, S \subseteq Nat, 0 \in S, \A n \in S : n + 1 \in S
    PROVE  S = Nat
<1> SUFFICES ASSUME S # Nat PROVE FALSE
  OBVIOUS
<1>1. Nat \ S \subseteq Nat /\ Nat \ S # {}
  OBVIOUS
<1>2. PICK least \in Nat \ S : \A n \in Nat \ S : least <= n
  BY <1>1, LeastElement
<1>3. least \in Nat /\ least # 0
  BY <1>2
<1>4. least - 1 \in Nat /\ least - 1 < least /\ (least - 1) + 1 = least
  BY <1>3
<1>5. least - 1 \in S
  BY <1>2, <1>4
<1> QED
  BY <1>2, <1>4, <1>5

(* If there is a counterexample, there is one whose parent is none.        *)
LEMMA LeastRank ==
    ASSUME NEW rank \in [Pids -> Nat], NEW Bad, Bad \subseteq Pids, Bad # {}
    PROVE  \E p \in Bad : \A q \in Bad : rank[p] <= rank[q]
<1> DEFINE Ranks == {rank[p] : p \in Bad}
<1>1. Ranks \subseteq Nat /\ Ranks # {}
  OBVIOUS
<1> HIDE DEF Ranks
<1>2. PICK least \in Ranks : \A n \in Ranks : least <= n
  BY <1>1, LeastElement
<1> QED
  BY <1>2 DEF Ranks

LEMMA AncestryExists ==
    ASSUME NEW table \in [Pids -> [pid : Pids, parent : Pids]], Ranked(table)
    PROVE  \E f : IsAncestry(table, f)
<1>1. PICK n \in Nat, rank \in [Pids -> Nat] : \A p \in Pids :
        /\ rank[p] <= n
        /\ table[p].parent # p => rank[table[p].parent] < rank[p]
  BY DEF Ranked
<1> DEFINE IsUpto(f, m) ==
             f = [p \in Pids |-> IF rank[p] < m THEN AncestryEntry(table, f, p) ELSE <<>>]
           Reached == {m \in Nat : \E f : IsUpto(f, m)}
<1>2. \A p \in Pids : rank[p] \in Nat /\ rank[p] <= n
  BY <1>1
<1>3. \A p \in Pids : table[p].parent \in Pids
  OBVIOUS
<1>4. 0 \in Reached
  <2>1. IsUpto([p \in Pids |-> <<>>], 0)
    BY <1>2
  <2> QED
    BY <2>1
<1>5. \A m \in Reached : m + 1 \in Reached
  <2> SUFFICES ASSUME NEW m \in Reached PROVE m + 1 \in Reached
    OBVIOUS
  <2>1. PICK f : IsUpto(f, m)
    OBVIOUS
  <2>2. m \in Nat
    OBVIOUS
  <2> DEFINE g == [p \in Pids |-> IF rank[p] < m + 1 THEN AncestryEntry(table, f, p)
                                   ELSE <<>>]
  <2>3. ASSUME NEW p \in Pids, rank[p] < m + 1
        PROVE  AncestryEntry(table, f, p) = AncestryEntry(table, g, p)
    <3>1. CASE table[p].parent = p
      BY <3>1 DEF AncestryEntry
    <3>2. CASE table[p].parent # p
      <4> DEFINE q == table[p].parent
      <4>1. q \in Pids /\ rank[q] < m /\ rank[q] < m + 1
        BY <1>1, <1>2, <1>3, <2>2, <2>3, <3>2
      <4>2. f[q] = AncestryEntry(table, f, q) /\ g[q] = AncestryEntry(table, f, q)
        BY <2>1, <4>1
      <4> HIDE DEF g
      <4> QED
        BY <3>2, <4>2 DEF AncestryEntry
    <3> QED
      BY <3>1, <3>2
  <2>4. IsUpto(g, m + 1)
    <3> SUFFICES g = [p \in Pids |-> IF rank[p] < m + 1 THEN AncestryEntry(table, g, p)
                                     ELSE <<>>]
      OBVIOUS
    <3> HIDE DEF g
    <3>1. g = [p \in Pids |-> IF rank[p] < m + 1 THEN AncestryEntry(table, f, p)
                              ELSE <<>>]
      BY DEF g
    <3> QED
      BY <2>3, <3>1
  <2>5. \E h : IsUpto(h, m + 1)
    <3> HIDE DEF g, IsUpto
    <3> QED
      BY <2>4
  <2> HIDE DEF g, IsUpto
  <2> QED
    BY <2>2, <2>5
<1>6. Reached = Nat
  <2>1. Reached \subseteq Nat
    OBVIOUS
  <2> HIDE DEF Reached
  <2> QED
    BY <1>4, <1>5, <2>1, Induction
<1>7. PICK f : IsUpto(f, n + 1)
  <2>1. n + 1 \in Reached
    <3> HIDE DEF Reached
    <3> QED
      BY <1>6
  <2> HIDE DEF IsUpto
  <2> QED
    BY <2>1
<1>8. \A p \in Pids : rank[p] < n + 1
  BY <1>2
<1>9. f = [p \in Pids |-> AncestryEntry(table, f, p)]
  BY <1>7, <1>8
<1> QED
  BY <1>9 DEF IsAncestry

(* The ancestors of a process are in every set that has the process and    *)
(* with a process its parent.                                              *)
LEMMA AncestorsIn ==
    ASSUME NEW table \in [Pids -> [pid : Pids, parent : Pids]], Ranked(table),
           NEW f, IsAncestry(table, f),
           NEW L, L \subseteq Pids, \A p \in L : table[p].parent \in L
    PROVE  \A p \in L : f[p] \in Seq(L) /\ f[p] # <<>>
<1>1. PICK n \in Nat, rank \in [Pids -> Nat] : \A p \in Pids :
        /\ rank[p] <= n
        /\ table[p].parent # p => rank[table[p].parent] < rank[p]
  BY DEF Ranked
<1> DEFINE Bad == {p \in L : ~ (f[p] \in Seq(L) /\ f[p] # <<>>)}
<1> SUFFICES ASSUME Bad # {} PROVE FALSE
  OBVIOUS
<1>2. rank \in [Pids -> Nat] /\ Bad \subseteq Pids
  OBVIOUS
<1>3. PICK p \in Bad : \A q \in Bad : rank[p] <= rank[q]
  <2> HIDE DEF Bad
  <2> QED
    BY <1>2, LeastRank
<1>4. p \in Pids /\ p \in L /\ table[p].parent \in L /\ table[p].parent \in Pids
  OBVIOUS
<1>5. f[p] = AncestryEntry(table, f, p)
  BY <1>4 DEF IsAncestry
<1>6. CASE table[p].parent = p
  <2>1. f[p] = <<p>>
    BY <1>5, <1>6 DEF AncestryEntry
  <2>2. <<p>> \in Seq(L) /\ Len(<<p>>) = 1
    BY <1>4
  <2>3. f[p] # <<>>
    BY <2>1, <2>2
  <2> HIDE DEF Bad
  <2>4. f[p] \in Seq(L)
    BY <2>1, <2>2
  <2> QED
    BY <2>3, <2>4 DEF Bad
<1>7. CASE table[p].parent # p
  <2>1. table[p].parent \notin Bad
    BY <1>1, <1>2, <1>3, <1>4, <1>7
  <2>2. f[table[p].parent] \in Seq(L)
    BY <1>4, <2>1
  <2>3. f[p] = Append(f[table[p].parent], p)
    BY <1>5, <1>7 DEF AncestryEntry
  <2>4. f[p] \in Seq(L) /\ Len(f[p]) = Len(f[table[p].parent]) + 1
    BY <1>4, <2>2, <2>3
  <2>5. f[p] # <<>>
    BY <2>2, <2>4
  <2> QED
    BY <2>4, <2>5
<1> QED
  BY <1>6, <1>7

(* They depend on the PCBs of these only.                                  *)
LEMMA AncestriesAgree ==
    ASSUME NEW table \in [Pids -> [pid : Pids, parent : Pids]], Ranked(table),
           NEW f, IsAncestry(table, f), NEW other, NEW g, IsAncestry(other, g),
           NEW L, L \subseteq Pids,
           \A p \in L : table[p].parent \in L /\ other[p].parent = table[p].parent
    PROVE  \A p \in L : f[p] = g[p]
<1>1. PICK n \in Nat, rank \in [Pids -> Nat] : \A p \in Pids :
        /\ rank[p] <= n
        /\ table[p].parent # p => rank[table[p].parent] < rank[p]
  BY DEF Ranked
<1> DEFINE Bad == {p \in L : f[p] # g[p]}
<1> SUFFICES ASSUME Bad # {} PROVE FALSE
  OBVIOUS
<1>2. rank \in [Pids -> Nat] /\ Bad \subseteq Pids
  OBVIOUS
<1>3. PICK p \in Bad : \A q \in Bad : rank[p] <= rank[q]
  <2> HIDE DEF Bad
  <2> QED
    BY <1>2, LeastRank
<1>4. p \in Pids /\ p \in L /\ table[p].parent \in L /\ table[p].parent \in Pids
  OBVIOUS
<1>5. f[p] = AncestryEntry(table, f, p) /\ g[p] = AncestryEntry(other, g, p)
  BY <1>4 DEF IsAncestry
<1>6. other[p].parent = table[p].parent
  BY <1>4
<1>7. CASE table[p].parent = p
  BY <1>5, <1>6, <1>7 DEF AncestryEntry
<1>8. CASE table[p].parent # p
  <2>1. table[p].parent \notin Bad
    BY <1>1, <1>2, <1>3, <1>4, <1>8
  <2>2. f[table[p].parent] = g[table[p].parent]
    BY <1>4, <2>1
  <2> QED
    BY <1>5, <1>6, <1>8, <2>2 DEF AncestryEntry
<1> QED
  BY <1>7, <1>8


-----------------------------------------------------------------------------
(* What the steps do to newest processes and parents.                      *)

SameParents == \A p \in Pids : Live(p) => pcb'[p].parent = pcb[p].parent

(* A step leaves parents alone, but for those of a pid that was free.      *)
LEMMA RankedStays ==
    ASSUME Inv, TypeOK', Ranked(pcb), NEW pid \in Pids,
           \/ ~Live(pid) /\ (pcb'[pid].parent = pid \/ Live(pcb'[pid].parent))
           \/ pcb'[pid].parent = pcb[pid].parent,
           \A p \in Pids : p # pid => pcb'[p].parent = pcb[p].parent
    PROVE  Ranked(pcb')
<1>1. PICK n \in Nat, rank \in [Pids -> Nat] : \A p \in Pids :
        /\ rank[p] <= n
        /\ pcb[p].parent # p => rank[pcb[p].parent] < rank[p]
  BY DEF Ranked
<1>2. CASE pcb'[pid].parent = pcb[pid].parent
  <2>1. \A p \in Pids : pcb'[p].parent = pcb[p].parent
    BY <1>2
  <2> QED
    BY <1>1, <2>1 DEF Ranked
<1>3. CASE ~Live(pid) /\ (pcb'[pid].parent = pid \/ Live(pcb'[pid].parent))
  <2> DEFINE new == [p \in Pids |-> IF Live(p) THEN rank[p] ELSE rank[p] + n + 1]
  <2>1. \A p \in Pids : pcb[p].parent \in Pids /\ pcb'[p].parent \in Pids
    BY DEF Inv, TypeOK
  <2>2. \A p \in Pids : Live(p) => Live(pcb[p].parent)
    BY DEF Inv, TreeInv, PidsAccountedFor, ParentsAreLive
  <2>3. new \in [Pids -> Nat] /\ n + n + 1 \in Nat
    BY <1>1
  <2>4. \A p \in Pids : new[p] = IF Live(p) THEN rank[p] ELSE rank[p] + n + 1
    OBVIOUS
  <2> HIDE DEF new
  <2>5. ASSUME NEW p \in Pids
        PROVE  /\ new[p] <= n + n + 1
               /\ pcb'[p].parent # p => new[pcb'[p].parent] < new[p]
    <3>1. rank[p] \in Nat /\ rank[p] <= n
      BY <1>1
    <3>2. new[p] <= n + n + 1
      BY <2>4, <3>1
    <3>3. ASSUME p = pid, pcb'[p].parent # p PROVE new[pcb'[p].parent] < new[p]
      <4> DEFINE q == pcb'[p].parent
      <4>1. q \in Pids /\ Live(q) /\ ~Live(p)
        BY <1>3, <2>1, <3>3
      <4> HIDE DEF q
      <4>2. rank[q] \in Nat /\ rank[q] <= n
        BY <1>1, <4>1
      <4>3. new[q] = rank[q] /\ new[p] = rank[p] + n + 1
        BY <2>4, <4>1
      <4>4. new[q] < new[p]
        BY <3>1, <4>2, <4>3
      <4> QED
        BY <4>4 DEF q
    <3>4. ASSUME p # pid, pcb'[p].parent # p PROVE new[pcb'[p].parent] < new[p]
      <4> DEFINE q == pcb[p].parent
      <4>1. pcb'[p].parent = q /\ q \in Pids /\ rank[q] < rank[p]
        BY <1>1, <2>1, <3>4
      <4>2. Live(p) => Live(q)
        BY <2>2
      <4> HIDE DEF q
      <4>3. rank[q] \in Nat
        BY <4>1
      <4>4. new[q] < new[p]
        BY <2>4, <3>1, <4>1, <4>2, <4>3
      <4> QED
        BY <4>1, <4>4
    <3> QED
      BY <3>2, <3>3, <3>4
  <2> QED
    BY <2>3, <2>5 DEF Ranked
<1> QED
  BY <1>2, <1>3

LEMMA InitRanked == Init => Ranked(pcb)
<1> SUFFICES ASSUME Init PROVE Ranked(pcb)
  OBVIOUS
<1> DEFINE rank == [p \in Pids |-> IF p = 0 THEN 0 ELSE 1]
<1>1. rank \in [Pids -> Nat] /\ 1 \in Nat /\ 0 \in Pids
  BY PidFacts
<1>2. \A p \in Pids : pcb[p].parent = 0
  BY DEF Init
<1>3. \A p \in Pids : /\ rank[p] <= 1
                      /\ pcb[p].parent # p => rank[pcb[p].parent] < rank[p]
  BY <1>1, <1>2
<1> HIDE DEF rank
<1> QED
  BY <1>1, <1>3 DEF Ranked

(* A command pushes a free pid with the newest process as its parent.      *)
LEMMA ExecutePushes ==
    ASSUME Inv, AllBooted, Execute
    PROVE  \E pid \in Pids :
             /\ ~Live(pid)
             /\ curr_pids' = [curr_pids EXCEPT ![Shown] = pid]
             /\ pcb'[pid].parent = curr_pids[Shown] /\ curr_pids[Shown] # pid
             /\ Live(curr_pids[Shown])
             /\ \A p \in Pids : p # pid => pcb'[p].parent = pcb[p].parent
<1> USE PidFacts DEF Inv
<1>1. /\ Shown \in Terminals /\ curr_pids[Shown] \in Pids /\ Live(curr_pids[Shown])
      /\ \A b \in Pids : b < MaxTerminals => Live(b)
  BY AtCommand
<1>2. PICK pid \in Pids :
        /\ FirstFree(pid_arr, pid)
        /\ curr_pids' = [curr_pids EXCEPT ![Shown] = pid]
        /\ pcb' = [pcb EXCEPT ![pid] = [pid |-> pid,
                                        parent |-> ParentOf(pid, curr_pids[Shown])]]
  BY DEF Execute, Spawn
<1>3. ~Live(pid)
  BY <1>2 DEF FirstFree, Live
<1>4. ParentOf(pid, curr_pids[Shown]) = curr_pids[Shown]
  BY <1>1, <1>3 DEF ParentOf
<1> QED
  BY <1>1, <1>2, <1>3, <1>4 DEF TypeOK

(* A refused command leaves the stacks of processes as they are.           *)
LEMMA ExecuteFailsKeeps ==
    ASSUME Inv, AllBooted, ExecuteFails
    PROVE  /\ curr_pids' = curr_pids
           /\ \E pid \in Pids :
                /\ \/ ~Live(pid) /\ Live(pcb'[pid].parent)
                   \/ pcb'[pid].parent = pcb[pid].parent
                /\ \A p \in Pids : p # pid => pcb'[p].parent = pcb[p].parent
<1> USE PidFacts DEF Inv
<1>1. /\ Shown \in Terminals /\ curr_pids[Shown] \in Pids /\ Live(curr_pids[Shown])
      /\ \A b \in Pids : b < MaxTerminals => Live(b)
  BY AtCommand
<1>2. CASE UNCHANGED <<curr_pids, pcb>>
  BY <1>1, <1>2
<1>3. ASSUME NEW pid \in Pids, NEW taken, NEW parent,
             FirstFree(pid_arr, pid),
             taken = [pid_arr EXCEPT ![pid] = 1],
             parent = ParentOf(pid, curr_pids[Shown]),
             curr_pids' = FallBack([curr_pids EXCEPT ![Shown] = pid],
                                   taken, pid, parent),
             pcb' = [pcb EXCEPT ![pid] = [pid |-> pid, parent |-> parent]]
      PROVE  /\ curr_pids' = curr_pids
             /\ ~Live(pid) /\ Live(pcb'[pid].parent)
             /\ \A p \in Pids : p # pid => pcb'[p].parent = pcb[p].parent
  <2>1. ~Live(pid)
    BY <1>3 DEF FirstFree, Live
  <2>2. parent = curr_pids[Shown]
    BY <1>1, <1>3, <2>1 DEF ParentOf
  <2>3. taken[pid] = 1
    BY <1>3 DEF TypeOK
  <2>4. curr_pids' = curr_pids
    BY <1>1, <1>3, <2>2, <2>3 DEF FallBack, TypeOK
  <2>5. pcb'[pid].parent = parent /\ \A p \in Pids : p # pid => pcb'[p] = pcb[p]
    BY <1>3 DEF TypeOK
  <2> QED
    BY <1>1, <2>1, <2>2, <2>4, <2>5
<1> QED
  BY <1>2, <1>3 DEF ExecuteFails

(* An exit pops: the parent is the newest again.                           *)
LEMMA HaltChildPops ==
    ASSUME Inv, AllBooted, HaltChild
    PROVE  LET h == curr_pids[Shown] IN
             /\ h \in Pids /\ pcb[h].parent # h /\ Live(h)
             /\ curr_pids' = [curr_pids EXCEPT ![Shown] = pcb[h].parent]
             /\ \A p \in Pids : pcb'[p].parent = pcb[p].parent
<1> USE PidFacts DEF Inv
<1>1. /\ Shown \in Terminals /\ Halting = curr_pids[Shown] /\ Halting \in Pids
      /\ Live(Halting) /\ pcb[Halting].pid = Halting
  BY AtCommand
<1>2. pcb[Halting].parent # Halting
  BY <1>1 DEF HaltChild, IsBase
<1>3. /\ curr_pids' = [curr_pids EXCEPT ![Shown] = pcb[Halting].parent]
      /\ pcb' = [pcb EXCEPT ![Halting] = [pid |-> pcb[Halting].parent,
                                          parent |-> pcb[Halting].parent]]
  BY <1>1 DEF HaltChild, FallBack, Live
<1>4. \A p \in Pids : pcb'[p].parent = pcb[p].parent
  BY <1>1, <1>3 DEF TypeOK
<1> QED
  BY <1>1, <1>2, <1>3, <1>4

-----------------------------------------------------------------------------
(* The refinement of Sessions.                                             *)

SessionsInv == Inv /\ Ranked(pcb)

LivePids == {p \in Pids : Live(p)}

LEMMA SessionsInvSteps ==
    ASSUME EarlyCommands = FALSE, SessionsInv, [Next]_vars
    PROVE  SessionsInv'
<1>1. Inv /\ Inv' /\ Ranked(pcb) /\ TypeOK'
  <2>1. Inv'
    BY StepTree DEF SessionsInv
  <2> QED
    BY <2>1 DEF SessionsInv, Inv
<1> SUFFICES Ranked(pcb')
  BY <1>1 DEF SessionsInv
<1>2. MayCommand => AllBooted
  BY DEF MayCommand
<1>3. ASSUME UNCHANGED pcb PROVE Ranked(pcb')
  BY <1>1, <1>3
<1>4. CASE OtherEntry \/ SwitchTerminal \/ UNCHANGED vars
  BY <1>3, <1>4 DEF OtherEntry, SwitchTerminal, vars
<1>5. CASE BootShell
  <2>1. PICK t \in Terminals, pid \in Pids :
          /\ ~Live(pid)
          /\ pcb' = [pcb EXCEPT ![pid] = [pid |-> pid, parent |-> pid]]
    BY <1>1, <1>5, BootShellFacts
  <2>2. pcb'[pid].parent = pid /\ \A p \in Pids : p # pid => pcb'[p].parent = pcb[p].parent
    BY <1>1, <2>1 DEF Inv, TypeOK
  <2> QED
    BY <1>1, <2>1, <2>2, RankedStays
<1>6. CASE Execute
  <2>1. PICK pid \in Pids :
          /\ ~Live(pid) /\ pcb'[pid].parent = curr_pids[Shown] /\ Live(curr_pids[Shown])
          /\ \A p \in Pids : p # pid => pcb'[p].parent = pcb[p].parent
    BY <1>1, <1>2, <1>6, ExecutePushes DEF Execute
  <2> QED
    BY <1>1, <2>1, RankedStays
<1>7. CASE ExecuteFails
  BY <1>1, <1>2, <1>7, ExecuteFailsKeeps, RankedStays DEF ExecuteFails
<1>8. CASE HaltBase
  BY <1>1, <1>2, <1>3, <1>8, HaltBaseFacts DEF HaltBase
<1>9. CASE HaltChild
  <2>1. \A p \in Pids : pcb'[p].parent = pcb[p].parent
    BY <1>1, <1>2, <1>9, HaltChildPops DEF HaltChild
  <2>2. 0 \in Pids
    BY PidFacts
  <2> QED
    BY <1>1, <2>1, <2>2, RankedStays
<1> QED
  BY <1>4, <1>5, <1>6, <1>7, <1>8, <1>9 DEF Next

LEMMA AncestryIs ==
    ASSUME SessionsInv
    PROVE  /\ IsAncestry(pcb, Ancestry)
           /\ pcb \in [Pids -> [pid : Pids, parent : Pids]]
           /\ \A p \in LivePids : pcb[p].parent \in LivePids
           /\ \A p \in LivePids : /\ Ancestry[p] = AncestryEntry(pcb, Ancestry, p)
                                  /\ Ancestry[p] \in Seq(LivePids)
                                  /\ Ancestry[p] # <<>>
<1>1. pcb \in [Pids -> [pid : Pids, parent : Pids]] /\ Ranked(pcb)
  BY DEF SessionsInv, Inv, TypeOK
<1>2. PICK f : IsAncestry(pcb, f)
  BY <1>1, AncestryExists
<1>3. Ancestry = CHOOSE g : IsAncestry(pcb, g)
  BY DEF Ancestry, IsAncestry, AncestryEntry
<1>4. IsAncestry(pcb, Ancestry)
  <2> HIDE DEF IsAncestry
  <2> QED
    BY <1>2, <1>3
<1>5. \A p \in LivePids : pcb[p].parent \in LivePids
  BY <1>1 DEF SessionsInv, Inv, TreeInv, PidsAccountedFor, ParentsAreLive, LivePids
<1>6. LivePids \subseteq Pids
  BY DEF LivePids
<1>7. \A p \in LivePids : Ancestry[p] \in Seq(LivePids) /\ Ancestry[p] # <<>>
  <2> HIDE DEF LivePids
  <2> QED
    BY <1>1, <1>4, <1>5, <1>6, AncestorsIn
<1>8. \A p \in Pids : Ancestry[p] = AncestryEntry(pcb, Ancestry, p)
  <2>1. Ancestry = [p \in Pids |-> AncestryEntry(pcb, Ancestry, p)]
    BY <1>4 DEF IsAncestry
  <2> DEFINE A == Ancestry
  <2>2. A = [p \in Pids |-> AncestryEntry(pcb, A, p)]
    BY <2>1
  <2> HIDE DEF A
  <2>3. \A p \in Pids : A[p] = AncestryEntry(pcb, A, p)
    BY <2>2
  <2> QED
    BY <2>3 DEF A
<1> QED
  BY <1>1, <1>4, <1>5, <1>6, <1>7, <1>8

(* The same of the next state, and of who was live before a step that      *)
(* leaves their parents alone.                                             *)
LEMMA AncestryNext ==
    ASSUME SessionsInv, SessionsInv'
    PROVE  /\ \A p \in Pids : Ancestry'[p] = AncestryEntry(pcb', Ancestry', p)
           /\ SameParents => \A p \in LivePids : Ancestry'[p] = Ancestry[p]
<1>1. pcb' \in [Pids -> [pid : Pids, parent : Pids]] /\ Ranked(pcb')
  BY DEF SessionsInv, Inv, TypeOK
<1>2. PICK f : IsAncestry(pcb', f)
  BY <1>1, AncestryExists
<1>3. Ancestry' = CHOOSE g : IsAncestry(pcb', g)
  BY DEF Ancestry, IsAncestry, AncestryEntry
<1>4. IsAncestry(pcb', Ancestry')
  <2> HIDE DEF IsAncestry
  <2> QED
    BY <1>2, <1>3
<1>5. \A p \in Pids : Ancestry'[p] = AncestryEntry(pcb', Ancestry', p)
  <2> DEFINE A == Ancestry'
  <2>1. A = [p \in Pids |-> AncestryEntry(pcb', A, p)]
    BY <1>4 DEF IsAncestry
  <2> HIDE DEF A
  <2>2. \A p \in Pids : A[p] = AncestryEntry(pcb', A, p)
    BY <2>1
  <2> QED
    BY <2>2 DEF A
<1>6. ASSUME SameParents PROVE \A p \in LivePids : Ancestry'[p] = Ancestry[p]
  <2>1. /\ IsAncestry(pcb, Ancestry) /\ Ranked(pcb)
        /\ pcb \in [Pids -> [pid : Pids, parent : Pids]]
        /\ \A p \in LivePids : pcb[p].parent \in LivePids
    BY AncestryIs DEF SessionsInv
  <2>2. LivePids \subseteq Pids /\ \A p \in LivePids : pcb'[p].parent = pcb[p].parent
    BY <1>6 DEF LivePids, SameParents
  <2> HIDE DEF LivePids
  <2> QED
    BY <1>4, <2>1, <2>2, AncestriesAgree
<1> QED
  BY <1>5, <1>6

LEMMA NewestLive ==
    ASSUME SessionsInv, NEW t \in Terminals, Booted(t)
    PROVE  curr_pids[t] \in LivePids
BY DEF SessionsInv, Inv, TypeOK, TreeInv, PidsAccountedFor, NewestAreLive,
       LivePids, Booted

(* Terminals whose newest process stays keep their stacks.                 *)
LEMMA StackStays ==
    ASSUME SessionsInv, SessionsInv', SameParents, NEW t \in Terminals,
           curr_pids'[t] = curr_pids[t]
    PROVE  SessionsOfTerminals'[t] = SessionsOfTerminals[t]
<1>1. SessionsOfTerminals[t] = IF Booted(t) THEN Ancestry[curr_pids[t]] ELSE <<>>
  BY DEF SessionsOfTerminals
<1>2. SessionsOfTerminals'[t] = IF Booted(t) THEN Ancestry'[curr_pids[t]] ELSE <<>>
  BY DEF SessionsOfTerminals, Booted
<1>3. Booted(t) => Ancestry'[curr_pids[t]] = Ancestry[curr_pids[t]]
  BY NewestLive, AncestryNext
<1> QED
  BY <1>1, <1>2, <1>3

(* What is on no stack: free pids.                                         *)
LEMMA UsedAreLive ==
    ASSUME SessionsInv
    PROVE  Abstract!Used \subseteq LivePids
<1> SUFFICES ASSUME NEW t \in Terminals, NEW i \in 1 .. Len(SessionsOfTerminals[t])
             PROVE  SessionsOfTerminals[t][i] \in LivePids
  BY DEF Abstract!Used
<1> DEFINE stack == SessionsOfTerminals[t]
<1>1. stack \in Seq(LivePids)
  <2>1. stack = IF Booted(t) THEN Ancestry[curr_pids[t]] ELSE <<>>
    BY DEF SessionsOfTerminals
  <2>2. Booted(t) => Ancestry[curr_pids[t]] \in Seq(LivePids)
    BY NewestLive, AncestryIs
  <2> HIDE DEF stack
  <2> QED
    BY <2>1, <2>2
<1> HIDE DEF stack
<1>2. \A k \in 1 .. Len(stack) : stack[k] \in LivePids
  BY <1>1
<1> QED
  BY <1>2 DEF stack

LEMMA BootIsAStep ==
    ASSUME SessionsInv, SessionsInv', BootShell
    PROVE  Abstract!BootShell
<1>1. PICK t \in Terminals, pid \in Pids :
        /\ ~Booted(t) /\ ~Live(pid)
        /\ current_terminal' = t + 1
        /\ curr_pids' = [curr_pids EXCEPT ![t] = pid]
        /\ pcb' = [pcb EXCEPT ![pid] = [pid |-> pid, parent |-> pid]]
  BY BootShellFacts DEF SessionsInv
<1>2. SameParents /\ pcb'[pid].parent = pid
  BY <1>1 DEF SameParents, SessionsInv, Inv, TypeOK
<1>3. SessionsOfTerminals[t] = <<>>
  BY <1>1 DEF SessionsOfTerminals
<1>4. curr_pids'[t] = pid /\ \A u \in Terminals : u # t => curr_pids'[u] = curr_pids[u]
  BY <1>1 DEF SessionsInv, Inv, TypeOK
<1>5. SessionsOfTerminals'[t] = <<pid>>
  <2>1. SessionsOfTerminals'[t] = Ancestry'[pid]
    BY <1>4, PidFacts DEF SessionsOfTerminals, Booted
  <2>2. Ancestry'[pid] = <<pid>>
    BY <1>2, AncestryNext DEF AncestryEntry
  <2> QED
    BY <2>1, <2>2
<1>6. \A u \in Terminals : u # t => SessionsOfTerminals'[u] = SessionsOfTerminals[u]
  BY <1>2, <1>4, StackStays
<1>7. Append(SessionsOfTerminals[t], pid) = <<pid>>
  BY <1>3
<1>8. SessionsOfTerminals' = [SessionsOfTerminals EXCEPT ![t] =
                                 Append(SessionsOfTerminals[t], pid)]
  <2>1. /\ DOMAIN SessionsOfTerminals = Terminals
        /\ SessionsOfTerminals = [u \in Terminals |-> SessionsOfTerminals[u]]
        /\ SessionsOfTerminals' = [u \in Terminals |-> SessionsOfTerminals'[u]]
    BY DEF SessionsOfTerminals
  <2> DEFINE old == SessionsOfTerminals
             new == SessionsOfTerminals'
  <2> HIDE DEF old, new
  <2>2. new = [old EXCEPT ![t] = <<pid>>]
    BY <1>5, <1>6, <2>1 DEF old, new
  <2> QED
    BY <1>7, <2>2 DEF old, new
<1>9. pid \in Pids \ Abstract!Used
  BY <1>1, UsedAreLive DEF LivePids
<1>10. Shown' = t
  BY <1>1, PidFacts DEF Shown, Terminals
<1> QED
  BY <1>3, <1>8, <1>9, <1>10 DEF Abstract!BootShell, Abstract!Push


(* What a step that gives one terminal another stack does.                 *)
LEMMA OneStackChanges ==
    ASSUME SessionsInv, SessionsInv', SameParents, NEW t \in Terminals,
           NEW pid \in Pids, curr_pids' = [curr_pids EXCEPT ![t] = pid],
           NEW stack, Ancestry'[pid] = stack
    PROVE  SessionsOfTerminals' = [SessionsOfTerminals EXCEPT ![t] = stack]
<1>1. curr_pids'[t] = pid /\ \A u \in Terminals : u # t => curr_pids'[u] = curr_pids[u]
  BY DEF SessionsInv, Inv, TypeOK
<1>2. SessionsOfTerminals'[t] = stack
  BY <1>1, PidFacts DEF SessionsOfTerminals, Booted
<1>3. \A u \in Terminals : u # t => SessionsOfTerminals'[u] = SessionsOfTerminals[u]
  BY <1>1, StackStays
<1>4. /\ DOMAIN SessionsOfTerminals = Terminals
      /\ SessionsOfTerminals = [u \in Terminals |-> SessionsOfTerminals[u]]
      /\ SessionsOfTerminals' = [u \in Terminals |-> SessionsOfTerminals'[u]]
  BY DEF SessionsOfTerminals
<1> DEFINE old == SessionsOfTerminals
           new == SessionsOfTerminals'
<1> HIDE DEF old, new
<1>5. new = [old EXCEPT ![t] = stack]
  BY <1>2, <1>3, <1>4 DEF old, new
<1> QED
  BY <1>5 DEF old, new

(* What a step that leaves the newest processes alone does: nothing.       *)
LEMMA StacksStay ==
    ASSUME SessionsInv, SessionsInv', SameParents, curr_pids' = curr_pids
    PROVE  SessionsOfTerminals' = SessionsOfTerminals
<1>1. \A t \in Terminals : SessionsOfTerminals'[t] = SessionsOfTerminals[t]
  BY StackStays
<1>2. /\ SessionsOfTerminals = [u \in Terminals |-> SessionsOfTerminals[u]]
      /\ SessionsOfTerminals' = [u \in Terminals |-> SessionsOfTerminals'[u]]
  BY DEF SessionsOfTerminals
<1> DEFINE old == SessionsOfTerminals
           new == SessionsOfTerminals'
<1> HIDE DEF old, new
<1>3. new = old
  BY <1>1, <1>2 DEF old, new
<1> QED
  BY <1>3 DEF old, new

LEMMA ExecuteIsAStep ==
    ASSUME SessionsInv, SessionsInv', AllBooted, Execute
    PROVE  Abstract!Launch
<1> DEFINE top == curr_pids[Shown]
<1>1. PICK pid \in Pids :
        /\ ~Live(pid)
        /\ curr_pids' = [curr_pids EXCEPT ![Shown] = pid]
        /\ pcb'[pid].parent = top /\ top # pid /\ Live(top)
        /\ \A p \in Pids : p # pid => pcb'[p].parent = pcb[p].parent
  BY ExecutePushes DEF SessionsInv
<1>2. Shown \in Terminals /\ Booted(Shown) /\ top \in LivePids
  BY AtCommand DEF SessionsInv, Inv, Booted, AllBooted, LivePids
<1>3. SameParents
  BY <1>1 DEF SameParents
<1>4. Ancestry'[top] = Ancestry[top] /\ Ancestry[top] # <<>>
  BY <1>2, <1>3, AncestryNext, AncestryIs
<1>5. Ancestry'[pid] = Append(Ancestry[top], pid)
  <2>1. Ancestry'[pid] = AncestryEntry(pcb', Ancestry', pid)
    BY AncestryNext
  <2> QED
    BY <1>1, <1>4, <2>1 DEF AncestryEntry
<1>6. SessionsOfTerminals[Shown] = Ancestry[top]
  BY <1>2 DEF SessionsOfTerminals
<1>7. SessionsOfTerminals' = [SessionsOfTerminals EXCEPT ![Shown] =
                                 Append(SessionsOfTerminals[Shown], pid)]
  <2> DEFINE stack == Append(SessionsOfTerminals[Shown], pid)
  <2>1. Ancestry'[pid] = stack
    BY <1>5, <1>6
  <2> HIDE DEF stack
  <2>2. SessionsOfTerminals' = [SessionsOfTerminals EXCEPT ![Shown] = stack]
    BY <1>1, <1>2, <1>3, <2>1, OneStackChanges
  <2> QED
    BY <2>2 DEF stack
<1>8. pid \in Pids \ Abstract!Used
  BY <1>1, UsedAreLive DEF LivePids
<1>9. Shown' = Shown
  BY DEF Execute, Shown
<1> QED
  BY <1>4, <1>6, <1>7, <1>8, <1>9 DEF Abstract!Launch, Abstract!Push

LEMMA HaltChildIsAStep ==
    ASSUME SessionsInv, SessionsInv', AllBooted, HaltChild
    PROVE  Abstract!Exit
<1> DEFINE top == curr_pids[Shown]
           below == pcb[top].parent
<1>1. /\ top \in Pids /\ below # top /\ Live(top)
      /\ curr_pids' = [curr_pids EXCEPT ![Shown] = below]
      /\ \A p \in Pids : pcb'[p].parent = pcb[p].parent
  BY HaltChildPops DEF SessionsInv
<1>2. Shown \in Terminals /\ Booted(Shown) /\ top \in LivePids
  BY AtCommand DEF SessionsInv, Inv, Booted, AllBooted, LivePids
<1>3. SameParents
  BY <1>1 DEF SameParents
<1>4. below \in LivePids /\ below \in Pids
  BY <1>2, AncestryIs DEF LivePids
<1> DEFINE rest == Ancestry[below]
<1>5. Ancestry[top] = Append(rest, top)
  BY <1>1, <1>2, AncestryIs DEF AncestryEntry
<1>6. rest \in Seq(LivePids) /\ rest # <<>> /\ Ancestry'[below] = rest
  BY <1>3, <1>4, AncestryIs, AncestryNext
<1>7. SessionsOfTerminals[Shown] = Append(rest, top)
  BY <1>2, <1>5 DEF SessionsOfTerminals
<1>8. SessionsOfTerminals' = [SessionsOfTerminals EXCEPT ![Shown] = rest]
  BY <1>1, <1>2, <1>3, <1>4, <1>6, OneStackChanges
<1> HIDE DEF rest, top, below
<1>9. /\ Len(Append(rest, top)) > 1
      /\ SubSeq(Append(rest, top), 1, Len(Append(rest, top)) - 1) = rest
  BY <1>2, <1>6
<1>10. Shown' = Shown
  BY DEF HaltChild, Shown
<1> DEFINE old == SessionsOfTerminals
           new == SessionsOfTerminals'
<1>11. SubSeq(old[Shown], 1, Len(old[Shown]) - 1) = rest /\ Len(old[Shown]) > 1
  BY <1>7, <1>9
<1>12. new = [old EXCEPT ![Shown] = SubSeq(old[Shown], 1, Len(old[Shown]) - 1)]
  BY <1>8, <1>11
<1> QED
  BY <1>10, <1>11, <1>12 DEF Abstract!Exit

(* A step that leaves the stacks alone is a stutter.                       *)
LEMMA OtherStepsAreNone ==
    ASSUME SessionsInv, SessionsInv', AllBooted, ExecuteFails \/ HaltBase
    PROVE  UNCHANGED <<SessionsOfTerminals, Shown>>
<1>1. curr_pids' = curr_pids /\ SameParents
  <2>1. CASE ExecuteFails
    <3>1. PICK pid \in Pids :
            /\ \/ ~Live(pid) /\ Live(pcb'[pid].parent)
               \/ pcb'[pid].parent = pcb[pid].parent
            /\ \A p \in Pids : p # pid => pcb'[p].parent = pcb[p].parent
      BY <2>1, ExecuteFailsKeeps DEF SessionsInv
    <3>2. curr_pids' = curr_pids
      BY <2>1, ExecuteFailsKeeps DEF SessionsInv
    <3> QED
      BY <3>1, <3>2 DEF SameParents
  <2>2. CASE HaltBase
    BY <2>2, HaltBaseFacts DEF SessionsInv, SameParents
  <2> QED
    BY <2>1, <2>2
<1>2. Shown' = Shown
  BY DEF ExecuteFails, HaltBase, Shown
<1> QED
  BY <1>1, <1>2, StacksStay

LEMMA SessionsStep ==
    ASSUME EarlyCommands = FALSE, SessionsInv, SessionsInv', [Next]_vars
    PROVE  [Abstract!Next]_(Abstract!vars)
<1>1. MayCommand => AllBooted
  BY DEF MayCommand
<1>2. CASE BootShell
  BY <1>2, BootIsAStep DEF Abstract!Next
<1>3. CASE Execute
  <2>1. AllBooted
    BY <1>1, <1>3 DEF Execute
  <2> QED
    BY <1>3, <2>1, ExecuteIsAStep DEF Abstract!Next
<1>4. CASE HaltChild
  <2>1. AllBooted
    BY <1>1, <1>4 DEF HaltChild
  <2> QED
    BY <1>4, <2>1, HaltChildIsAStep DEF Abstract!Next
<1>5. CASE ExecuteFails \/ HaltBase
  <2>1. AllBooted
    BY <1>1, <1>5 DEF ExecuteFails, HaltBase
  <2> QED
    BY <1>5, <2>1, OtherStepsAreNone DEF Abstract!vars
<1>6. CASE OtherEntry \/ UNCHANGED vars
  <2>1. UNCHANGED <<pcb, curr_pids, current_terminal>>
    BY <1>6 DEF OtherEntry, vars
  <2>2. SessionsOfTerminals' = SessionsOfTerminals
    BY <2>1, StacksStay DEF SameParents
  <2> QED
    BY <2>1, <2>2 DEF Abstract!vars, Shown
<1>7. CASE SwitchTerminal
  <2>1. UNCHANGED <<pcb, curr_pids>> /\ current_terminal' \in 1 .. MaxTerminals
    BY <1>7 DEF SwitchTerminal
  <2>2. SessionsOfTerminals' = SessionsOfTerminals
    BY <2>1, StacksStay DEF SameParents
  <2>3. Shown' \in Terminals
    <3>1. PICK n \in 1 .. MaxTerminals : current_terminal' = n
      BY <2>1
    <3>2. Shown' = n - 1
      BY <3>1 DEF Shown
    <3>3. MaxTerminals \in Nat
      BY PidFacts
    <3>4. n - 1 \in Terminals
      BY <3>3 DEF Terminals
    <3> QED
      BY <3>2, <3>4
  <2> QED
    BY <2>2, <2>3 DEF Abstract!Next, Abstract!Show
<1> QED
  BY <1>2, <1>3, <1>4, <1>5, <1>6, <1>7 DEF Next

(* The handlers of execute, halt and the PIT tick implement the stacks of  *)
(* Sessions: every step pushes, pops or shows as Sessions allows, or       *)
(* leaves the stacks as they are.                                          *)
THEOREM SessionsAreImplemented ==
    EarlyCommands = FALSE =>
        (Spec => Abstract!Init /\ [][Abstract!Next]_(Abstract!vars))
<1> SUFFICES ASSUME EarlyCommands = FALSE
             PROVE  Spec => Abstract!Init /\ [][Abstract!Next]_(Abstract!vars)
  OBVIOUS
<1>1. Init => SessionsInv
  BY InitType, InitTree, InitRanked DEF SessionsInv, Inv
<1>2. Init => Abstract!Init
  <2> SUFFICES ASSUME Init PROVE Abstract!Init
    OBVIOUS
  <2>1. SessionsOfTerminals = [t \in Terminals |-> <<>>]
    BY DEF Init, SessionsOfTerminals, Booted
  <2>2. Shown \in Terminals
    BY PidFacts DEF Init, Shown, Terminals
  <2> QED
    BY <2>1, <2>2 DEF Abstract!Init
<1>3. SessionsInv /\ [Next]_vars => SessionsInv'
  BY SessionsInvSteps
<1>4. SessionsInv /\ SessionsInv' /\ [Next]_vars => [Abstract!Next]_(Abstract!vars)
  BY SessionsStep
<1> QED
  BY <1>1, <1>2, <1>3, <1>4, PTL DEF Spec

=============================================================================
