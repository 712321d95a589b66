---------------------------- MODULE KernelProofs ----------------------------
(***************************************************************************)
(* The descriptors under all system calls, for any number of terminals,    *)
(* pids, slots and drivers.                                                *)
(***************************************************************************)
EXTENDS Kernel, ProcessProofs

(* Pid 0 is that of the first shell, and open uses its PCB when the        *)
(* terminal on display has no process.                                     *)
FirstShellLives == running \in Pids => Live(0)

-----------------------------------------------------------------------------
(* Kernel adds descriptors to Process and restricts it: every step of it   *)
(* is one of Process, or leaves all processes alone.                       *)

LEMMA FileCallStep == FileCall => OtherEntry
BY PidFacts DEF FileCall, OtherEntry

LEMMA KernelSteps == [KNext]_kvars => [Next]_vars
BY FileCallStep
DEF KNext, KBootShell, KOtherEntry, KSwitchTerminal, KExecute, KExecuteFails,
    KHaltBase, KHaltChild, Open, Close, Read, Write, UserException, Next,
    kvars, vars

(* The kernel with descriptors implements the one without: file calls are  *)
(* entries that leave processes alone, and no file is in the way of        *)
(* execute and halt but as a reason to stop.                               *)
THEOREM KernelImplementsProcess == KSpec => Init /\ [][Next]_vars
<1>1. KInit => Init
  BY DEF KInit
<1> QED
  BY <1>1, KernelSteps, PTL DEF KSpec

-----------------------------------------------------------------------------
(* Descriptors, whatever the user does.                                    *)

LEMMA NewestTypes ==
    ASSUME TypeOK, TypeOK'
    PROVE  Newest \in Pids /\ NewestAfter \in Pids
<1>1. Shown \in Terminals
  BY PidFacts DEF TypeOK, Shown, Terminals
<1>2. Newest \in Pids
  BY <1>1, PidFacts DEF Newest, Halting, Latest, TypeOK
<1>3. curr_pids' \in [Terminals -> Pids \cup {NoPid}]
  BY DEF TypeOK
<1>4. NewestAfter \in Pids
  BY <1>1, <1>3, PidFacts DEF NewestAfter
<1> QED
  BY <1>2, <1>4

(* What a step of the kernel does to the slots: nothing; one slot opens    *)
(* with a driver, in the PCB of the newest process; one closes; or all of  *)
(* two PCBs do.                                                            *)
OneOpens ==
    \E i \in Slots, type \in Drivers :
        /\ running \in Pids
        /\ fds' = [fds EXCEPT ![Newest][i] = [ops |-> type, active |-> TRUE]]

OneCloses ==
    \E i \in Slots : fds' = [fds EXCEPT ![Newest][i] = Deactivated(@)]

(* Steps after which no pid is free that was not.                          *)
NobodyHalts ==
    \/ BootShell \/ SwitchTerminal \/ Execute \/ ExecuteFails
    \/ UNCHANGED pid_arr

LEMMA SlotSteps ==
    ASSUME TypeOK, TypeOK', [KNext]_kvars
    PROVE  \/ UNCHANGED fds /\ NobodyHalts
           \/ OneOpens /\ pid_arr' = pid_arr
           \/ OneCloses /\ pid_arr' = pid_arr
           \/ \E p, q \in Pids : CloseAll(p, q) /\ (NobodyHalts \/ q = Newest)
<1>1. Newest \in Pids /\ NewestAfter \in Pids
  BY NewestTypes
<1>2. CASE UNCHANGED fds /\ NobodyHalts
  BY <1>2
<1>3. CASE Open
  BY <1>3 DEF Open, OpenFile, OneOpens, FileCall
<1>4. CASE Close
  BY <1>4 DEF Close, CloseFile, OneCloses, FileCall
<1>5. CASE KHaltBase \/ KHaltChild
  BY <1>1, <1>5 DEF KHaltBase, KHaltChild
<1>6. CASE KExecuteFails
  BY <1>1, <1>6 DEF KExecuteFails, NobodyHalts
<1>7. CASE KBootShell \/ KSwitchTerminal \/ KExecute
  BY <1>2, <1>7 DEF KBootShell, KSwitchTerminal, KExecute, NobodyHalts
<1>8. CASE KOtherEntry
  BY <1>2, <1>8 DEF KOtherEntry, OtherEntry, NobodyHalts
<1>9. CASE Read \/ Write \/ UserException \/ UNCHANGED kvars
  BY <1>2, <1>9
  DEF Read, Write, UserException, FileCall, NobodyHalts, kvars, vars
<1> QED
  BY <1>3, <1>4, <1>5, <1>6, <1>7, <1>8, <1>9 DEF KNext

LEMMA DeactivatedFacts ==
    ASSUME NEW slot \in [ops : Tables, active : BOOLEAN]
    PROVE  /\ Deactivated(slot) \in [ops : Tables, active : BOOLEAN]
           /\ ~Deactivated(slot).active
BY DEF Deactivated

LEMMA ClosingFacts ==
    ASSUME FdsTypeOK, NEW p \in Pids, NEW q \in Pids, CloseAll(p, q)
    PROVE  /\ FdsTypeOK'
           /\ \A r \in Pids, i \in Slots :
                Active(r, i)' => Active(r, i) /\ r # q /\ fds'[r][i] = fds[r][i]
<1>1. p \in FilePids /\ q \in FilePids
  BY KernelAssumption DEF KernelAssumption
<1>2. Wiped \in [Slots -> [ops : Tables, active : BOOLEAN]]
  BY DEF Wiped, Tables
<1>3. Closed(fds[p]) \in [Slots -> [ops : Tables, active : BOOLEAN]]
  BY <1>1, DeactivatedFacts DEF Closed, FdsTypeOK
<1>4. fds' = [r \in FilePids |-> IF r = q THEN Wiped
                                 ELSE IF r = p THEN Closed(fds[p]) ELSE fds[r]]
  BY <1>1 DEF CloseAll, FdsTypeOK
<1>5. FdsTypeOK'
  BY <1>1, <1>2, <1>3, <1>4 DEF FdsTypeOK
<1>6. \A i \in Slots : ~Wiped[i].active /\ ~Closed(fds[p])[i].active
  BY <1>1, DeactivatedFacts DEF Wiped, Closed, FdsTypeOK
<1>7. ASSUME NEW r \in Pids, NEW i \in Slots, Active(r, i)'
      PROVE  Active(r, i) /\ r # q /\ fds'[r][i] = fds[r][i]
  <2>1. r \in FilePids
    BY KernelAssumption DEF KernelAssumption
  <2>2. r # q /\ r # p
    BY <1>4, <1>6, <1>7, <2>1 DEF Active
  <2> QED
    BY <1>4, <1>7, <2>1, <2>2 DEF Active
<1> QED
  BY <1>5, <1>7

LEMMA OpeningFacts ==
    ASSUME FdsTypeOK, Newest \in Pids, OneOpens
    PROVE  /\ FdsTypeOK'
           /\ \A r \in Pids, i \in Slots :
                \/ fds'[r][i] = fds[r][i]
                \/ r = Newest /\ fds'[r][i].ops \in Drivers
<1>1. PICK i \in Slots, type \in Drivers :
        fds' = [fds EXCEPT ![Newest][i] = [ops |-> type, active |-> TRUE]]
  BY DEF OneOpens
<1>2. Newest \in FilePids
  BY KernelAssumption DEF KernelAssumption
<1>3. fds[Newest] \in [Slots -> [ops : Tables, active : BOOLEAN]]
  BY <1>2 DEF FdsTypeOK
<1>4. [ops |-> type, active |-> TRUE] \in [ops : Tables, active : BOOLEAN]
  BY DEF Tables
<1>5. FdsTypeOK'
  BY <1>1, <1>2, <1>3, <1>4 DEF FdsTypeOK
<1>6. ASSUME NEW r \in Pids, NEW j \in Slots
      PROVE  \/ fds'[r][j] = fds[r][j]
             \/ r = Newest /\ fds'[r][j].ops \in Drivers
  BY <1>1, <1>2, <1>3, KernelAssumption DEF FdsTypeOK, KernelAssumption
<1> QED
  BY <1>5, <1>6

LEMMA ClosingOneFacts ==
    ASSUME FdsTypeOK, Newest \in Pids, OneCloses
    PROVE  /\ FdsTypeOK'
           /\ \A r \in Pids, i \in Slots :
                Active(r, i)' => fds'[r][i] = fds[r][i]
<1>1. PICK i \in Slots : fds' = [fds EXCEPT ![Newest][i] = Deactivated(@)]
  BY DEF OneCloses
<1>2. Newest \in FilePids
  BY KernelAssumption DEF KernelAssumption
<1>3. fds[Newest] \in [Slots -> [ops : Tables, active : BOOLEAN]]
  BY <1>2 DEF FdsTypeOK
<1>4. /\ Deactivated(fds[Newest][i]) \in [ops : Tables, active : BOOLEAN]
      /\ ~Deactivated(fds[Newest][i]).active
  BY <1>3, DeactivatedFacts
<1>5. FdsTypeOK'
  BY <1>1, <1>2, <1>3, <1>4 DEF FdsTypeOK
<1>6. ASSUME NEW r \in Pids, NEW j \in Slots, Active(r, j)'
      PROVE  fds'[r][j] = fds[r][j]
  BY <1>1, <1>2, <1>3, <1>4, <1>6, KernelAssumption
  DEF FdsTypeOK, KernelAssumption, Active
<1> QED
  BY <1>5, <1>6

LEMMA KernelTypes == KTypeOK /\ [KNext]_kvars => KTypeOK'
<1> SUFFICES ASSUME KTypeOK, [KNext]_kvars PROVE KTypeOK'
  OBVIOUS
<1>1. TypeOK /\ TypeOK'
  BY KernelSteps, StepType DEF KTypeOK
<1>2. FdsTypeOK'
  <2>1. Newest \in Pids /\ FdsTypeOK
    BY <1>1, NewestTypes DEF KTypeOK
  <2>2. CASE UNCHANGED fds
    BY <2>1, <2>2 DEF FdsTypeOK
  <2>3. CASE OneOpens
    BY <2>1, <2>3, OpeningFacts
  <2>4. CASE OneCloses
    BY <2>1, <2>4, ClosingOneFacts
  <2>5. CASE \E p, q \in Pids : CloseAll(p, q)
    BY <2>1, <2>5, ClosingFacts
  <2>6. \/ UNCHANGED fds
        \/ OneOpens
        \/ OneCloses
        \/ \E p, q \in Pids : CloseAll(p, q)
    BY <1>1, SlotSteps
  <2> QED
    BY <2>2, <2>3, <2>4, <2>5, <2>6
<1>3. stuck' \in {"no", "jump", "exception"}
  BY DEF KTypeOK, KNext, KBootShell, KOtherEntry, KSwitchTerminal, KExecute,
         KExecuteFails, KHaltBase, KHaltChild, Open, Close, Read, Write,
         UserException, kvars
<1> QED
  BY <1>1, <1>2, <1>3 DEF KTypeOK

LEMMA KernelStarts == KInit => KTypeOK
<1>1. FdsInit => FdsTypeOK
  <2>1. [ops |-> "null", active |-> FALSE] \in [ops : Tables, active : BOOLEAN]
    BY DEF Tables
  <2> QED
    BY <2>1 DEF FdsInit, FdsTypeOK
<1>2. KInit => KTypeOK
  BY <1>1, InitType DEF KInit, KTypeOK
<1> QED
  BY <1>2

(* The kernel's tables and slots stay well formed.                         *)
THEOREM KernelTyping == KSpec => []KTypeOK
BY KernelStarts, KernelTypes, PTL DEF KSpec

LEMMA DriverSteps ==
    ASSUME KTypeOK, ActiveHasDriver, [KNext]_kvars
    PROVE  ActiveHasDriver'
<1>1. TypeOK /\ TypeOK' /\ FdsTypeOK
  BY KernelSteps, StepType DEF KTypeOK
<1> SUFFICES ASSUME NEW p \in Pids, NEW i \in Slots, Active(p, i)'
             PROVE  fds'[p][i].ops \in Drivers
  BY DEF ActiveHasDriver
<1>2. \/ fds'[p][i] = fds[p][i]
      \/ fds'[p][i].ops \in Drivers
  BY <1>1, NewestTypes, SlotSteps, ClosingFacts, OpeningFacts, ClosingOneFacts
<1> QED
  BY <1>2 DEF ActiveHasDriver, Active

(* A descriptor that counts as open leads to a driver, in every PCB, also  *)
(* when halt and execute close the wrong process's files: read never jumps *)
(* through a table nobody set.                                             *)
THEOREM OpenSlotsHaveDrivers == KSpec => []ActiveHasDriver
<1>1. KInit => ActiveHasDriver
  BY KernelAssumption
  DEF KInit, FdsInit, ActiveHasDriver, Active, KernelAssumption
<1>2. KTypeOK /\ ActiveHasDriver /\ [KNext]_kvars => ActiveHasDriver'
  BY DriverSteps
<1> QED
  BY <1>1, <1>2, KernelTyping, PTL DEF KSpec

-----------------------------------------------------------------------------
(* Who has open descriptors, when no command comes before every shell is   *)
(* up.                                                                     *)

LEMMA FirstShellSteps ==
    ASSUME EarlyCommands = FALSE, Inv, FirstShellLives, [Next]_vars
    PROVE  FirstShellLives'
<1> USE PidFacts
<1>1. 0 \in Pids /\ 0 < MaxTerminals
  OBVIOUS
<1>2. Inv'
  BY StepTree
<1>3. CASE BootShell
  <2>1. PICK t \in Terminals :
          /\ ~Booted(t) /\ BasePid(t) \in Pids
          /\ pid_arr' = [pid_arr EXCEPT ![BasePid(t)] = 1]
          /\ \A u \in Terminals : u > t => Booted(u)
    <3>1. PICK t \in Terminals, pid \in Pids :
            /\ ~Booted(t) /\ pid = BasePid(t)
            /\ current_terminal' = t + 1
            /\ pid_arr' = [pid_arr EXCEPT ![pid] = 1]
      BY <1>3, BootShellFacts
    <3>2. PICK v \in Terminals : NextToBoot(v) /\ current_terminal' = v + 1
      BY <1>3 DEF BootShell
    <3>3. v = t
      BY <3>1, <3>2 DEF Terminals
    <3> QED
      BY <3>1, <3>2, <3>3 DEF NextToBoot, Booted
  <2> DEFINE last == MaxTerminals - 1
  <2>2. last \in Terminals /\ BasePid(last) = 0
    BY DEF Terminals, BasePid
  <2>3. CASE t = last
    BY <1>1, <2>1, <2>2, <2>3 DEF FirstShellLives, Live, Inv, TypeOK
  <2>4. CASE t # last
    <3>1. Live(0)
      BY <2>1, <2>2, <2>4 DEF Terminals, Inv, TreeInv, BasesBooted
    <3> QED
      BY <1>1, <2>1, <3>1 DEF FirstShellLives, Live, Inv, TypeOK
  <2> QED
    BY <2>3, <2>4
<1>4. CASE OtherEntry \/ SwitchTerminal \/ UNCHANGED vars
  BY <1>4 DEF OtherEntry, SwitchTerminal, vars, FirstShellLives, Live
<1>5. CASE Execute
  BY <1>1, <1>5, AtCommand
  DEF Execute, MayCommand, Spawn, FirstShellLives, Live, Inv, TypeOK
<1>6. CASE ExecuteFails
  BY <1>1, <1>6, AtCommand DEF ExecuteFails, MayCommand, FirstShellLives, Live
<1>7. CASE HaltBase
  <2>1. AllBooted
    BY <1>7 DEF HaltBase, MayCommand
  <2> QED
    BY <1>1, <1>7, <2>1, AtCommand, HaltBaseFacts DEF FirstShellLives, Live
<1>8. CASE HaltChild
  <2>1. AllBooted
    BY <1>8 DEF HaltChild, MayCommand
  <2>2. /\ Halting \in Pids /\ Live(Halting) /\ pcb[Halting].pid = Halting
        /\ Live(0)
    BY <1>1, <2>1, AtCommand
  <2>3. Halting # 0
    BY <1>1, <1>8, <2>2 DEF HaltChild, IsBase, Inv, TreeInv, BasesBooted
  <2>4. pid_arr' = [pid_arr EXCEPT ![Halting] = 0]
    BY <1>8, <2>2 DEF HaltChild, Freed
  <2> QED
    BY <1>1, <2>2, <2>3, <2>4 DEF FirstShellLives, Live, Inv, TypeOK
<1> QED
  BY <1>3, <1>4, <1>5, <1>6, <1>7, <1>8 DEF Next

LEMMA LivesOn ==
    ASSUME EarlyCommands = FALSE, Inv, [Next]_vars, NEW p \in Pids, Live(p),
           NobodyHalts \/ p # Newest
    PROVE  Live(p)'
<1>1. CASE BootShell
  BY <1>1, BootShellFacts DEF Live, Inv, TypeOK
<1>2. CASE Execute
  BY <1>2 DEF Execute, Spawn, Live, Inv, TypeOK
<1>3. CASE HaltBase
  <2>1. AllBooted
    BY <1>3 DEF HaltBase, MayCommand
  <2> QED
    BY <1>3, <2>1, HaltBaseFacts DEF Live
<1>4. CASE HaltChild /\ p # Newest
  <2>1. AllBooted
    BY <1>4 DEF HaltChild, MayCommand
  <2>2. Halting \in Pids /\ pcb[Halting].pid = Halting
    BY <2>1, AtCommand
  <2>3. pid_arr' = [pid_arr EXCEPT ![Halting] = 0]
    BY <1>4, <2>2 DEF HaltChild, Freed
  <2> QED
    BY <1>4, <2>2, <2>3 DEF Live, Newest, Inv, TypeOK
<1>5. CASE UNCHANGED pid_arr
  BY <1>5 DEF Live
<1>6. OtherEntry \/ SwitchTerminal \/ ExecuteFails \/ UNCHANGED vars
        => UNCHANGED pid_arr
  BY DEF OtherEntry, SwitchTerminal, ExecuteFails, vars
<1> QED
  BY <1>1, <1>2, <1>3, <1>4, <1>5, <1>6 DEF Next, NobodyHalts

(* A slot opens in the PCB of a live process only, and the pid a process   *)
(* gives back is the one whose slots halt wipes.                           *)
LEMMA FreePidSteps ==
    ASSUME EarlyCommands = FALSE, KTypeOK, Inv, FirstShellLives,
           FreePidsHoldNoFiles, [KNext]_kvars
    PROVE  FreePidsHoldNoFiles'
<1>1. /\ [Next]_vars /\ TypeOK /\ TypeOK' /\ FdsTypeOK
      /\ Newest \in Pids
  BY KernelSteps, StepType, NewestTypes DEF KTypeOK
<1> SUFFICES ASSUME NEW p \in Pids, NEW i \in Slots, Active(p, i)'
             PROVE  Live(p)'
  BY DEF FreePidsHoldNoFiles
<1>2. Active(p, i) => Live(p)
  BY DEF FreePidsHoldNoFiles
<1>3. CASE OneOpens /\ pid_arr' = pid_arr
  <2>1. \/ fds'[p][i] = fds[p][i]
        \/ p = Newest
    BY <1>1, <1>3, OpeningFacts
  <2>2. Live(Newest)
    <3>1. Live(0)
      BY <1>3 DEF OneOpens, FirstShellLives
    <3>2. Shown \in Terminals
      BY <1>1, PidFacts DEF TypeOK, Shown, Terminals
    <3>3. Booted(Shown) => Live(curr_pids[Shown])
      BY <3>2 DEF Inv, TreeInv, PidsAccountedFor, NewestAreLive
    <3> QED
      BY <3>1, <3>3 DEF Newest, Halting, Latest, Booted
  <2> QED
    BY <1>2, <1>3, <2>1, <2>2 DEF Active, Live
<1>4. CASE OneCloses /\ pid_arr' = pid_arr
  BY <1>1, <1>2, <1>4, ClosingOneFacts DEF Active, Live
<1>5. ASSUME NEW q \in Pids, NEW r \in Pids, CloseAll(q, r),
             NobodyHalts \/ r = Newest
      PROVE  Live(p)'
  <2>1. Active(p, i) /\ p # r
    BY <1>1, <1>5, ClosingFacts
  <2>2. Live(p) /\ (NobodyHalts \/ p # Newest)
    BY <1>2, <1>5, <2>1
  <2> QED
    BY <1>1, <2>2, LivesOn
<1>6. CASE UNCHANGED fds /\ NobodyHalts
  <2>1. Live(p)
    BY <1>2, <1>6 DEF Active
  <2> QED
    BY <1>1, <1>6, <2>1, LivesOn
<1> QED
  BY <1>1, <1>3, <1>4, <1>5, <1>6, SlotSteps

(* No program starts with a descriptor it did not open: whichever process  *)
(* halt takes for the current one, the PCB of a pid that can be given out  *)
(* has none that is open, though allocate_pcb initialises only stdin and   *)
(* stdout.  (With commands during the boot a refused command can leave a   *)
(* terminal with a free pid, whose PCB open then uses.)                    *)
THEOREM NobodyInheritsFiles == EarlyCommands = FALSE => (KSpec => []FreePidsHoldNoFiles)
<1> SUFFICES ASSUME EarlyCommands = FALSE PROVE KSpec => []FreePidsHoldNoFiles
  OBVIOUS
<1>1. KInit => /\ KTypeOK /\ Inv /\ FirstShellLives /\ FreePidsHoldNoFiles
  <2> SUFFICES ASSUME KInit PROVE KTypeOK /\ Inv /\ FirstShellLives /\ FreePidsHoldNoFiles
    OBVIOUS
  <2>1. KTypeOK
    BY KernelStarts
  <2>2. Inv
    BY InitType, InitTree DEF KInit, Inv
  <2>3. FirstShellLives
    BY PidFacts DEF KInit, Init, FirstShellLives
  <2>4. FreePidsHoldNoFiles
    BY KernelAssumption
    DEF KInit, FdsInit, FreePidsHoldNoFiles, Active, KernelAssumption
  <2> QED
    BY <2>1, <2>2, <2>3, <2>4
<1>2. KTypeOK /\ Inv /\ FirstShellLives /\ FreePidsHoldNoFiles /\ [KNext]_kvars
        => (KTypeOK /\ Inv /\ FirstShellLives /\ FreePidsHoldNoFiles)'
  BY KernelTypes, KernelSteps, StepTree, FirstShellSteps, FreePidSteps
<1> QED
  BY <1>1, <1>2, PTL DEF KSpec

=============================================================================
