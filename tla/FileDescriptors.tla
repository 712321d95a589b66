-------------------------- MODULE FileDescriptors --------------------------
(***************************************************************************)
(* The file descriptors in the PCBs (syscall.c: open, close, read, write,  *)
(* set_active_flag and the loops of halt and execute that close them).     *)
(*                                                                         *)
(* Slots 0 and 1 always hold the tables of stdin and stdout and are left   *)
(* out; read and write also accept MaxOpenFiles itself, one past the last  *)
(* slot, where the PCB keeps the command's argument.  File positions and   *)
(* inodes are not kept: no call is refused or redirected for them.         *)
(***************************************************************************)
EXTENDS Integers

CONSTANTS
    FilePids,     \* the pids, each with its PCB
    MaxOpenFiles, \* filesys.h: MAX_OPEN_FILES
    Drivers       \* the tables open chooses from by the file's type

ASSUME FilesAssumption ==
    /\ MaxOpenFiles \in Nat
    /\ MaxOpenFiles > 2
    /\ {"bad", "null"} \cap Drivers = {}

VARIABLE fds   \* fds[p][i]: the table of slot i in the PCB of p, and its flag

Slots == 2 .. MaxOpenFiles - 1

(* Jump tables.  "null" is a slot nobody wrote to since the machine        *)
(* started, "bad" the table all of whose entries are std_bad_call.         *)
Tables == Drivers \cup {"bad", "null"}

FdsTypeOK == fds \in [FilePids -> [Slots -> [ops : Tables, active : BOOLEAN]]]

FdsInit == fds = [p \in FilePids |-> [i \in Slots |->
                                        [ops |-> "null", active |-> FALSE]]]

Active(p, i) == fds[p][i].active

-----------------------------------------------------------------------------
(* open: the first slot that is not active gets the driver of the file's   *)
(* type.  Without a free slot, or such a file, nothing changes.            *)
FirstSlot(p, i) == ~Active(p, i) /\ \A j \in Slots : j < i => Active(p, j)

OpenFile_NoTable(p) ==   \* mutant: only the flag is set
    \E i \in Slots :
        /\ FirstSlot(p, i)
        /\ fds' = [fds EXCEPT ![p][i].active = TRUE]

OpenFile(p) ==
    \E i \in Slots, type \in Drivers :
        /\ FirstSlot(p, i)
        /\ fds' = [fds EXCEPT ![p][i] = [ops |-> type, active |-> TRUE]]

(* close: only the flag goes; the table stays.                             *)
Deactivated(slot) == [slot EXCEPT !.active = FALSE]
Closed(slots) == [i \in Slots |-> Deactivated(slots[i])]

CloseFile(p) ==
    \E i \in Slots :
        /\ Active(p, i)
        /\ fds' = [fds EXCEPT ![p][i] = Deactivated(@)]

(* halt, and execute when it gives up, close every slot of the process     *)
(* that is the newest by then, and wipe those of the process that ends.    *)
Wiped == [i \in Slots |-> [ops |-> "bad", active |-> FALSE]]

CloseAll_NewestOnly(newest, ending) ==   \* mutant: nothing is wiped
    fds' = [fds EXCEPT ![newest] = Closed(@)]

CloseAll(newest, ending) ==
    fds' = [[fds EXCEPT ![newest] = Closed(@)] EXCEPT ![ending] = Wiped]

-----------------------------------------------------------------------------
(* What read and write do with descriptor i: "call" a driver or the        *)
(* terminal, "fail" with -1, or "jump" to where no code is.                *)
ReadOutcomes(p, i) ==
    IF i = 0 THEN {"call"}
    ELSE IF i = 1 THEN {"fail"}
    ELSE IF i = MaxOpenFiles THEN {"fail", "jump"}   \* as the argument's bytes are
    ELSE IF ~Active(p, i) THEN {"fail"}
    ELSE IF fds[p][i].ops = "null" THEN {"jump"}
    ELSE IF fds[p][i].ops = "bad" THEN {"fail"} ELSE {"call"}

(* write does not look at the flag.                                        *)
WriteOutcomes(p, i) ==
    IF i = 0 THEN {"fail"}
    ELSE IF i = 1 THEN {"call"}
    ELSE IF i = MaxOpenFiles THEN {"jump"}
    ELSE IF fds[p][i].ops = "null" THEN {"jump"}
    ELSE IF fds[p][i].ops = "bad" THEN {"fail"} ELSE {"call"}

=============================================================================
