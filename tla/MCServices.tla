----------------------------- MODULE MCServices -----------------------------
(***************************************************************************)
(* The parts of the system that share no state, for TLC: file system and   *)
(* command lines, screen, boot and interrupts, address space, programs     *)
(* that read files, printf.                                                *)
(*                                                                         *)
(* Bound: as they are independent, only behaviours in which one of them    *)
(* moves are explored, the others being in one chosen initial state.       *)
(***************************************************************************)
EXTENDS FileSystem, Screen, Machine, Paging, Programs, Printf

FsIdle == FsInit /\ \A i \in FileSlots : fd_items[i].file_position = 0
MachineIdle == PowerOn({}, FALSE, [good |-> TRUE, module |-> TRUE])
ProgramsIdle == ProgramsInit /\ junk = "NL"

(* All parts but file system, machine and programs have one initial state. *)
SvInit ==
    /\ FsInit /\ ScreenInit /\ MachineInit /\ PagingStart /\ ProgramsInit /\ PrintfInit
    /\ \/ FsIdle /\ MachineIdle
       \/ FsIdle /\ ProgramsIdle
       \/ MachineIdle /\ ProgramsIdle

FsRests == FsIdle /\ UNCHANGED fsvars
ScreenRests == ScreenInit /\ UNCHANGED scvars
MachineRests == MachineIdle /\ UNCHANGED mvars
PagingRests == PagingStart /\ UNCHANGED pgvars
ProgramsRests == ProgramsIdle /\ UNCHANGED pvars
PrintfRests == PrintfInit /\ UNCHANGED prvars

SvNext ==
    \/ ScreenRests /\ MachineRests /\ PagingRests /\ ProgramsRests /\ PrintfRests
       /\ FsNext
    \/ FsRests /\ MachineRests /\ PagingRests /\ ProgramsRests /\ PrintfRests
       /\ ScreenNext
    \/ FsRests /\ ScreenRests /\ PagingRests /\ ProgramsRests /\ PrintfRests
       /\ MachineNext
    \/ FsRests /\ ScreenRests /\ MachineRests /\ ProgramsRests /\ PrintfRests
       /\ PagingNext
    \/ FsRests /\ ScreenRests /\ MachineRests /\ PagingRests /\ PrintfRests
       /\ ProgramsNext
    \/ FsRests /\ ScreenRests /\ MachineRests /\ PagingRests /\ ProgramsRests
       /\ PrintfNext

(* Fairness is that of the machine alone: every property of the others is  *)
(* one of safety.                                                          *)
SvSpec ==
    /\ SvInit
    /\ [][SvNext]_<<fsvars, scvars, mvars, pgvars, pvars, prvars>>
    /\ MachineFairness

(* The types of all parts: what is counted, stored and pointed to stays in *)
(* its bounds, the cursor and the file slots among it.                     *)
SvTypeOK == FsTypeOK /\ ScreenTypeOK /\ MachineTypeOK /\ PagingTypeOK

(* The image: a directory, the clock, a text and a program whose name      *)
(* begins with the name of the text.  Blocks of two bytes; the text is     *)
(* three bytes long, the program two, which is a full block.               *)
MCDentries == <<
    [fname |-> <<".">>, type |-> "dir", inode |-> 0],
    [fname |-> <<"rtc">>, type |-> "rtc", inode |-> 0],
    [fname |-> <<"x">>, type |-> "file", inode |-> 1],
    [fname |-> <<"x", "x">>, type |-> "file", inode |-> 2]>>

MCInodes == [f \in 0 .. 2 |->
    CASE f = 0 -> [len |-> 0, dblocks |-> [b \in 0 .. 2 |-> 0]]
      [] f = 1 -> [len |-> 3, dblocks |-> [b \in 0 .. 2 |-> <<2, 1, 0>>[b + 1]]]
      [] f = 2 -> [len |-> 2, dblocks |-> [b \in 0 .. 2 |-> <<3, 0, 0>>[b + 1]]]]

MCBiosMasks == SUBSET {0, 1, 8, 14}
MCSearch == <<"a", "b">>
MCMemory == [address \in {12} |-> <<104, 105>>]

=============================================================================
