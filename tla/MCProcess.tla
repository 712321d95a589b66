----------------------------- MODULE MCProcess -----------------------------
(***************************************************************************)
(* Process for TLC, and its refinement of Sessions.                        *)
(***************************************************************************)
EXTENDS Process, Sequences

(* The stack of a terminal: its newest pid, below it that pid's parent,    *)
(* down to the base shell, which is its own parent.                        *)
Ancestry[p \in Pids] ==
    IF pcb[p].parent = p THEN <<p>> ELSE Append(Ancestry[pcb[p].parent], p)

SessionsOfTerminals ==
    [t \in Terminals |-> IF Booted(t) THEN Ancestry[curr_pids[t]] ELSE <<>>]

Abstract == INSTANCE Sessions
    WITH sessions <- SessionsOfTerminals, shown <- Shown

(* Every handler of the process code is one step of Sessions or none: a    *)
(* command only ever pushes on, and an exit only ever pops, the stack of   *)
(* the terminal on display, a base shell that exits is back in the same    *)
(* step, and each terminal ends up with a shell.                           *)
RefinesSessions == Abstract!Spec

=============================================================================
