------------------------------- MODULE Lines -------------------------------
(***************************************************************************)
(* What the keyboard promises to terminal_read, free of arrays and cursor: *)
(* each buffer holds an unfinished line; a key adds to the end of the line *)
(* of the bound buffer while there is room, backspace takes from the end,  *)
(* Enter hands the whole line over and starts an empty one.  A read waits  *)
(* for the next line; a line handed over earlier is forgotten, and so is   *)
(* the one before when a second Enter comes first.                         *)
(***************************************************************************)
EXTENDS Naturals, Sequences

CONSTANTS Buffers, Chars, MaxLine
VARIABLES
    lines,  \* the unfinished line of each buffer
    bound,  \* the buffer keys go to
    ready   \* the line handed over, in a set of its own; {} if there is none

vars == <<lines, bound, ready>>

Init ==
    /\ lines = [b \in Buffers |-> <<>>]
    /\ bound \in Buffers
    /\ ready = {}

Add ==
    /\ Len(lines[bound]) < MaxLine
    /\ \E c \in Chars : lines' = [lines EXCEPT ![bound] = Append(@, c)]
    /\ UNCHANGED <<bound, ready>>

Erase ==
    /\ lines[bound] # <<>>
    /\ lines' = [lines EXCEPT ![bound] = SubSeq(@, 1, Len(@) - 1)]
    /\ UNCHANGED <<bound, ready>>

Finish ==
    /\ ready' = {lines[bound]}
    /\ lines' = [lines EXCEPT ![bound] = <<>>]
    /\ UNCHANGED bound

Rebind ==
    /\ bound' \in Buffers
    /\ UNCHANGED <<lines, ready>>

Await ==
    /\ ready' = {}
    /\ UNCHANGED <<lines, bound>>

Next == Add \/ Erase \/ Finish \/ Rebind \/ Await

Spec == Init /\ [][Next]_vars

=============================================================================
