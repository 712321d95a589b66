------------------------------ MODULE Sessions ------------------------------
(***************************************************************************)
(* What the process calls promise, free of pids tables, PCBs and stacks:   *)
(* every terminal holds a stack of processes with its base shell at the    *)
(* bottom.  A command pushes a process on the stack of the terminal on     *)
(* display, an exit pops it, and a base shell is never popped: when it     *)
(* exits, the terminal has a base shell again in the same step.            *)
(***************************************************************************)
EXTENDS Naturals, Sequences

CONSTANTS Terminals, Pids
VARIABLES
    sessions,  \* the stack of processes of each terminal
    shown      \* the terminal on display

vars == <<sessions, shown>>

Used == UNION {{sessions[t][i] : i \in 1 .. Len(sessions[t])} : t \in Terminals}

Init ==
    /\ sessions = [t \in Terminals |-> <<>>]
    /\ shown \in Terminals

Push(t) == \E p \in Pids \ Used :
    sessions' = [sessions EXCEPT ![t] = Append(@, p)]

(* A terminal gets its base shell and is put on display.                   *)
BootShell == \E t \in Terminals :
    /\ sessions[t] = <<>>
    /\ Push(t)
    /\ shown' = t

Launch ==
    /\ sessions[shown] # <<>>
    /\ Push(shown)
    /\ UNCHANGED shown

Exit ==
    /\ Len(sessions[shown]) > 1
    /\ sessions' = [sessions EXCEPT ![shown] = SubSeq(@, 1, Len(@) - 1)]
    /\ UNCHANGED shown

Show ==
    /\ shown' \in Terminals
    /\ UNCHANGED sessions

Next == BootShell \/ Launch \/ Exit \/ Show

Spec == Init /\ [][Next]_vars /\ WF_vars(BootShell)

=============================================================================
