----------------------------- MODULE MCConsole -----------------------------
(***************************************************************************)
(* Console and Echo for TLC, and the refinement of Lines by Console.       *)
(*                                                                         *)
(* Bound: from the start to the end either lines are typed and read, or    *)
(* the clock is programmed, or the display moves.  While lines are read,   *)
(* the characters typed are all the same; while the clock is programmed,   *)
(* none is typed; while the display moves, no key is pressed before the    *)
(* last tick is due.                                                       *)
(***************************************************************************)
EXTENDS Echo

CONSTANT CallChars   \* bound: what is typed while lines are read

ASSUME MCConsoleAssumption == CallChars \subseteq Chars

VARIABLE part   \* "calls", "clock" or "echo", for good

mcvars == <<evars, part>>

MCInit == ConsoleInit /\ EchoStarts /\ part \in {"calls", "clock", "echo"}

MCNext ==
    \/ /\ part = "calls" /\ ConsoleNext /\ UNCHANGED <<rate, echovars, part>>
       /\ \A i \in Index : kb_buf'[true_buffer][i] \in CallChars \cup {"NUL", "NL"}
    \/ /\ part = "clock" /\ ConsoleNext
       /\ UNCHANGED <<kb_buf, terminal_buf, echovars, part>>
    \/ /\ part = "echo" /\ UNCHANGED part
       /\ IF unbooted > 1 THEN SwitchTick ELSE EchoNext

(* The fairness of ConsoleSpec, where calls are made.                      *)
MCSpec ==
    /\ MCInit
    /\ [][MCNext]_mcvars
    /\ WF_cvars(part # "echo" /\ TerminalReadReturns)
    /\ WF_cvars(part # "echo" /\ RtcReadReturns)
    /\ WF_cvars(part # "echo" /\ RtcTick)

(* LineOnDisplay, where the display moves: what the user sees of a line is  *)
(* what a read will return.                                                *)
LineShown == part = "echo" => LineOnDisplay /\ EchoTypeOK

(* The bytes of text before index n.                                       *)
Before(text, n) == [i \in 1 .. n |-> text[i - 1]]

UnfinishedLines == [b \in Buffers |-> Before(kb_buf[b], buf_location[b])]

(* What a read of any size can return: terminal_buf up to its newline.     *)
ReadyLine ==
    IF term_read_flag
    THEN {Before(terminal_buf, r - 1) : r \in ReadResults(TermBufSize)} ELSE {}

Abstract == INSTANCE Lines
    WITH lines <- UnfinishedLines, bound <- true_buffer, ready <- ReadyLine,
         MaxLine <- TermBufSize - 1

(* The array code implements the line editor: what a read returns is the   *)
(* line as the user left it, whatever was typed and erased before and      *)
(* whatever bytes of earlier lines are still in the buffer.                *)
RefinesLines == Abstract!Spec

=============================================================================
