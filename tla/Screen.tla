------------------------------- MODULE Screen -------------------------------
(***************************************************************************)
(* The text screen and the copies of it that hidden terminals have: what   *)
(* terminal_write, the echo of keys, Ctrl+L, Alt+Fn and the boot ticks do  *)
(* to them through lib.c.                                                  *)
(*                                                                         *)
(* The attribute bytes never change and the hardware cursor follows        *)
(* screen_x and screen_y.  The copies lie behind the screen, one behind    *)
(* the other: they do not overlap.                                         *)
(***************************************************************************)
EXTENDS Display

CONSTANTS
    Terminals,   \* the values of current_terminal
    FirstShown,  \* the one on display when the kernel starts
    Chars,       \* the characters printed
    MaxText      \* bound: the length of what one call prints

ASSUME ScreenAssumption ==
    /\ FirstShown \in Terminals
    /\ Chars \cap {"SP", "NL", "?"} = {}
    /\ MaxText \in Nat

VARIABLES
    current_terminal,
    screen,   \* what is displayed
    saved     \* terminal -> its copy, with cursor_x_pos and cursor_y_pos

scvars == <<current_terminal, screen, saved>>

Bytes == Chars \cup {"SP", "?"}    \* "?": what was in memory before

ScreenTypeOK ==
    /\ current_terminal \in Terminals
    /\ screen \in Displayed(Bytes)
    /\ saved \in [Terminals -> Displayed(Bytes)]

-----------------------------------------------------------------------------

(* entry() clears the screen; nobody clears the memory of the copies.      *)
ScreenInit ==
    /\ current_terminal = FirstShown
    /\ screen = Clear
    /\ saved = [t \in Terminals |-> [mem |-> [i \in Cells |-> "?"], x |-> 0, y |-> 0]]

Outputs == UNION {[1 .. n -> Chars \cup {"NL"}] : n \in 0 .. MaxText}

(* A program or the kernel prints, or a key is echoed: on the terminal     *)
(* that is on display, whosever the output is.                             *)
Output ==
    /\ \E text \in Outputs : screen' = Printed(screen, text)
    /\ UNCHANGED <<current_terminal, saved>>

(* Backspace, if the line has a character.                                 *)
Delete ==
    /\ screen' = Deleted(screen)
    /\ UNCHANGED <<current_terminal, saved>>

(* Ctrl+L clears the screen and prints the line buffer.                    *)
Redraw ==
    /\ \E line \in Outputs : screen' = Printed(Clear, line)
    /\ UNCHANGED <<current_terminal, saved>>

(* switch_screen: the screen goes to the copy of the old terminal, then    *)
(* the copy of the new one to the screen.                                  *)
Kept_Cursor(old) == [saved[old] EXCEPT !.mem = screen.mem]   \* mutant: cursor not kept

Kept(old) == screen

DisplaySwitch ==
    /\ current_terminal' \in Terminals \ {current_terminal}
    /\ saved' = [saved EXCEPT ![current_terminal] = Kept(current_terminal)]
    /\ screen' = saved[current_terminal']

ScreenNext == Output \/ Delete \/ Redraw \/ DisplaySwitch
ScreenSpec == ScreenInit /\ [][ScreenNext]_scvars

-----------------------------------------------------------------------------
(* Properties.                                                             *)

Picture(t) == IF t = current_terminal THEN screen ELSE saved[t]

(* Text and cursor of a terminal change only by output while it is on      *)
(* display: switching away and back restores it, whatever the others       *)
(* printed meanwhile.                                                      *)
PicturesKept ==
    [][\A t \in Terminals :
        t # current_terminal \/ t # current_terminal' => Picture(t)' = Picture(t)]_scvars

(* From the cursor on nothing is displayed, after wrapping, scrolling,     *)
(* erasing across rows and switching alike; so output never mixes with     *)
(* earlier output.  (On a terminal that was never cleared there may be     *)
(* what was in memory before.)                                             *)
BlankFromCursor ==
    \A t \in Terminals, i \in Cells :
        LET d == Picture(t) IN
        i >= d.y * NumCols + d.x => d.mem[i] \in {"SP", "?"}

=============================================================================
