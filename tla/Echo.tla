-------------------------------- MODULE Echo --------------------------------
(***************************************************************************)
(* The keys of Console with their echo: keyboard_print changes the line    *)
(* that is bound and the display alike, Ctrl+L repaints it, and programs   *)
(* print in between.                                                       *)
(*                                                                         *)
(* Of the terminals that are not on display nothing is kept: a switch may  *)
(* bring any text there (that it brings the right one is in Screen).  A    *)
(* tab is four keys that type a space.                                     *)
(***************************************************************************)
EXTENDS Console, Display

CONSTANT MaxSwitches   \* bound: how often Alt+Fn is pressed

(* What is typed before Enter fits on the rows that scrolling leaves.       *)
ASSUME EchoAssumption ==
    /\ MaxSwitches \in Nat
    /\ TermBufSize - 1 <= (NumRows - 1) * NumCols

VARIABLES
    display,   \* what is displayed
    switches,  \* how often Alt+Fn was pressed
    in_step    \* history: since the line was last empty or repainted, nothing
               \* else was printed and neither line nor display was replaced

echovars == <<display, switches, in_step>>
evars == <<cvars, echovars>>

EchoStarts == display = Clear /\ switches = 0 /\ in_step = TRUE

EchoTypeOK ==
    /\ display \in Displayed(Chars \cup {"SP", "?"})
    /\ switches \in 0 .. MaxSwitches
    /\ in_step \in BOOLEAN

(* What a terminal can show: text, here all "?", before its cursor.        *)
Pictures ==
    {[mem |-> [i \in Cells |-> IF i < y * NumCols + x THEN "?" ELSE "SP"],
      x |-> x, y |-> y] : x \in 0 .. NumCols - 1, y \in 0 .. NumRows - 1}

Shows(d) == display' = d /\ UNCHANGED switches

(* A line that is empty is in step with any display.                       *)
InStep(kept) == in_step' = (kept \/ buf_location'[true_buffer'] = 0)

-----------------------------------------------------------------------------

EchoedChar(c) == CharKey(c) /\ Shows(PutC(display, c)) /\ InStep(in_step)
EchoedBackspace == BackspaceKey /\ Shows(Deleted(display)) /\ InStep(in_step)
EchoedEnter == EnterKey /\ Shows(PutC(display, "NL")) /\ InStep(in_step)

(* clear, and terminal_write of the whole buffer.                          *)
CtrlL ==
    /\ UNCHANGED cvars
    /\ Shows(Printed(Clear, [i \in 1 .. TermBufSize |-> Text[i - 1]]))
    /\ InStep(Text[TermBufSize - 1] # "NL")

ShowsTerminal ==
    IF current_terminal' = current_terminal THEN UNCHANGED display
    ELSE display' \in Pictures

(* Alt matters for Alt+Fn only.                                            *)
AltKey ==
    /\ switches < MaxSwitches
    /\ Alt
    /\ UNCHANGED echovars

SwitchKey ==
    /\ switches < MaxSwitches
    /\ switches' = switches + 1
    /\ AltF
    /\ ShowsTerminal
    /\ InStep(FALSE)

SwitchTick ==
    /\ BootTick
    /\ ShowsTerminal
    /\ InStep(in_step /\ display' = display)
    /\ UNCHANGED switches

(* One character of what the kernel or a program writes.                   *)
ProgramPrints ==
    /\ UNCHANGED cvars
    /\ \E c \in Chars \cup {"NL"} : Shows(PutC(display, c))
    /\ InStep(FALSE)

EchoNext ==
    \/ (\E c \in Chars : EchoedChar(c)) \/ EchoedBackspace \/ EchoedEnter
    \/ CtrlL \/ AltKey \/ SwitchKey \/ SwitchTick \/ ProgramPrints

EchoSpec == ConsoleInit /\ EchoStarts /\ [][EchoNext]_evars

-----------------------------------------------------------------------------
(* Properties.                                                             *)

(* What the user sees before the cursor is the line a read will return,    *)
(* through wrapping, scrolling, erasing across rows, dropped keys, and     *)
(* again after Enter or Ctrl+L when a switch or a program came in between. *)
(* Ctrl+L after a line of full length is excepted (in_step): a newline     *)
(* that line left in the last byte is painted too.                         *)
LineOnDisplay ==
    LET cursor == display.y * NumCols + display.x IN
    in_step =>
        /\ Location <= cursor
        /\ \A i \in 0 .. Location - 1 : display.mem[cursor - Location + i] = Text[i]

=============================================================================
