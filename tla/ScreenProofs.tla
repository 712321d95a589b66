---------------------------- MODULE ScreenProofs ----------------------------
(***************************************************************************)
(* What hidden terminals keep and what there is behind the cursor, for any *)
(* size of the screen, any number of terminals and any text.               *)
(***************************************************************************)
EXTENDS Screen, DisplayProofs

(* There is a copy for each terminal.                                      *)
CopyEach ==
    /\ current_terminal \in Terminals
    /\ saved \in [Terminals -> {saved[t] : t \in Terminals}]

LEMMA CopyEachInit == ScreenInit => CopyEach
BY ScreenAssumption DEF ScreenInit, CopyEach

LEMMA CopyEachStep == CopyEach /\ [ScreenNext]_scvars => CopyEach'
<1> SUFFICES ASSUME CopyEach, [ScreenNext]_scvars PROVE CopyEach'
    OBVIOUS
<1>1. CASE UNCHANGED <<current_terminal, saved>>
    BY <1>1 DEF CopyEach
<1>2. CASE DisplaySwitch
    BY <1>2 DEF CopyEach, DisplaySwitch
<1> QED
    BY <1>1, <1>2 DEF ScreenNext, Output, Delete, Redraw, scvars

(* Switching moves the pictures around and changes none of them.           *)
LEMMA SwitchKeeps ==
    ASSUME CopyEach, DisplaySwitch, NEW t \in Terminals
    PROVE  Picture(t)' = Picture(t)
<1>1. current_terminal' # current_terminal /\ current_terminal' \in Terminals
    BY DEF DisplaySwitch
<1>2. CASE t = current_terminal
    <2>1. Picture(t)' = saved'[t]
        BY <1>1, <1>2 DEF Picture
    <2>2. saved'[t] = screen
        BY <1>2 DEF DisplaySwitch, Kept, CopyEach
    <2> QED
        BY <1>2, <2>1, <2>2 DEF Picture
<1>3. CASE t = current_terminal'
    <2>1. Picture(t)' = screen'
        BY <1>3 DEF Picture
    <2> QED
        BY <1>1, <1>3, <2>1 DEF Picture, DisplaySwitch
<1>4. CASE t # current_terminal /\ t # current_terminal'
    <2>1. saved'[t] = saved[t]
        BY <1>4 DEF DisplaySwitch, CopyEach
    <2> QED
        BY <1>4, <2>1 DEF Picture
<1> QED
    BY <1>2, <1>3, <1>4

(* switch_screen gives each terminal back the text and the cursor it had,  *)
(* and output while another is on display does not touch them.             *)
THEOREM TerminalsKeepPictures == ScreenSpec => PicturesKept
<1>1. ScreenInit => CopyEach
    BY CopyEachInit
<1>2. CopyEach /\ [ScreenNext]_scvars => CopyEach'
    BY CopyEachStep
<1>3. CopyEach /\ [ScreenNext]_scvars =>
        [\A t \in Terminals :
            t # current_terminal \/ t # current_terminal' =>
                Picture(t)' = Picture(t)]_scvars
    <2> SUFFICES ASSUME CopyEach, ScreenNext, NEW t \in Terminals,
                        t # current_terminal \/ t # current_terminal'
                 PROVE  Picture(t)' = Picture(t)
        OBVIOUS
    <2>1. CASE UNCHANGED <<current_terminal, saved>>
        BY <2>1 DEF Picture
    <2>2. CASE DisplaySwitch
        BY <2>2, SwitchKeeps
    <2> QED
        BY <2>1, <2>2 DEF ScreenNext, Output, Delete, Redraw
<1> QED
    BY <1>1, <1>2, <1>3, PTL DEF ScreenSpec, PicturesKept

-----------------------------------------------------------------------------
(* Behind the cursor.                                                      *)

ScreenInv ==
    /\ ScreenTypeOK
    /\ BlankFrom(screen)
    /\ \A t \in Terminals : BlankFrom(saved[t])

LEMMA ClearIsBlank ==
    ASSUME NEW bytes, "SP" \in bytes
    PROVE  Clear \in Displayed(bytes) /\ BlankFrom(Clear)
<1>1. 0 \in 0 .. NumCols - 1 /\ 0 \in 0 .. NumRows - 1
    BY Sizes
<1> QED
    BY <1>1 DEF Clear, Displayed, BlankFrom

LEMMA ScreenStarts == ScreenInit => ScreenInv
<1> SUFFICES ASSUME ScreenInit PROVE ScreenInv
    OBVIOUS
<1> DEFINE uncleared == [mem |-> [i \in Cells |-> "?"], x |-> 0, y |-> 0]
<1>1. "SP" \in Bytes /\ "?" \in Bytes
    BY DEF Bytes
<1>2. 0 \in 0 .. NumCols - 1 /\ 0 \in 0 .. NumRows - 1
    BY Sizes
<1>3. uncleared \in Displayed(Bytes) /\ BlankFrom(uncleared)
    BY <1>1, <1>2 DEF Displayed, BlankFrom
<1>4. Clear \in Displayed(Bytes) /\ BlankFrom(Clear)
    BY <1>1, ClearIsBlank
<1> HIDE DEF uncleared
<1>5. screen = Clear /\ saved = [t \in Terminals |-> uncleared]
    BY DEF ScreenInit, uncleared
<1>6. current_terminal \in Terminals
    BY ScreenAssumption DEF ScreenInit
<1> QED
    BY <1>3, <1>4, <1>5, <1>6 DEF ScreenInv, ScreenTypeOK

LEMMA OutputsAreTexts ==
    ASSUME NEW text \in Outputs
    PROVE  text \in Seq(Bytes \cup {"NL", "NUL"})
<1>1. PICK n \in Nat : text \in [1 .. n -> Chars \cup {"NL"}]
    BY ScreenAssumption DEF Outputs
<1> QED
    BY <1>1 DEF Bytes

LEMMA ScreenSteps == ScreenInv /\ [ScreenNext]_scvars => ScreenInv'
<1> SUFFICES ASSUME ScreenInv, [ScreenNext]_scvars PROVE ScreenInv'
    OBVIOUS
<1>1. "SP" \in Bytes
    BY DEF Bytes
<1>2. /\ screen \in Displayed(Bytes) /\ BlankFrom(screen)
      /\ \A t \in Terminals : saved[t] \in Displayed(Bytes) /\ BlankFrom(saved[t])
      /\ saved \in [Terminals -> Displayed(Bytes)]
      /\ current_terminal \in Terminals
    BY DEF ScreenInv, ScreenTypeOK
<1>3. ASSUME screen' \in Displayed(Bytes), BlankFrom(screen'),
             UNCHANGED <<current_terminal, saved>>
      PROVE  ScreenInv'
    BY <1>2, <1>3 DEF ScreenInv, ScreenTypeOK, Displayed, Cells, Bytes, BlankFrom, Cursor
<1>4. CASE Output
    <2>1. PICK text \in Outputs : screen' = Printed(screen, text)
        BY <1>4 DEF Output
    <2> QED
        BY <1>1, <1>2, <1>3, <1>4, <2>1, OutputsAreTexts, PrintedKeepsBlank DEF Output
<1>5. CASE Delete
    BY <1>1, <1>2, <1>3, <1>5, DeleteKeepsBlank DEF Delete
<1>6. CASE Redraw
    <2>1. PICK text \in Outputs : screen' = Printed(Clear, text)
        BY <1>6 DEF Redraw
    <2> QED
        BY <1>1, <1>3, <1>6, <2>1, ClearIsBlank, OutputsAreTexts, PrintedKeepsBlank
        DEF Redraw
<1>7. CASE DisplaySwitch
    <2>1. /\ current_terminal' \in Terminals
          /\ screen' = saved[current_terminal']
          /\ saved' = [saved EXCEPT ![current_terminal] = screen]
        BY <1>7 DEF DisplaySwitch, Kept
    <2>2. /\ screen' \in Displayed(Bytes) /\ BlankFrom(screen')
          /\ saved' \in [Terminals -> Displayed(Bytes)]
          /\ \A t \in Terminals : BlankFrom(saved'[t])
        BY <1>2, <2>1
    <2> QED
        BY <2>1, <2>2 DEF ScreenInv, ScreenTypeOK, Displayed, Cells, Bytes, BlankFrom, Cursor
<1>8. CASE UNCHANGED scvars
    BY <1>2, <1>3, <1>8 DEF scvars
<1> QED
    BY <1>4, <1>5, <1>6, <1>7, <1>8 DEF ScreenNext

(* putc and delete never write outside video memory, and what is behind    *)
(* the cursor of any terminal is blank, or what was in memory before it    *)
(* was first cleared: output never mixes with earlier output, wherever     *)
(* lines wrap, the screen scrolls and rows are erased.                     *)
THEOREM BlankBehindCursor == ScreenSpec => [](ScreenTypeOK /\ BlankFromCursor)
<1>1. ScreenInit => ScreenInv
    BY ScreenStarts
<1>2. ScreenInv /\ [ScreenNext]_scvars => ScreenInv'
    BY ScreenSteps
<1>3. ScreenInv => ScreenTypeOK /\ BlankFromCursor
    <2> SUFFICES ASSUME ScreenInv PROVE ScreenTypeOK /\ BlankFromCursor
        OBVIOUS
    <2>1. \A t \in Terminals : BlankFrom(Picture(t))
        BY DEF ScreenInv, Picture
    <2> QED
        BY <2>1 DEF ScreenInv, BlankFromCursor, BlankFrom, Cursor
<1> QED
    BY <1>1, <1>2, <1>3, PTL DEF ScreenSpec

=============================================================================
