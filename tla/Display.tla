------------------------------ MODULE Display ------------------------------
(***************************************************************************)
(* putc, delete and clear of lib.c, as functions on what is displayed: a   *)
(* record [mem, x, y] of the characters in video memory and the cursor,    *)
(* screen_x and screen_y.                                                  *)
(***************************************************************************)
EXTENDS Integers, Sequences

CONSTANTS
    NumRows,  \* lib.c: NUM_ROWS
    NumCols   \* lib.c: NUM_COLS

ASSUME DisplayAssumption == NumRows \in Nat \ {0} /\ NumCols \in Nat \ {0}

Cells == 0 .. NumRows * NumCols - 1

Displayed(bytes) == [mem : [Cells -> bytes], x : 0 .. NumCols - 1, y : 0 .. NumRows - 1]

Clear == [mem |-> [i \in Cells |-> "SP"], x |-> 0, y |-> 0]

ScrollUp(mem) ==
    [i \in Cells |-> IF i < (NumRows - 1) * NumCols THEN mem[i + NumCols] ELSE mem[i]]

ClearRow(mem, row) ==
    [i \in Cells |-> IF i \div NumCols = row THEN "SP" ELSE mem[i]]

(* To the start of the next row; below the last one everything moves up.   *)
NextRow_Uncleared(d) ==   \* mutant: the last row is not cleared
    IF d.y + 1 < NumRows THEN [d EXCEPT !.x = 0, !.y = @ + 1]
    ELSE [d EXCEPT !.x = 0, !.mem = ScrollUp(d.mem)]

NextRow(d) ==
    IF d.y + 1 < NumRows THEN [d EXCEPT !.x = 0, !.y = @ + 1]
    ELSE [d EXCEPT !.x = 0, !.mem = ClearRow(ScrollUp(d.mem), NumRows - 1)]

Wraps_Late(x) == x > NumCols   \* mutant: one column too many

Wraps(x) == x >= NumCols

PutC(d, c) ==
    IF c = "NL" THEN NextRow(d)
    ELSE LET e == [mem |-> [d.mem EXCEPT ![d.y * NumCols + d.x] = c],
                   x |-> d.x + 1, y |-> d.y]
         IN IF Wraps(e.x) THEN NextRow(e) ELSE e

Deleted_InRow(d) ==   \* mutant: not across the edge of a row
    IF d.x = 0 THEN d
    ELSE [d EXCEPT !.mem[d.y * NumCols + d.x - 1] = "SP", !.x = @ - 1]

Deleted(d) ==
    IF d.x = 0 /\ d.y = 0 THEN d
    ELSE [mem |-> [d.mem EXCEPT ![d.y * NumCols + d.x - 1] = "SP"],
          x |-> IF d.x = 0 THEN NumCols - 1 ELSE d.x - 1,
          y |-> IF d.x = 0 THEN d.y - 1 ELSE d.y]

(* terminal_write: byte by byte, without the NULs.                         *)
Printing(d, text) ==
    LET shown[n \in 0 .. Len(text)] ==
            IF n = 0 THEN d
            ELSE IF text[n] = "NUL" THEN shown[n - 1]
            ELSE PutC(shown[n - 1], text[n])
    IN shown

Printed(d, text) == Printing(d, text)[Len(text)]

=============================================================================
