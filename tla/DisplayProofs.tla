--------------------------- MODULE DisplayProofs ---------------------------
(***************************************************************************)
(* What putc, delete and terminal_write do to the screen, for any number   *)
(* of rows and columns, any text and any screen it is printed to.          *)
(*                                                                         *)
(* Printing is by recursion on the text, and the proof by induction: a set *)
(* of natural numbers that is not all of them has a least element outside. *)
(***************************************************************************)
EXTENDS Display, TLAPS, WellFoundedInduction

LEMMA LeastElement ==
    ASSUME NEW S, S \subseteq Nat, S # {}
    PROVE  \E least \in S : \A n \in S : least <= n
<1> DEFINE Less == OpToRel(<, Nat)
<1>1. IsWellFoundedOn(Less, Nat)
  BY NatLessThanWellFounded
<1>2. \A m, n \in Nat : m < n => <<m, n>> \in Less
  BY DEF OpToRel
<1> HIDE DEF Less
<1>3. PICK least \in S : \A n \in S : ~ (<<n, least>> \in Less)
  BY <1>1, WFMin
<1>4. \A n \in S : ~ (n < least)
  BY <1>2, <1>3
<1> QED
  BY <1>4

LEMMA Induction ==
    ASSUME NEW S, S \subseteq Nat, 0 \in S, \A n \in S : n + 1 \in S
    PROVE  S = Nat
<1> DEFINE Rest == Nat \ S
<1> SUFFICES ASSUME Rest # {} PROVE FALSE
  OBVIOUS
<1>1. PICK least \in Rest : \A n \in Rest : least <= n
  <2>1. Rest \subseteq Nat
    OBVIOUS
  <2> HIDE DEF Rest
  <2> QED
    BY <2>1, LeastElement
<1>2. least - 1 \in Nat /\ least - 1 \notin Rest
  BY <1>1
<1> QED
  BY <1>1, <1>2

-----------------------------------------------------------------------------
(* Cells and rows.                                                         *)

Cursor(d) == d.y * NumCols + d.x
LastRow == (NumRows - 1) * NumCols

LEMMA Sizes ==
    /\ NumRows \in Nat /\ NumRows > 0
    /\ NumCols \in Nat /\ NumCols > 0
    /\ LastRow \in Nat
    /\ NumRows * NumCols = LastRow + NumCols
    /\ NumRows * NumCols \in Nat
<1>1. NumRows \in Nat /\ NumRows > 0 /\ NumCols \in Nat /\ NumCols > 0
  BY DisplayAssumption
<1>2. \A r, c \in Nat : r * c \in Nat
  OBVIOUS
<1>3. LastRow \in Nat /\ NumRows * NumCols \in Nat
  BY <1>1, <1>2 DEF LastRow
<1>4. \A r, c \in Nat : r * c = (r - 1) * c + c
  OBVIOUS
<1> QED
  BY <1>1, <1>3, <1>4 DEF LastRow

LEMMA RowStarts ==
    ASSUME NEW y \in 0 .. NumRows - 1
    PROVE  /\ y * NumCols \in 0 .. LastRow
           /\ (y + 1) * NumCols = y * NumCols + NumCols
           /\ y + 1 < NumRows => (y + 1) * NumCols \in 0 .. LastRow
           /\ y > 0 => (y - 1) * NumCols = y * NumCols - NumCols
           /\ y = NumRows - 1 => y * NumCols = LastRow
           /\ y # 0 => y * NumCols >= NumCols
<1>1. \A r, s, c \in Nat : r <= s => r * c <= s * c /\ r * c \in Nat
  <2> SUFFICES ASSUME NEW r \in Nat, NEW s \in Nat, NEW c \in Nat, r <= s
               PROVE  r * c <= s * c /\ r * c \in Nat
    OBVIOUS
  <2>1. s - r \in Nat /\ (s - r) * c \in Nat
    OBVIOUS
  <2>2. s * c = r * c + (s - r) * c
    OBVIOUS
  <2> QED
    BY <2>1, <2>2
<1>2. \A r, c \in Int : (r + 1) * c = r * c + c /\ (r - 1) * c = r * c - c
  OBVIOUS
<1>3. y \in Nat /\ y <= NumRows - 1 /\ NumRows - 1 \in Nat /\ NumCols \in Nat
  BY Sizes
<1>4. y * NumCols \in Nat /\ y * NumCols <= LastRow
  BY <1>1, <1>3 DEF LastRow
<1>5. y + 1 < NumRows => (y + 1) * NumCols \in 0 .. LastRow
  <2> SUFFICES ASSUME y + 1 < NumRows PROVE (y + 1) * NumCols \in 0 .. LastRow
    OBVIOUS
  <2>1. y + 1 \in Nat /\ y + 1 <= NumRows - 1
    BY <1>3, Sizes
  <2> QED
    BY <1>1, <1>3, <2>1, Sizes DEF LastRow
<1>6. y # 0 => y * NumCols >= NumCols
  <2> SUFFICES ASSUME y # 0 PROVE y * NumCols >= NumCols
    OBVIOUS
  <2>1. (y - 1) \in Nat /\ (y - 1) * NumCols \in Nat
    BY <1>1, <1>3
  <2> QED
    BY <1>2, <1>3, <2>1
<1> QED
  BY <1>2, <1>3, <1>4, <1>5, <1>6, Sizes DEF LastRow

LEMMA CursorInCells ==
    ASSUME NEW x \in 0 .. NumCols - 1, NEW y \in 0 .. NumRows - 1
    PROVE  y * NumCols + x \in Cells
  BY RowStarts, Sizes DEF Cells

LEMMA LastRowCells ==
    ASSUME NEW i \in Cells
    PROVE  i \div NumCols = NumRows - 1 <=> i >= LastRow
<1> DEFINE q == i \div NumCols
           r == i % NumCols
<1>1. i \in Nat /\ i < LastRow + NumCols /\ NumCols \in Nat /\ NumCols > 0
      /\ NumRows \in Nat
  BY Sizes DEF Cells
<1>2. q \in Int /\ r \in 0 .. NumCols - 1 /\ i = NumCols * q + r
  BY <1>1
<1> HIDE DEF q, r
<1>3. q = NumRows - 1 => i = LastRow + r
  BY <1>1, <1>2 DEF LastRow
<1>4. ASSUME q < NumRows - 1 PROVE i < LastRow
  <2>1. (NumRows - 2 - q) \in Nat
    BY <1>1, <1>2, <1>4
  <2>2. NumCols * (NumRows - 2 - q) \in Nat
    BY <1>1, <2>1
  <2>3. LastRow = NumCols * q + NumCols + NumCols * (NumRows - 2 - q)
    BY <1>1, <1>2 DEF LastRow
  <2> QED
    BY <1>1, <1>2, <2>2, <2>3
<1>5. ASSUME q > NumRows - 1 PROVE FALSE
  <2>1. (q - NumRows) \in Nat
    BY <1>1, <1>2, <1>5
  <2>2. NumCols * (q - NumRows) \in Nat
    BY <1>1, <2>1
  <2>3. NumCols * q = LastRow + NumCols + NumCols * (q - NumRows)
    BY <1>1, <1>2 DEF LastRow
  <2> QED
    BY <1>1, <1>2, <2>2, <2>3, Sizes
<1> QED
  BY <1>1, <1>2, <1>3, <1>4, <1>5, Sizes DEF q

-----------------------------------------------------------------------------
(* putc.                                                                   *)

(* The cursor while putc works: it may stand behind the last column.       *)
Unwrapped(bytes) ==
    [mem : [Cells -> bytes], x : 0 .. NumCols, y : 0 .. NumRows - 1]

LEMMA NextRowEffect ==
    ASSUME NEW bytes, "SP" \in bytes, NEW d \in Unwrapped(bytes)
    PROVE  /\ NextRow(d) \in Displayed(bytes)
           /\ \/ /\ NextRow(d).mem = d.mem
                 /\ Cursor(NextRow(d)) = d.y * NumCols + NumCols
              \/ /\ d.y * NumCols = LastRow
                 /\ Cursor(NextRow(d)) = LastRow
                 /\ \A i \in Cells : NextRow(d).mem[i] =
                       IF i < LastRow THEN d.mem[i + NumCols] ELSE "SP"
<1> DEFINE e == NextRow(d)
<1>0. /\ d.mem \in [Cells -> bytes] /\ d.x \in 0 .. NumCols
      /\ d.y \in 0 .. NumRows - 1
      /\ d = [mem |-> d.mem, x |-> d.x, y |-> d.y]
  BY DEF Unwrapped
<1>1. CASE d.y + 1 < NumRows
  <2>1. e = [mem |-> d.mem, x |-> 0, y |-> d.y + 1]
    BY <1>0, <1>1 DEF NextRow
  <2>2. d.y + 1 \in 0 .. NumRows - 1 /\ 0 \in 0 .. NumCols - 1
    BY <1>0, <1>1, Sizes
  <2>3. (d.y + 1) * NumCols \in Int
    BY <2>2, Sizes
  <2>4. Cursor(e) = d.y * NumCols + NumCols
    BY <1>0, <2>1, <2>3, RowStarts DEF Cursor
  <2> QED
    BY <1>0, <2>1, <2>2, <2>4 DEF Displayed
<1>2. CASE ~ (d.y + 1 < NumRows)
  <2> DEFINE mem == ClearRow(ScrollUp(d.mem), NumRows - 1)
  <2>1. d.y = NumRows - 1
    BY <1>0, <1>2, Sizes
  <2>2. e = [mem |-> mem, x |-> 0, y |-> d.y]
    BY <1>0, <1>2 DEF NextRow
  <2>3. \A i \in Cells : i < LastRow => i + NumCols \in Cells
    BY Sizes DEF Cells
  <2>4. \A i \in Cells : mem[i] = IF i < LastRow THEN d.mem[i + NumCols] ELSE "SP"
    <3> TAKE i \in Cells
    <3>1. mem[i] = IF i \div NumCols = NumRows - 1 THEN "SP" ELSE ScrollUp(d.mem)[i]
      BY DEF ClearRow
    <3>2. i < LastRow <=> ~ (i >= LastRow)
      BY Sizes DEF Cells
    <3>3. ScrollUp(d.mem)[i] = IF i < LastRow THEN d.mem[i + NumCols] ELSE d.mem[i]
      BY DEF ScrollUp, LastRow
    <3> QED
      BY <3>1, <3>2, <3>3, LastRowCells
  <2>5. mem \in [Cells -> bytes]
    <3>1. \A i \in Cells : mem[i] \in bytes
      <4> HIDE DEF mem
      <4> QED
        BY <1>0, <2>3, <2>4
    <3>2. mem = [i \in Cells |-> mem[i]]
      BY DEF ClearRow
    <3> HIDE DEF mem
    <3> QED
      BY <3>1, <3>2
  <2> HIDE DEF mem
  <2>6. 0 \in 0 .. NumCols - 1
    BY Sizes
  <2>7. d.y * NumCols = LastRow
    BY <1>0, <2>1, RowStarts
  <2>8. e.mem = mem /\ e.x = 0 /\ e.y = d.y
    BY <2>2
  <2>9. Cursor(e) = LastRow
    BY <2>7, <2>8, Sizes DEF Cursor
  <2>10. e \in Displayed(bytes)
    BY <1>0, <2>2, <2>5, <2>6 DEF Displayed
  <2> QED
    BY <2>4, <2>7, <2>8, <2>9, <2>10
<1> QED
  BY <1>1, <1>2

(* A character goes under the cursor, the cursor behind it; when that is   *)
(* behind the last cell, everything moves up by a row and the last row is  *)
(* blank.                                                                  *)
LEMMA CharEffect ==
    ASSUME NEW bytes, "SP" \in bytes, NEW d \in Displayed(bytes),
           NEW c \in bytes, c # "NL"
    PROVE  /\ PutC(d, c) \in Displayed(bytes)
           /\ Cursor(d) \in Cells
           /\ \/ /\ Cursor(PutC(d, c)) = Cursor(d) + 1
                 /\ PutC(d, c).mem = [d.mem EXCEPT ![Cursor(d)] = c]
              \/ /\ Cursor(PutC(d, c)) = LastRow
                 /\ Cursor(d) + 1 = LastRow + NumCols
                 /\ \A i \in Cells : PutC(d, c).mem[i] =
                       IF i < LastRow
                       THEN [d.mem EXCEPT ![Cursor(d)] = c][i + NumCols] ELSE "SP"
<1> DEFINE mem == [d.mem EXCEPT ![Cursor(d)] = c]
           e == [mem |-> mem, x |-> d.x + 1, y |-> d.y]
<1>0. /\ d.mem \in [Cells -> bytes] /\ d.x \in 0 .. NumCols - 1
      /\ d.y \in 0 .. NumRows - 1
      /\ d = [mem |-> d.mem, x |-> d.x, y |-> d.y]
  BY DEF Displayed
<1>1. Cursor(d) \in Cells
  BY <1>0, CursorInCells DEF Cursor
<1>2. mem \in [Cells -> bytes]
  BY <1>0
<1>4. PutC(d, c) = IF e.x >= NumCols THEN NextRow(e) ELSE e
  BY DEF PutC, Wraps, Cursor
<1> HIDE DEF mem
<1>5. d.y * NumCols \in Nat
  BY <1>0, RowStarts
<1>6. CASE d.x + 1 < NumCols
  <2>1. PutC(d, c) = e
    BY <1>0, <1>4, <1>6, Sizes
  <2>2. Cursor(e) = Cursor(d) + 1
    BY <1>0, <1>5 DEF Cursor
  <2>3. e \in Displayed(bytes)
    BY <1>0, <1>2, <1>6, Sizes DEF Displayed
  <2> QED
    BY <1>1, <2>1, <2>2, <2>3 DEF mem
<1>7. CASE d.x + 1 = NumCols
  <2>1. PutC(d, c) = NextRow(e) /\ e.y = d.y /\ e.mem = mem
    BY <1>0, <1>4, <1>7, Sizes
  <2>2. e \in Unwrapped(bytes)
    BY <1>0, <1>2, <1>7, Sizes DEF Unwrapped
  <2>3. Cursor(d) + 1 = d.y * NumCols + NumCols
    BY <1>0, <1>5, <1>7 DEF Cursor
  <2> HIDE DEF e
  <2>4. /\ NextRow(e) \in Displayed(bytes)
        /\ \/ /\ NextRow(e).mem = e.mem
              /\ Cursor(NextRow(e)) = e.y * NumCols + NumCols
           \/ /\ e.y * NumCols = LastRow
              /\ Cursor(NextRow(e)) = LastRow
              /\ \A i \in Cells : NextRow(e).mem[i] =
                    IF i < LastRow THEN e.mem[i + NumCols] ELSE "SP"
    BY <2>2, NextRowEffect
  <2>5. /\ NextRow(e) \in Displayed(bytes)
        /\ \/ /\ NextRow(e).mem = mem
              /\ Cursor(NextRow(e)) = Cursor(d) + 1
           \/ /\ Cursor(d) + 1 = LastRow + NumCols
              /\ Cursor(NextRow(e)) = LastRow
              /\ \A i \in Cells : NextRow(e).mem[i] =
                    IF i < LastRow THEN mem[i + NumCols] ELSE "SP"
    BY <2>1, <2>3, <2>4, Zenon
  <2> QED
    BY <1>1, <2>1, <2>5, Zenon DEF mem
<1> QED
  BY <1>0, <1>6, <1>7, Sizes

LEMMA NewlineEffect ==
    ASSUME NEW bytes, "SP" \in bytes, NEW d \in Displayed(bytes)
    PROVE  /\ PutC(d, "NL") \in Displayed(bytes)
           /\ \/ /\ PutC(d, "NL").mem = d.mem
                 /\ Cursor(PutC(d, "NL")) >= Cursor(d)
              \/ /\ Cursor(PutC(d, "NL")) = LastRow
                 /\ Cursor(d) >= LastRow
                 /\ \A i \in Cells : PutC(d, "NL").mem[i] =
                       IF i < LastRow THEN d.mem[i + NumCols] ELSE "SP"
<1>1. d \in Unwrapped(bytes)
  BY Sizes DEF Displayed, Unwrapped
<1>2. PutC(d, "NL") = NextRow(d)
  BY DEF PutC
<1>3. d.y * NumCols \in Nat /\ d.x \in 0 .. NumCols - 1
  BY RowStarts DEF Displayed
<1>4. /\ Cursor(d) = d.y * NumCols + d.x
      /\ Cursor(d) \in Nat
      /\ Cursor(d) < d.y * NumCols + NumCols
  BY <1>3, Sizes DEF Cursor
<1> QED
  BY <1>1, <1>2, <1>3, <1>4, Sizes, NextRowEffect

-----------------------------------------------------------------------------
(* delete.                                                                 *)

LEMMA DeleteEffect ==
    ASSUME NEW bytes, "SP" \in bytes, NEW d \in Displayed(bytes)
    PROVE  /\ Deleted(d) \in Displayed(bytes)
           /\ Cursor(d) \in Cells
           /\ Cursor(d) = 0 => Deleted(d) = d
           /\ Cursor(d) > 0 =>
                /\ Cursor(Deleted(d)) = Cursor(d) - 1
                /\ Deleted(d).mem = [d.mem EXCEPT ![Cursor(d) - 1] = "SP"]
<1>0. /\ d.mem \in [Cells -> bytes] /\ d.x \in 0 .. NumCols - 1
      /\ d.y \in 0 .. NumRows - 1
  BY DEF Displayed
<1>1. Cursor(d) \in Cells
  BY <1>0, CursorInCells DEF Cursor
<1>2. d.y * NumCols \in Nat /\ (d.y # 0 => d.y * NumCols >= NumCols)
  BY <1>0, RowStarts, Sizes
<1>3. Cursor(d) = d.y * NumCols + d.x
  BY DEF Cursor
<1>4. Cursor(d) = 0 <=> d.x = 0 /\ d.y = 0
  <2>1. d.y = 0 => d.y * NumCols = 0
    BY Sizes
  <2> QED
    BY <1>0, <1>2, <1>3, <2>1, Sizes
<1>5. CASE d.x = 0 /\ d.y = 0
  <2>1. Deleted(d) = d
    BY <1>5 DEF Deleted
  <2>2. Cursor(d) = 0
    BY <1>4, <1>5
  <2>3. ~ (Cursor(d) > 0)
    BY <2>2
  <2> QED
    BY <1>1, <2>1, <2>2, <2>3, Zenon
<1>6. CASE ~ (d.x = 0 /\ d.y = 0)
  <2> DEFINE mem == [d.mem EXCEPT ![Cursor(d) - 1] = "SP"]
             x == IF d.x = 0 THEN NumCols - 1 ELSE d.x - 1
             y == IF d.x = 0 THEN d.y - 1 ELSE d.y
  <2>1. Deleted(d) = [mem |-> mem, x |-> x, y |-> y]
    <3>1. d.y * NumCols + d.x - 1 = Cursor(d) - 1
      BY <1>0, <1>2, <1>3
    <3>2. Deleted(d) = [mem |-> [d.mem EXCEPT ![d.y * NumCols + d.x - 1] = "SP"],
                        x |-> x, y |-> y]
      BY <1>6 DEF Deleted
    <3> QED
      BY <3>1, <3>2
  <2>2. x \in 0 .. NumCols - 1 /\ y \in 0 .. NumRows - 1
    BY <1>0, <1>6, Sizes
  <2>3. mem \in [Cells -> bytes]
    BY <1>0
  <2>4. y * NumCols + x = Cursor(d) - 1
    <3>1. CASE d.x = 0
      <4>1. (d.y - 1) * NumCols = d.y * NumCols - NumCols
        BY <1>0, <1>6, <3>1, RowStarts
      <4> QED
        BY <1>2, <1>3, <3>1, <4>1, Sizes
    <3>2. CASE d.x # 0
      BY <1>0, <1>2, <1>3, <3>2
    <3> QED
      BY <3>1, <3>2
  <2> HIDE DEF mem, x, y
  <2>5. Cursor(Deleted(d)) = Cursor(d) - 1
    BY <2>1, <2>4 DEF Cursor
  <2>6. Deleted(d) \in Displayed(bytes)
    BY <2>1, <2>2, <2>3 DEF Displayed
  <2>7. Deleted(d).mem = mem
    BY <2>1
  <2> QED
    BY <1>1, <1>4, <1>6, <2>5, <2>6, <2>7 DEF mem
<1> QED
  BY <1>5, <1>6

-----------------------------------------------------------------------------
(* terminal_write.                                                         *)

(* The recursion defines a function: by induction on its length there is   *)
(* one for every beginning of the text.                                    *)
LEMMA PrintingSteps ==
    ASSUME NEW d, NEW text, Len(text) \in Nat
    PROVE  /\ Printing(d, text)[0] = d
           /\ \A n \in 1 .. Len(text) : Printing(d, text)[n] =
                 IF text[n] = "NUL" THEN Printing(d, text)[n - 1]
                 ELSE PutC(Printing(d, text)[n - 1], text[n])
<1> DEFINE After(n, e) == IF text[n] = "NUL" THEN e ELSE PutC(e, text[n])
           IsPrinting(f, m) == f = [n \in 0 .. m |-> IF n = 0 THEN d ELSE After(n, f[n - 1])]
           Reached == {m \in Nat : \E f : IsPrinting(f, m)}
<1>1. 0 \in Reached
  <2>1. IsPrinting([n \in 0 .. 0 |-> d], 0)
    OBVIOUS
  <2> QED
    BY <2>1
<1>2. \A m \in Reached : m + 1 \in Reached
  <2> SUFFICES ASSUME NEW m \in Reached PROVE m + 1 \in Reached
    OBVIOUS
  <2>1. PICK f : IsPrinting(f, m)
    OBVIOUS
  <2> DEFINE g == [n \in 0 .. m + 1 |-> IF n = m + 1 THEN After(n, f[m]) ELSE f[n]]
  <2>2. m \in Nat
    OBVIOUS
  <2> HIDE DEF After, Reached
  <2>3. \A n \in 0 .. m + 1 : g[n] = IF n = 0 THEN d ELSE After(n, g[n - 1])
    <3> TAKE n \in 0 .. m + 1
    <3>1. CASE n = m + 1
      BY <2>2, <3>1
    <3>2. CASE n # m + 1
      <4>1. n \in 0 .. m /\ g[n] = f[n]
        BY <2>2, <3>2
      <4>2. f[n] = IF n = 0 THEN d ELSE After(n, f[n - 1])
        BY <2>1, <4>1
      <4>3. n # 0 => g[n - 1] = f[n - 1]
        BY <2>2, <4>1
      <4> QED
        BY <4>1, <4>2, <4>3
    <3> QED
      BY <3>1, <3>2
  <2>4. IsPrinting(g, m + 1)
    <3> HIDE DEF g
    <3>1. g = [n \in 0 .. m + 1 |-> g[n]]
      BY DEF g
    <3> QED
      BY <2>3, <3>1
  <2>5. m + 1 \in Nat
    BY <2>2
  <2> QED
    BY <2>4, <2>5 DEF Reached
<1>3. Reached = Nat
  <2>1. Reached \subseteq Nat
    OBVIOUS
  <2> HIDE DEF Reached
  <2> QED
    BY <1>1, <1>2, <2>1, Induction
<1>4. \E f : IsPrinting(f, Len(text))
  BY <1>3
<1>5. Printing(d, text) = CHOOSE f : IsPrinting(f, Len(text))
  BY DEF Printing
<1>6. IsPrinting(Printing(d, text), Len(text))
  <2> HIDE DEF IsPrinting
  <2> QED
    BY <1>4, <1>5, Zenon
<1> HIDE DEF Reached
<1> QED
  BY <1>6

-----------------------------------------------------------------------------
(* From the cursor on.                                                     *)

BlankFrom(d) == \A i \in Cells : i >= Cursor(d) => d.mem[i] \in {"SP", "?"}

LEMMA PutCKeepsBlank ==
    ASSUME NEW bytes, "SP" \in bytes, NEW d \in Displayed(bytes), BlankFrom(d),
           NEW c \in bytes \cup {"NL"}
    PROVE  PutC(d, c) \in Displayed(bytes) /\ BlankFrom(PutC(d, c))
<1> DEFINE e == PutC(d, c)
           cur == Cursor(d)
<1>1. \A i \in Cells : i \in Nat /\ i < LastRow + NumCols
  BY Sizes DEF Cells
<1>2. \A i \in Cells : i < LastRow => i + NumCols \in Cells
  BY Sizes DEF Cells
<1>3. d.mem \in [Cells -> bytes]
  BY DEF Displayed
<1>4. CASE c # "NL"
  <2>1. /\ e \in Displayed(bytes)
        /\ cur \in Cells
        /\ \/ /\ Cursor(e) = cur + 1
              /\ e.mem = [d.mem EXCEPT ![cur] = c]
           \/ /\ Cursor(e) = LastRow
              /\ \A i \in Cells : e.mem[i] =
                    IF i < LastRow THEN [d.mem EXCEPT ![cur] = c][i + NumCols]
                    ELSE "SP"
    BY <1>4, CharEffect
  <2> HIDE DEF e, cur
  <2>2. CASE Cursor(e) = cur + 1 /\ e.mem = [d.mem EXCEPT ![cur] = c]
    <3> SUFFICES ASSUME NEW i \in Cells, i >= cur + 1
                 PROVE  e.mem[i] \in {"SP", "?"}
      BY <2>1, <2>2 DEF BlankFrom, e
    <3>1. i # cur /\ i >= cur
      BY <1>1, <2>1
    <3> QED
      BY <1>3, <2>2, <3>1 DEF BlankFrom, cur
  <2>3. CASE /\ Cursor(e) = LastRow
             /\ \A i \in Cells : e.mem[i] =
                  IF i < LastRow THEN [d.mem EXCEPT ![cur] = c][i + NumCols]
                  ELSE "SP"
    <3>1. \A i \in Cells : i >= LastRow => e.mem[i] = "SP"
      BY <1>1, <2>3, Sizes
    <3> QED
      BY <2>1, <2>3, <3>1 DEF BlankFrom, e
  <2> QED
    BY <2>1, <2>2, <2>3
<1>5. CASE c = "NL"
  <2>1. /\ e \in Displayed(bytes)
        /\ \/ e.mem = d.mem /\ Cursor(e) >= cur
           \/ /\ Cursor(e) = LastRow
              /\ \A i \in Cells : e.mem[i] =
                    IF i < LastRow THEN d.mem[i + NumCols] ELSE "SP"
    BY <1>5, NewlineEffect
  <2>2. cur \in Nat /\ Cursor(e) \in Nat
    <3>1. \A p \in Displayed(bytes) : Cursor(p) \in Nat
      <4> TAKE p \in Displayed(bytes)
      <4>1. Cursor(p) \in Cells
        BY CursorInCells DEF Cursor, Displayed
      <4> QED
        BY <1>1, <4>1
    <3> QED
      BY <2>1, <3>1
  <2> HIDE DEF e, cur
  <2>3. CASE e.mem = d.mem /\ Cursor(e) >= cur
    <3> SUFFICES ASSUME NEW i \in Cells, i >= Cursor(e)
                 PROVE  e.mem[i] \in {"SP", "?"}
      BY <2>1 DEF BlankFrom, e
    <3>1. i >= cur
      BY <1>1, <2>2, <2>3
    <3> QED
      BY <2>3, <3>1 DEF BlankFrom, cur
  <2>4. CASE /\ Cursor(e) = LastRow
             /\ \A i \in Cells : e.mem[i] =
                  IF i < LastRow THEN d.mem[i + NumCols] ELSE "SP"
    <3>1. \A i \in Cells : i >= LastRow => e.mem[i] = "SP"
      BY <1>1, <2>4, Sizes
    <3> QED
      BY <2>1, <2>4, <3>1 DEF BlankFrom, e
  <2> QED
    BY <2>1, <2>3, <2>4
<1> QED
  BY <1>4, <1>5

LEMMA DeleteKeepsBlank ==
    ASSUME NEW bytes, "SP" \in bytes, NEW d \in Displayed(bytes), BlankFrom(d)
    PROVE  Deleted(d) \in Displayed(bytes) /\ BlankFrom(Deleted(d))
<1> DEFINE e == Deleted(d)
           cur == Cursor(d)
<1>1. /\ e \in Displayed(bytes) /\ cur \in Cells
      /\ cur = 0 => e = d
      /\ cur > 0 => /\ Cursor(e) = cur - 1
                    /\ e.mem = [d.mem EXCEPT ![cur - 1] = "SP"]
  BY DeleteEffect
<1>2. cur \in Nat /\ \A i \in Cells : i \in Nat
  BY <1>1, Sizes DEF Cells
<1>3. d.mem \in [Cells -> bytes]
  BY DEF Displayed
<1> HIDE DEF e, cur
<1>4. CASE cur = 0
  BY <1>1, <1>4 DEF e
<1>5. CASE cur > 0
  <2> SUFFICES ASSUME NEW i \in Cells, i >= cur - 1
               PROVE  e.mem[i] \in {"SP", "?"}
    BY <1>1, <1>5 DEF BlankFrom, e
  <2>1. i = cur - 1 \/ i >= cur
    BY <1>2
  <2> QED
    BY <1>1, <1>3, <1>5, <2>1 DEF BlankFrom, cur
<1> QED
  BY <1>2, <1>4, <1>5

(* Printing keeps the screen well formed and blank from the cursor on,     *)
(* whatever and however much is printed.                                   *)
LEMMA PrintedKeepsBlank ==
    ASSUME NEW bytes, "SP" \in bytes, NEW d \in Displayed(bytes), BlankFrom(d),
           NEW text \in Seq(bytes \cup {"NL", "NUL"})
    PROVE  Printed(d, text) \in Displayed(bytes) /\ BlankFrom(Printed(d, text))
<1> DEFINE f == Printing(d, text)
           Good(e) == e \in Displayed(bytes) /\ BlankFrom(e)
           Reached == {n \in Nat : n <= Len(text) => Good(f[n])}
<1>1. /\ Len(text) \in Nat
      /\ f[0] = d
      /\ \A n \in 1 .. Len(text) :
            f[n] = IF text[n] = "NUL" THEN f[n - 1] ELSE PutC(f[n - 1], text[n])
  BY PrintingSteps
<1>2. \A n \in 1 .. Len(text) :
         text[n] # "NUL" => text[n] \in bytes \cup {"NL"}
  OBVIOUS
<1>3. \A e, c : Good(e) /\ c \in bytes \cup {"NL"} => Good(PutC(e, c))
  BY PutCKeepsBlank
<1> HIDE DEF f, Good
<1>4. 0 \in Reached
  BY <1>1 DEF Good
<1>5. \A n \in Reached : n + 1 \in Reached
  <2> SUFFICES ASSUME NEW n \in Nat, Good(f[n]), n + 1 <= Len(text)
               PROVE  Good(f[n + 1])
    BY <1>1
  <2>1. n + 1 \in 1 .. Len(text) /\ (n + 1) - 1 = n
    BY <1>1
  <2>2. f[n + 1] = IF text[n + 1] = "NUL" THEN f[n] ELSE PutC(f[n], text[n + 1])
    BY <1>1, <2>1
  <2> QED
    BY <1>2, <1>3, <2>1, <2>2
<1>6. Reached = Nat
  <2>1. Reached \subseteq Nat
    OBVIOUS
  <2> HIDE DEF Reached
  <2> QED
    BY <1>4, <1>5, <2>1, Induction
<1>7. Good(f[Len(text)])
  <2>1. Len(text) \in Reached
    BY <1>1, <1>6
  <2> QED
    BY <1>1, <2>1
<1> QED
  BY <1>7 DEF Good, f, Printed

=============================================================================
