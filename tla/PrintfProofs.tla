---------------------------- MODULE PrintfProofs ----------------------------
(***************************************************************************)
(* The proof that printf prints its numbers as they are, for words of any  *)
(* width, any format and any arguments.                                    *)
(***************************************************************************)
EXTENDS Printf, TLAPS, WellFoundedInduction, FiniteSetTheorems

-----------------------------------------------------------------------------
(* Induction, through the least number there is.                           *)

(* Every set of numbers that is not empty has a least element.             *)
LEMMA LeastElement ==
    ASSUME NEW S, S \subseteq Nat, S # {}
    PROVE  \E least \in S : \A n \in S : least <= n
<1> DEFINE Less == OpToRel(<, Nat)
<1>1. IsWellFoundedOn(Less, Nat)
  BY NatLessThanWellFounded
<1>2. \A m, n \in Nat : m < n => <<m, n>> \in Less
  BY DEF OpToRel
<1> HIDE DEF Less
<1>3. PICK least \in S : \A n \in S : ~ (<<n, least>> \in Less)
  BY <1>1, WFMin
<1>4. \A n \in S : ~ (n < least)
  BY <1>2, <1>3
<1> QED
  BY <1>4

(* Induction on numbers.                                                   *)
LEMMA Induction ==
    ASSUME NEW S, S \subseteq Nat, 0 \in S, \A n \in S : n + 1 \in S
    PROVE  S = Nat
<1> DEFINE Rest == Nat \ S
<1> SUFFICES ASSUME Rest # {} PROVE FALSE
  OBVIOUS
<1>1. PICK least \in Rest : \A n \in Rest : least <= n
  <2>1. Rest \subseteq Nat
    OBVIOUS
  <2> HIDE DEF Rest
  <2> QED
    BY <2>1, LeastElement
<1>2. least - 1 \in Nat /\ least - 1 \notin Rest
  BY <1>1
<1> QED
  BY <1>1, <1>2

-----------------------------------------------------------------------------
(* itoa: its digits, and what they read back as.                           *)

Radixes == {10, 16}

(* Words are the numbers below their size.                                 *)
LEMMA WordFacts ==
    /\ HighBit \in Nat /\ HighBit > 0
    /\ WordSize \in Nat /\ WordSize = 2 * HighBit
    /\ \A w \in MachineWords : w \in Nat /\ w < WordSize
BY PrintfAssumption DEF WordSize, MachineWords

(* A round of itoa splits off the lowest place.                            *)
LEMMA Division ==
    ASSUME NEW v \in Nat, NEW radix \in Radixes
    PROVE  /\ v \div radix \in Nat /\ v % radix \in 0 .. radix - 1
           /\ v = (v \div radix) * radix + (v % radix)
           /\ v > 0 => v \div radix < v
           /\ \A w \in Nat : w <= v => w \div radix <= v \div radix
<1>1. CASE radix = 10
  BY <1>1
<1>2. CASE radix = 16
  BY <1>2
<1> QED
  BY <1>1, <1>2 DEF Radixes

(* Every digit has a character of its own.                                 *)
LEMMA DigitFacts ==
    /\ \A d \in 0 .. 15 : Lookup[d] \in Nat /\ DigitOf(Lookup[d]) = d
    /\ \A d \in 1 .. 15 : Lookup[d] # Lookup[0]
<1>1. \A d, e \in 0 .. 15 : Lookup[d] = Lookup[e] => d = e
  BY DEF Lookup
<1>2. \A d \in 0 .. 15 : Lookup[d] \in Nat
  BY DEF Lookup
<1>3. ASSUME NEW d \in 0 .. 15 PROVE DigitOf(Lookup[d]) = d
  <2> DEFINE c == Lookup[d]
  <2>1. \E e \in 0 .. 15 : Lookup[e] = c
    OBVIOUS
  <2>2. DigitOf(c) \in 0 .. 15 /\ Lookup[DigitOf(c)] = c
    <3> HIDE DEF c
    <3> QED
      BY <2>1 DEF DigitOf
  <2> QED
    BY <1>1, <2>2
<1>4. \A d \in 1 .. 15 : d \in 0 .. 15 /\ 0 \in 0 .. 15 /\ d # 0
  OBVIOUS
<1> QED
  BY <1>1, <1>2, <1>3, <1>4

PlaceOf(f, radix, v) ==
    IF v = 0 THEN <<>> ELSE <<Lookup[v % radix]>> \o f[v \div radix]

(* The loop of itoa is defined for every word: each round has less left.   *)
LEMMA PlacesExist ==
    ASSUME NEW radix \in Radixes
    PROVE  \A v \in MachineWords : Places(radix)[v] = PlaceOf(Places(radix), radix, v)
<1> DEFINE IsUpto(f, m) ==
             f = [v \in MachineWords |-> IF v < m THEN PlaceOf(f, radix, v) ELSE <<>>]
           Reached == {m \in Nat : \E f : IsUpto(f, m)}
<1>1. \A v \in MachineWords : v > 0 => /\ v \div radix \in MachineWords
                                       /\ v \div radix < v
  <2> SUFFICES ASSUME NEW v \in MachineWords, v > 0
               PROVE  v \div radix \in MachineWords /\ v \div radix < v
    OBVIOUS
  <2>1. v \in Nat /\ v < WordSize /\ WordSize \in Nat
    BY WordFacts
  <2> DEFINE q == v \div radix
  <2>2. q \in Nat /\ q < v
    BY <2>1, Division
  <2> HIDE DEF q
  <2>3. q \in MachineWords
    BY <2>1, <2>2 DEF MachineWords
  <2> QED
    BY <2>2, <2>3 DEF q
<1>2. 0 \in Reached
  <2>1. \A v \in MachineWords : ~ (v < 0)
    BY WordFacts
  <2>2. IsUpto([v \in MachineWords |-> <<>>], 0)
    BY <2>1
  <2> QED
    BY <2>2
<1>3. \A m \in Reached : m + 1 \in Reached
  <2> SUFFICES ASSUME NEW m \in Reached PROVE m + 1 \in Reached
    OBVIOUS
  <2>1. PICK f : IsUpto(f, m)
    OBVIOUS
  <2>2. m \in Nat
    OBVIOUS
  <2> DEFINE g == [v \in MachineWords |-> IF v < m + 1 THEN PlaceOf(f, radix, v)
                                          ELSE <<>>]
  <2>3. ASSUME NEW v \in MachineWords, v < m + 1
        PROVE  PlaceOf(f, radix, v) = PlaceOf(g, radix, v)
    <3>1. CASE v = 0
      BY <3>1 DEF PlaceOf
    <3>2. CASE v > 0
      <4> DEFINE q == v \div radix
      <4>1. q \in MachineWords /\ q < v /\ v \in Nat
        BY <1>1, <3>2, WordFacts
      <4> HIDE DEF q
      <4>2. q \in Nat /\ q < m /\ q < m + 1
        BY <2>2, <2>3, <4>1, WordFacts
      <4>3. f[q] = PlaceOf(f, radix, q) /\ g[q] = PlaceOf(f, radix, q)
        BY <2>1, <4>1, <4>2
      <4> HIDE DEF g
      <4> QED
        BY <4>3 DEF PlaceOf, q
    <3> QED
      BY <3>1, <3>2, WordFacts
  <2>4. IsUpto(g, m + 1)
    <3> SUFFICES g = [v \in MachineWords |-> IF v < m + 1 THEN PlaceOf(g, radix, v)
                                             ELSE <<>>]
      OBVIOUS
    <3> HIDE DEF g
    <3>1. g = [v \in MachineWords |-> IF v < m + 1 THEN PlaceOf(f, radix, v)
                                      ELSE <<>>]
      BY DEF g
    <3> QED
      BY <2>3, <3>1
  <2>5. \E h : IsUpto(h, m + 1)
    <3> HIDE DEF g, IsUpto
    <3> QED
      BY <2>4
  <2> HIDE DEF g, IsUpto
  <2> QED
    BY <2>2, <2>5
<1>4. Reached = Nat
  <2>1. Reached \subseteq Nat
    OBVIOUS
  <2> HIDE DEF Reached
  <2> QED
    BY <1>2, <1>3, <2>1, Induction
<1>5. PICK f : IsUpto(f, WordSize)
  <2>1. WordSize \in Reached
    <3> HIDE DEF Reached
    <3> QED
      BY <1>4, WordFacts
  <2> HIDE DEF IsUpto
  <2> QED
    BY <2>1
<1>6. f = [v \in MachineWords |-> PlaceOf(f, radix, v)]
  BY <1>5, WordFacts
<1> DEFINE P == Places(radix)
<1>7. P = CHOOSE p : p = [v \in MachineWords |-> PlaceOf(p, radix, v)]
  BY DEF Places, PlaceOf
<1>8. P = [v \in MachineWords |-> PlaceOf(P, radix, v)]
  <2> HIDE DEF P
  <2> QED
    BY <1>6, <1>7
<1>9. \A v \in MachineWords : P[v] = PlaceOf(P, radix, v)
  <2> HIDE DEF P
  <2> QED
    BY <1>8
<1> QED
  BY <1>9

(* Reading a numeral from the left.                                        *)
ReadAs(g, text, radix) ==
    g = [n \in 0 .. Len(text) |->
            IF n = 0 THEN 0 ELSE g[n - 1] * radix + DigitOf(text[n])]

Reads(text, radix, value) == \E g : ReadAs(g, text, radix) /\ g[Len(text)] = value

(* Reading from the left, digit by digit.                                  *)
LEMMA ReadFacts ==
    ASSUME NEW g, NEW text, NEW radix, ReadAs(g, text, radix), Len(text) \in Nat
    PROVE  /\ g[0] = 0
           /\ \A n \in 1 .. Len(text) : g[n] = g[n - 1] * radix + DigitOf(text[n])
<1>1. \A n \in 0 .. Len(text) :
        g[n] = IF n = 0 THEN 0 ELSE g[n - 1] * radix + DigitOf(text[n])
  BY DEF ReadAs
<1> QED
  BY <1>1

(* Numeral is recursive; what it reads is what any such reading gives.     *)
LEMMA ReadsNumeral ==
    ASSUME NEW radix, NEW text, Len(text) \in Nat, NEW value, Reads(text, radix, value)
    PROVE  Numeral(text, radix) = value
<1>1. PICK g : ReadAs(g, text, radix) /\ g[Len(text)] = value
  BY DEF Reads
<1> DEFINE f == CHOOSE f : ReadAs(f, text, radix)
<1>2. ReadAs(f, text, radix)
  <2> HIDE DEF ReadAs
  <2> QED
    BY <1>1
<1>3. Numeral(text, radix) = f[Len(text)]
  BY DEF Numeral, ReadAs
<1> HIDE DEF f
<1> DEFINE Same == {n \in Nat : n <= Len(text) => f[n] = g[n]}
<1>4. 0 \in Same
  BY <1>1, <1>2, ReadFacts
<1>5. ASSUME NEW n \in Same PROVE n + 1 \in Same
  <2>1. n \in Nat /\ (n <= Len(text) => f[n] = g[n])
    OBVIOUS
  <2>2. ASSUME n + 1 <= Len(text) PROVE f[n + 1] = g[n + 1]
    <3>1. n + 1 \in 1 .. Len(text) /\ n <= Len(text) /\ (n + 1) - 1 = n
      BY <2>1, <2>2
    <3>2. /\ f[n + 1] = f[(n + 1) - 1] * radix + DigitOf(text[n + 1])
          /\ g[n + 1] = g[(n + 1) - 1] * radix + DigitOf(text[n + 1])
      BY <1>1, <1>2, <3>1, ReadFacts
    <3> QED
      BY <2>1, <3>1, <3>2
  <2> QED
    BY <2>1, <2>2
<1>6. Same = Nat
  <2>1. Same \subseteq Nat
    OBVIOUS
  <2> HIDE DEF Same
  <2> QED
    BY <1>4, <1>5, <2>1, Induction
<1>7. Len(text) \in Same
  BY <1>6
<1> QED
  BY <1>1, <1>3, <1>7

(* No digits read as zero.                                                 *)
LEMMA ReadsEmpty ==
    ASSUME NEW radix, NEW text, Len(text) = 0
    PROVE  Reads(text, radix, 0)
<1> DEFINE g == [n \in 0 .. Len(text) |-> 0]
<1>1. g[0] = 0
  OBVIOUS
<1>2. ReadAs(g, text, radix)
  BY DEF ReadAs
<1> HIDE DEF g
<1> QED
  BY <1>1, <1>2 DEF Reads

(* One more digit is one more place.                                       *)
LEMMA ReadsAppend ==
    ASSUME NEW radix, NEW text \in Seq(Nat), NEW value, Reads(text, radix, value),
           NEW char \in Nat
    PROVE  Reads(Append(text, char), radix, value * radix + DigitOf(char))
<1>1. PICK g : ReadAs(g, text, radix) /\ g[Len(text)] = value
  BY DEF Reads
<1> DEFINE L == Len(text)
           longer == Append(text, char)
           last == value * radix + DigitOf(char)
           h == [n \in 0 .. L + 1 |-> IF n = L + 1 THEN last ELSE g[n]]
<1>2. /\ L \in Nat /\ Len(longer) = L + 1 /\ longer[L + 1] = char
      /\ \A n \in 1 .. L : longer[n] = text[n]
  OBVIOUS
<1>3. /\ g[0] = 0
      /\ \A n \in 1 .. L : g[n] = g[n - 1] * radix + DigitOf(text[n])
  BY <1>1, <1>2, ReadFacts
<1>4. h[0] = 0 /\ h[L + 1] = last /\ \A n \in 0 .. L : h[n] = g[n]
  BY <1>2, <1>3
<1>5. h = [n \in 0 .. L + 1 |-> h[n]]
  OBVIOUS
<1> HIDE DEF longer, h, L
<1>6. \A n \in 0 .. L + 1 :
        h[n] = IF n = 0 THEN 0 ELSE h[n - 1] * radix + DigitOf(longer[n])
  <2> SUFFICES ASSUME NEW n \in 0 .. L + 1, n # 0
               PROVE  h[n] = h[n - 1] * radix + DigitOf(longer[n])
    BY <1>4
  <2>1. CASE n = L + 1
    <3>1. n - 1 = L /\ L \in 0 .. L
      BY <1>2, <2>1
    <3>2. h[n - 1] = value
      BY <1>1, <1>4, <3>1 DEF L
    <3> QED
      BY <1>2, <1>4, <2>1, <3>2
  <2>2. CASE n # L + 1
    <3>1. n \in 1 .. L /\ n \in 0 .. L /\ n - 1 \in 0 .. L
      BY <1>2, <2>2
    <3> QED
      BY <1>2, <1>3, <1>4, <3>1
  <2> QED
    BY <2>1, <2>2
<1>7. ReadAs(h, longer, radix)
  <2>1. h = [n \in 0 .. L + 1 |->
               IF n = 0 THEN 0 ELSE h[n - 1] * radix + DigitOf(longer[n])]
    BY <1>5, <1>6
  <2> QED
    BY <1>2, <2>1 DEF ReadAs
<1>8. h[Len(longer)] = last
  BY <1>2, <1>4
<1>9. Reads(longer, radix, last)
  BY <1>7, <1>8 DEF Reads
<1> QED
  BY <1>9 DEF longer

(* Zeros in front do not change what is read.                              *)
LEMMA ReadsPadded ==
    ASSUME NEW radix \in Nat, NEW text \in Seq(Nat), NEW value, Reads(text, radix, value),
           NEW k \in Nat
    PROVE  Reads([i \in 1 .. k |-> Lookup[0]] \o text, radix, value)
<1>1. PICK g : ReadAs(g, text, radix) /\ g[Len(text)] = value
  BY DEF Reads
<1> DEFINE L == Len(text)
           zeros == [i \in 1 .. k |-> Lookup[0]]
           longer == zeros \o text
           h == [n \in 0 .. k + L |-> IF n <= k THEN 0 ELSE g[n - k]]
<1>2. /\ L \in Nat /\ Len(longer) = k + L
      /\ \A n \in 1 .. k : longer[n] = Lookup[0]
      /\ \A n \in k + 1 .. k + L : longer[n] = text[n - k]
  <2>1. zeros \in Seq(Nat) /\ Len(zeros) = k
    BY DigitFacts
  <2>2. \A n \in 1 .. k : zeros[n] = Lookup[0]
    OBVIOUS
  <2> HIDE DEF zeros
  <2> QED
    BY <2>1, <2>2
<1>3. /\ g[0] = 0
      /\ \A n \in 1 .. L : g[n] = g[n - 1] * radix + DigitOf(text[n])
  BY <1>1, <1>2, ReadFacts
<1>4. /\ \A n \in 0 .. k : h[n] = 0
      /\ \A n \in k .. k + L : h[n] = g[n - k]
  <2>1. \A n \in 0 .. k + L : h[n] = IF n <= k THEN 0 ELSE g[n - k]
    OBVIOUS
  <2> HIDE DEF h
  <2>2. \A n \in 0 .. k : n \in 0 .. k + L /\ n <= k
    BY <1>2
  <2>3. \A n \in k .. k + L : n \in 0 .. k + L /\ (n <= k => n - k = 0)
    BY <1>2
  <2> QED
    BY <1>3, <2>1, <2>2, <2>3
<1>5. h = [n \in 0 .. k + L |-> h[n]]
  OBVIOUS
<1> HIDE DEF zeros, longer, h, L
<1>6. \A n \in 0 .. k + L :
        h[n] = IF n = 0 THEN 0 ELSE h[n - 1] * radix + DigitOf(longer[n])
  <2> SUFFICES ASSUME NEW n \in 0 .. k + L, n # 0
               PROVE  h[n] = h[n - 1] * radix + DigitOf(longer[n])
    BY <1>4
  <2>1. CASE n <= k
    <3>1. n \in 1 .. k /\ n \in 0 .. k /\ n - 1 \in 0 .. k
      BY <2>1
    <3>2. h[n] = 0 /\ h[n - 1] = 0
      BY <1>4, <3>1
    <3>4. 0 \in 0 .. 15
      OBVIOUS
    <3>5. DigitOf(longer[n]) = 0
      BY <1>2, <3>1, <3>4, DigitFacts
    <3>3. 0 * radix + 0 = 0
      OBVIOUS
    <3> QED
      BY <3>2, <3>3, <3>5
  <2>2. CASE n > k
    <3>1. /\ n \in k + 1 .. k + L /\ n \in k .. k + L /\ n - 1 \in k .. k + L
          /\ n - k \in 1 .. L /\ (n - 1) - k = (n - k) - 1
      BY <1>2, <2>2
    <3>2. h[n] = g[n - k] /\ h[n - 1] = g[(n - k) - 1] /\ longer[n] = text[n - k]
      BY <1>2, <1>4, <3>1
    <3> QED
      BY <1>3, <3>1, <3>2
  <2> QED
    BY <2>1, <2>2
<1>7. ReadAs(h, longer, radix)
  <2>1. h = [n \in 0 .. k + L |->
               IF n = 0 THEN 0 ELSE h[n - 1] * radix + DigitOf(longer[n])]
    BY <1>5, <1>6
  <2> QED
    BY <1>2, <2>1 DEF ReadAs
<1>8. h[Len(longer)] = value
  <2>1. Len(longer) \in k .. k + L /\ Len(longer) - k = L
    BY <1>2
  <2> QED
    BY <1>1, <1>4, <2>1 DEF L
<1>9. Reads(longer, radix, value)
  BY <1>7, <1>8 DEF Reads
<1> QED
  BY <1>9 DEF longer, zeros

(* The digits of a word, from the lowest place up, and reversed.           *)
DigitChars(radix) == {Lookup[d] : d \in 0 .. radix - 1}

PlacesAreRight(radix, v) ==
    LET digits == Places(radix)[v]
    IN /\ digits \in Seq(DigitChars(radix))
       /\ Reads(Reverse(digits), radix, v)
       /\ v > 0 => Len(digits) > 0 /\ digits[Len(digits)] # Lookup[0]

(* strrev: what was appended last comes first.                             *)
LEMMA Reversed ==
    ASSUME NEW S, NEW s \in Seq(S)
    PROVE  /\ Reverse(s) \in Seq(S) /\ Len(Reverse(s)) = Len(s)
           /\ Len(s) > 0 => Reverse(s)[1] = s[Len(s)]
           /\ \A c \in S : Reverse(<<c>> \o s) = Append(Reverse(s), c)
<1>1. Len(s) \in Nat /\ \A i \in 1 .. Len(s) : s[i] \in S
  OBVIOUS
<1>2. Reverse(s) \in Seq(S) /\ Len(Reverse(s)) = Len(s)
  BY <1>1 DEF Reverse
<1>3. Len(s) > 0 => Reverse(s)[1] = s[Len(s)]
  BY <1>1 DEF Reverse
<1>4. ASSUME NEW c \in S PROVE Reverse(<<c>> \o s) = Append(Reverse(s), c)
  <2> DEFINE t == <<c>> \o s
  <2>1. /\ t \in Seq(S) /\ Len(t) = Len(s) + 1 /\ t[1] = c
        /\ \A i \in 1 .. Len(s) : t[i + 1] = s[i]
    BY <1>1
  <2> HIDE DEF t
  <2>2. /\ Reverse(t) \in Seq(S) /\ Len(Reverse(t)) = Len(s) + 1
        /\ \A i \in 1 .. Len(s) + 1 : Reverse(t)[i] = t[(Len(s) + 1 - i) + 1]
    BY <1>1, <2>1 DEF Reverse
  <2> DEFINE a == Append(Reverse(s), c)
  <2>3. /\ a \in Seq(S) /\ Len(a) = Len(s) + 1 /\ a[Len(s) + 1] = c
        /\ \A i \in 1 .. Len(s) : a[i] = Reverse(s)[i]
    BY <1>1, <1>2
  <2> HIDE DEF a
  <2>4. \A i \in 1 .. Len(s) + 1 : Reverse(t)[i] = a[i]
    <3> SUFFICES ASSUME NEW i \in 1 .. Len(s) + 1 PROVE Reverse(t)[i] = a[i]
      OBVIOUS
    <3>1. CASE i = Len(s) + 1
      <4>1. (Len(s) + 1 - i) + 1 = 1
        BY <1>1, <3>1
      <4> QED
        BY <2>1, <2>2, <2>3, <3>1, <4>1
    <3>2. CASE i \in 1 .. Len(s)
      <4> DEFINE j == Len(s) - i + 1
      <4>1. j \in 1 .. Len(s) /\ (Len(s) + 1 - i) + 1 = j + 1
        BY <1>1, <3>2
      <4>2. Reverse(s)[i] = s[j]
        BY <1>1, <3>2 DEF Reverse
      <4> HIDE DEF j
      <4> QED
        BY <2>1, <2>2, <2>3, <3>2, <4>1, <4>2
    <3> QED
      BY <1>1, <3>1, <3>2
  <2>5. Reverse(t) = a
    BY <2>2, <2>3, <2>4
  <2> QED
    BY <2>5 DEF t, a
<1> QED
  BY <1>2, <1>3, <1>4

(* A sequence over a set is one over any larger set.                       *)
LEMMA LargerSeq ==
    ASSUME NEW S, NEW T, S \subseteq T, NEW s \in Seq(S)
    PROVE  s \in Seq(T)
<1>1. Len(s) \in Nat /\ s = [i \in 1 .. Len(s) |-> s[i]] /\ \A i \in 1 .. Len(s) : s[i] \in S
  OBVIOUS
<1>2. [i \in 1 .. Len(s) |-> s[i]] \in Seq(T)
  BY <1>1
<1> QED
  BY <1>1, <1>2

(* Characters of digits are codes.                                         *)
LEMMA DigitChar ==
    ASSUME NEW radix \in Radixes
    PROVE  /\ DigitChars(radix) \subseteq Nat
           /\ \A v \in Nat : Lookup[v % radix] \in DigitChars(radix)
           /\ Lookup[0] \in DigitChars(radix)
           /\ \A d \in 0 .. radix - 1 : d \in 0 .. 15
           /\ radix \in Nat /\ 0 \in 0 .. radix - 1
<1>1. radix \in Nat /\ 0 \in 0 .. radix - 1 /\ \A d \in 0 .. radix - 1 : d \in 0 .. 15
  BY DEF Radixes
<1>2. \A d \in 0 .. radix - 1 : Lookup[d] \in Nat
  BY <1>1, DigitFacts
<1>3. \A v \in Nat : v % radix \in 0 .. radix - 1
  BY Division
<1>4. DigitChars(radix) \subseteq Nat
  BY <1>2 DEF DigitChars
<1>5. \A d \in 0 .. radix - 1 : Lookup[d] \in DigitChars(radix)
  BY DEF DigitChars
<1> QED
  BY <1>1, <1>3, <1>4, <1>5

(* One round of the loop.                                                  *)
LEMMA PlacesUnfold ==
    ASSUME NEW radix \in Radixes, NEW v \in MachineWords
    PROVE  /\ v = 0 => Places(radix)[v] = <<>>
           /\ v > 0 => Places(radix)[v] = <<Lookup[v % radix]>> \o Places(radix)[v \div radix]
<1> DEFINE P == Places(radix)
<1>1. P[v] = PlaceOf(P, radix, v)
  BY PlacesExist
<1>2. v > 0 => v # 0
  BY WordFacts
<1> HIDE DEF P
<1>3. /\ v = 0 => P[v] = <<>>
      /\ v > 0 => P[v] = <<Lookup[v % radix]>> \o P[v \div radix]
  BY <1>1, <1>2 DEF PlaceOf
<1> QED
  BY <1>3 DEF P

(* If the loop is right for what is left of a word, it is for the word.    *)
LEMMA PlacesStep ==
    ASSUME NEW radix \in Radixes, NEW v \in MachineWords, v > 0,
           PlacesAreRight(radix, v \div radix)
    PROVE  PlacesAreRight(radix, v)
<1> DEFINE P == Places(radix)
           q == v \div radix
           d == v % radix
           c == Lookup[d]
           S == DigitChars(radix)
<1>1. v \in Nat
  BY WordFacts
<1>2. q \in Nat /\ d \in 0 .. radix - 1 /\ v = q * radix + d
  BY <1>1, Division
<1>3. P[v] = <<c>> \o P[q]
  BY PlacesUnfold
<1>4. c \in S /\ c \in Nat /\ S \subseteq Nat
  BY <1>1, DigitChar
<1>5. DigitOf(c) = d /\ (d # 0 => c # Lookup[0])
  <2>1. d \in 0 .. 15 /\ (d # 0 => d \in 1 .. 15)
    BY <1>2, DigitChar
  <2> QED
    BY <2>1, DigitFacts
<1>6. /\ P[q] \in Seq(S) /\ Reads(Reverse(P[q]), radix, q)
      /\ q > 0 => Len(P[q]) > 0 /\ P[q][Len(P[q])] # Lookup[0]
  BY DEF PlacesAreRight
<1> HIDE DEF P, S, c, q, d
<1>7. P[v] \in Seq(S) /\ Len(P[v]) = Len(P[q]) + 1 /\ Len(P[q]) \in Nat
  BY <1>3, <1>4, <1>6
<1>8. Reads(Reverse(P[v]), radix, v)
  <2>1. Reverse(P[v]) = Append(Reverse(P[q]), c) /\ Reverse(P[q]) \in Seq(S)
    BY <1>3, <1>4, <1>6, Reversed
  <2>2. Reverse(P[q]) \in Seq(Nat)
    BY <1>4, <2>1, LargerSeq
  <2>3. Reads(Append(Reverse(P[q]), c), radix, q * radix + DigitOf(c))
    BY <1>4, <1>6, <2>2, ReadsAppend
  <2> QED
    BY <1>2, <1>5, <2>1, <2>3
<1>9. P[v][Len(P[v])] # Lookup[0]
  <2>1. CASE q = 0
    <3>1. P[q] = <<>>
      <4>1. 0 \in MachineWords
        BY WordFacts DEF MachineWords
      <4>2. Places(radix)[0] = <<>>
        BY <4>1, PlacesUnfold
      <4> QED
        BY <2>1, <4>2 DEF P
    <3>2. P[v] = <<c>>
      BY <1>3, <3>1
    <3>3. d # 0
      BY <1>1, <1>2, <2>1, DigitChar
    <3> QED
      BY <1>5, <3>2, <3>3
  <2>2. CASE q > 0
    <3>1. P[v][Len(P[q]) + 1] = P[q][Len(P[q])]
      BY <1>3, <1>6, <2>2
    <3> QED
      BY <1>6, <1>7, <2>2, <3>1
  <2> QED
    BY <1>2, <2>1, <2>2
<1> QED
  BY <1>7, <1>8, <1>9 DEF PlacesAreRight, P, S

(* The loop is right for every word, by induction.                         *)
LEMMA PlacesRight ==
    ASSUME NEW radix \in Radixes
    PROVE  \A v \in MachineWords : PlacesAreRight(radix, v)
<1> DEFINE Bad == {v \in MachineWords : ~PlacesAreRight(radix, v)}
<1> SUFFICES ASSUME Bad # {} PROVE FALSE
  OBVIOUS
<1>1. PICK v \in Bad : \A w \in Bad : v <= w
  <2>1. Bad \subseteq Nat
    BY WordFacts
  <2> HIDE DEF Bad
  <2> QED
    BY <2>1, LeastElement
<1>2. v \in MachineWords /\ v \in Nat /\ v < WordSize /\ WordSize \in Nat
  BY WordFacts
<1>3. CASE v = 0
  <2>1. Places(radix)[v] = <<>>
    BY <1>2, <1>3, PlacesUnfold
  <2>2. Len(Reverse(<<>>)) = 0
    BY DEF Reverse
  <2>3. Reads(Reverse(<<>>), radix, 0)
    BY <2>2, ReadsEmpty
  <2>4. <<>> \in Seq(DigitChars(radix))
    OBVIOUS
  <2>5. PlacesAreRight(radix, v)
    <3> HIDE DEF Bad
    <3> QED
      BY <1>3, <2>1, <2>3, <2>4 DEF PlacesAreRight
  <2> QED
    BY <2>5
<1>4. CASE v > 0
  <2> DEFINE q == v \div radix
  <2>1. q \in Nat /\ q < v
    BY <1>2, <1>4, Division
  <2>2. q \in MachineWords
    BY <1>2, <2>1 DEF MachineWords
  <2>3. PlacesAreRight(radix, q)
    <3>1. ~ (v <= q)
      BY <1>2, <2>1
    <3> HIDE DEF q
    <3> QED
      BY <1>1, <2>2, <3>1
  <2>4. PlacesAreRight(radix, v)
    BY <1>2, <1>4, <2>3, PlacesStep
  <2> QED
    BY <2>4
<1> QED
  BY <1>2, <1>3, <1>4

(* A smaller number has no more digits.                                    *)
LEMMA PlacesGrow ==
    ASSUME NEW radix \in Radixes, NEW x \in MachineWords
    PROVE  \A y \in MachineWords : x <= y => Len(Places(radix)[x]) <= Len(Places(radix)[y])
<1> DEFINE P == Places(radix)
           Bad == {v \in MachineWords :
                     \E w \in MachineWords : v <= w /\ ~ (Len(P[v]) <= Len(P[w]))}
<1>1. \A v \in MachineWords : Len(P[v]) \in Nat
  <2>1. \A v \in MachineWords : P[v] \in Seq(DigitChars(radix))
    BY PlacesRight DEF PlacesAreRight
  <2> HIDE DEF P
  <2> QED
    BY <2>1
<1>2. ASSUME NEW v \in MachineWords
      PROVE  /\ v = 0 => Len(P[v]) = 0
             /\ v > 0 => v \div radix \in MachineWords /\ v \div radix < v
                         /\ Len(P[v]) = Len(P[v \div radix]) + 1
  <2>1. v \in Nat /\ v < WordSize /\ WordSize \in Nat
    BY WordFacts
  <2>2. v \div radix \in Nat /\ (v > 0 => v \div radix < v)
    BY <2>1, Division
  <2>3. v > 0 => v \div radix \in MachineWords
    BY <2>1, <2>2 DEF MachineWords
  <2>4. /\ v = 0 => P[v] = <<>>
        /\ v > 0 => P[v] = <<Lookup[v % radix]>> \o P[v \div radix]
    BY PlacesUnfold
  <2>6. v > 0 => P[v \div radix] \in Seq(Nat) /\ Lookup[v % radix] \in Nat
    <3> DEFINE q == v \div radix
               S == DigitChars(radix)
    <3>1. v > 0 => P[q] \in Seq(S)
      BY <2>3, PlacesRight DEF PlacesAreRight
    <3>2. S \subseteq Nat /\ Lookup[v % radix] \in S
      BY <2>1, DigitChar
    <3>3. v > 0 => P[q] \in Seq(Nat)
      <4> DEFINE digits == P[q]
      <4> HIDE DEF S, digits
      <4>1. digits \in Seq(S) => digits \in Seq(Nat)
        BY <3>2, LargerSeq
      <4> QED
        BY <3>1, <4>1 DEF digits
    <3> QED
      BY <3>2, <3>3
  <2> DEFINE s == P[v \div radix]
             c == Lookup[v % radix]
  <2> HIDE DEF s, c, P
  <2>7. v > 0 => s \in Seq(Nat) /\ c \in Nat /\ P[v] = <<c>> \o s
    BY <2>4, <2>6 DEF s, c
  <2>8. v > 0 => Len(P[v]) = Len(s) + 1
    BY <2>7
  <2> QED
    BY <2>2, <2>3, <2>4, <2>8 DEF s
<1> SUFFICES ASSUME Bad # {} PROVE FALSE
  OBVIOUS
<1>3. PICK v \in Bad : \A u \in Bad : v <= u
  <2>1. Bad \subseteq Nat
    BY WordFacts
  <2> HIDE DEF Bad
  <2> QED
    BY <2>1, LeastElement
<1>4. v \in MachineWords /\ v \in Nat
  BY WordFacts
<1>5. PICK w \in MachineWords : v <= w /\ ~ (Len(P[v]) <= Len(P[w]))
  OBVIOUS
<1> HIDE DEF P
<1>6. w \in Nat
  BY WordFacts
<1>7. v > 0 /\ w > 0
  BY <1>1, <1>2, <1>4, <1>5, <1>6
<1> DEFINE q == v \div radix
           r == w \div radix
<1>8. q \in MachineWords /\ r \in MachineWords /\ q <= r /\ q < v
  <2>1. q <= r
    BY <1>4, <1>5, <1>6, Division
  <2> QED
    BY <1>2, <1>4, <1>7, <2>1
<1>9. Len(P[v]) = Len(P[q]) + 1 /\ Len(P[w]) = Len(P[r]) + 1
  BY <1>2, <1>4, <1>7
<1> HIDE DEF q, r
<1>10. q \notin Bad
  <2>1. q \in Nat /\ ~ (v <= q)
    BY <1>4, <1>8, WordFacts
  <2> QED
    BY <1>3, <2>1
<1>11. Len(P[q]) <= Len(P[r])
  BY <1>8, <1>10
<1> QED
  BY <1>1, <1>5, <1>8, <1>9, <1>11

(* What IsNumeral asks, from how the text reads.                           *)
LEMMA NumeralFrom ==
    ASSUME NEW radix \in Radixes, NEW text \in Seq(DigitChars(radix)), Len(text) > 0,
           NEW value, Reads(text, radix, value), NEW length,
           IF length = 0 THEN Len(text) = 1 \/ text[1] # Lookup[0] ELSE Len(text) = length
    PROVE  IsNumeral(text, radix, value, length)
<1>1. Len(text) \in Nat /\ text # <<>> /\ \A i \in DOMAIN text : text[i] \in DigitChars(radix)
  OBVIOUS
<1>2. Numeral(text, radix) = value
  BY <1>1, ReadsNumeral
<1> QED
  BY <1>1, <1>2 DEF IsNumeral, DigitChars

(* What itoa returns: digits that read as the word, none too many.         *)
LEMMA ItoaDigits ==
    ASSUME NEW radix \in Radixes, NEW v \in MachineWords
    PROVE  /\ Itoa(v, radix) \in Seq(DigitChars(radix))
           /\ Reads(Itoa(v, radix), radix, v)
           /\ Len(Itoa(v, radix)) > 0
           /\ Len(Itoa(v, radix)) = 1 \/ Itoa(v, radix)[1] # Lookup[0]
           /\ v > 0 => Len(Itoa(v, radix)) = Len(Places(radix)[v])
<1> DEFINE t == Itoa(v, radix)
           S == DigitChars(radix)
<1>1. v \in Nat
  BY WordFacts
<1>2. CASE v = 0
  <2>1. t = <<Lookup[0]>> /\ Lookup[0] \in S /\ Lookup[0] \in Nat
    BY <1>2, DigitChar DEF Itoa
  <2> DEFINE c == Lookup[0]
  <2> HIDE DEF t, S, c
  <2>2. t = <<c>> /\ c \in S /\ c \in Nat
    BY <2>1 DEF c
  <2>3. t \in Seq(S) /\ Len(t) = 1
    BY <2>2
  <2>4. Reads(t, radix, 0)
    <3>1. Reads(<<>>, radix, 0) /\ <<>> \in Seq(Nat)
      BY ReadsEmpty
    <3>2. Reads(Append(<<>>, c), radix, 0 * radix + DigitOf(c))
      BY <2>2, <3>1, ReadsAppend
    <3>3. DigitOf(c) = 0
      <4>1. 0 \in 0 .. 15
        OBVIOUS
      <4> QED
        BY <4>1, DigitFacts DEF c
    <3>4. Append(<<>>, c) = t
      BY <2>2
    <3>5. 0 * radix + 0 = 0
      BY DigitChar
    <3> QED
      BY <3>2, <3>3, <3>4, <3>5
  <2> QED
    BY <1>2, <2>3, <2>4 DEF t, S
<1>3. CASE v > 0
  <2> DEFINE digits == Places(radix)[v]
  <2>1. /\ digits \in Seq(S) /\ Reads(Reverse(digits), radix, v)
        /\ Len(digits) > 0 /\ digits[Len(digits)] # Lookup[0]
    BY <1>3, PlacesRight DEF PlacesAreRight
  <2>2. t = Reverse(digits)
    BY <1>1, <1>3 DEF Itoa
  <2> HIDE DEF t, S, digits
  <2>3. t \in Seq(S) /\ Len(t) = Len(digits) /\ t[1] = digits[Len(digits)]
    BY <2>1, <2>2, Reversed
  <2>4. /\ t \in Seq(S) /\ Reads(t, radix, v) /\ Len(t) > 0 /\ t[1] # Lookup[0]
        /\ Len(t) = Len(digits)
    BY <2>1, <2>2, <2>3
  <2> QED
    BY <2>4 DEF t, S, digits
<1> QED
  BY <1>1, <1>2, <1>3

(* itoa gives the numeral of every word.                                   *)
LEMMA ItoaReads ==
    ASSUME NEW radix \in Radixes, NEW v \in MachineWords
    PROVE  IsNumeral(Itoa(v, radix), radix, v, 0)
BY ItoaDigits, NumeralFrom

(* Padded to its digits it still is one, of that length.                   *)
LEMMA PaddedReads ==
    ASSUME NEW v \in MachineWords
    PROVE  IsNumeral(Padded(Itoa(v, 16)), 16, v, HexDigits)
<1> DEFINE t == Itoa(v, 16)
           S == DigitChars(16)
           L == Len(t)
           zeros == [i \in 1 .. HexDigits - L |-> Lookup[0]]
<1>1. 16 \in Radixes
  BY DEF Radixes
<1>2. t \in Seq(S) /\ Reads(t, 16, v) /\ L > 0 /\ L \in Nat
  <2>1. t \in Seq(S) /\ Reads(t, 16, v) /\ L > 0
    BY <1>1, ItoaDigits
  <2> HIDE DEF S, t
  <2> QED
    BY <2>1
<1>3. HexDigits \in Nat /\ L <= HexDigits
  <2> DEFINE m == WordSize - 1
             P == Places(16)
  <2>1. /\ m \in MachineWords /\ m > 0 /\ v <= m /\ v \in Nat
        /\ 1 \in MachineWords /\ 1 <= m
    BY WordFacts DEF MachineWords
  <2>2. HexDigits = Len(P[m])
    BY HexDigitsAssumption
  <2>3. Len(P[m]) \in Nat /\ Len(P[m]) > 0
    <3>1. P[m] \in Seq(S) /\ Len(P[m]) > 0
      BY <1>1, <2>1, PlacesRight DEF PlacesAreRight
    <3> HIDE DEF P, m, S
    <3> QED
      BY <3>1
  <2>4. Len(P[v]) <= Len(P[m])
    BY <1>1, <2>1, PlacesGrow
  <2>5. v > 0 => L = Len(P[v])
    BY <1>1, ItoaDigits
  <2>6. v = 0 => L = 1
    <3>1. v = 0 => t = <<Lookup[0]>>
      BY DEF Itoa
    <3> HIDE DEF t
    <3> QED
      BY <3>1
  <2> HIDE DEF P, m, L
  <2> QED
    BY <2>1, <2>2, <2>3, <2>4, <2>5, <2>6
<1>4. Padded(t) = zeros \o t
  BY DEF Padded
<1>5. HexDigits - L \in Nat /\ S \subseteq Nat /\ Lookup[0] \in S
  BY <1>1, <1>2, <1>3, DigitChar
<1>6. zeros \in Seq(S) /\ Len(zeros) = HexDigits - L
  <2> DEFINE k == HexDigits - L
             c == Lookup[0]
  <2> HIDE DEF k, S, c
  <2>1. [i \in 1 .. k |-> c] \in Seq(S) /\ Len([i \in 1 .. k |-> c]) = k
    BY <1>5 DEF k, c
  <2> QED
    BY <2>1 DEF k, c
<1>7. Reads(zeros \o t, 16, v)
  <2>1. t \in Seq(Nat) /\ 16 \in Nat
    BY <1>2, <1>5, LargerSeq
  <2> HIDE DEF t
  <2> QED
    BY <1>2, <1>5, <2>1, ReadsPadded
<1>8. zeros \o t \in Seq(S) /\ Len(zeros \o t) = HexDigits
  <2> HIDE DEF zeros, t, S
  <2> QED
    BY <1>2, <1>3, <1>6
<1>9. IsNumeral(zeros \o t, 16, v, HexDigits)
  <2> HIDE DEF zeros, t, L
  <2>1. HexDigits # 0 /\ HexDigits > 0
    BY <1>2, <1>3
  <2> QED
    BY <1>1, <1>7, <1>8, <2>1, NumeralFrom
<1> QED
  BY <1>4, <1>9

-----------------------------------------------------------------------------
(* printf.                                                                 *)

(* How many arguments are used grows by one with each that is printed.     *)
LEMMA UsedFacts ==
    ASSUME NEW f, NEW k \in Nat
    PROVE  /\ Used(f, k) \in Nat /\ Used(f, 0) = 0
           /\ Used(f, k + 1) = IF Takes(f[k + 1]) THEN Used(f, k) + 1 ELSE Used(f, k)
           /\ \A n \in Nat : k <= n => Used(f, k) <= Used(f, n)
<1> DEFINE Taking(n) == {i \in 1 .. n : Takes(f[i])}
<1>1. \A n \in Nat : IsFiniteSet(Taking(n)) /\ Cardinality(Taking(n)) \in Nat
  <2> SUFFICES ASSUME NEW n \in Nat
               PROVE  IsFiniteSet(Taking(n)) /\ Cardinality(Taking(n)) \in Nat
    OBVIOUS
  <2>1. IsFiniteSet(1 .. n)
    BY FS_Interval
  <2>2. Taking(n) \subseteq 1 .. n
    OBVIOUS
  <2> HIDE DEF Taking
  <2>3. IsFiniteSet(Taking(n))
    BY <2>1, <2>2, FS_Subset
  <2> QED
    BY <2>3, FS_CardinalityType
<1>2. \A n \in Nat : Used(f, n) = Cardinality(Taking(n))
  BY DEF Used
<1>3. Used(f, 0) = 0
  <2>1. Taking(0) = {}
    OBVIOUS
  <2> HIDE DEF Taking
  <2> QED
    BY <1>2, <2>1, FS_EmptySet
<1>4. Used(f, k + 1) = IF Takes(f[k + 1]) THEN Used(f, k) + 1 ELSE Used(f, k)
  <2>1. CASE Takes(f[k + 1])
    <3>1. Taking(k + 1) = Taking(k) \cup {k + 1} /\ k + 1 \notin Taking(k)
      BY <2>1
    <3> HIDE DEF Taking
    <3>2. Cardinality(Taking(k + 1)) = Cardinality(Taking(k)) + 1
      BY <1>1, <3>1, FS_AddElement
    <3> QED
      BY <1>2, <2>1, <3>2
  <2>2. CASE ~Takes(f[k + 1])
    <3>1. Taking(k + 1) = Taking(k)
      BY <2>2
    <3> HIDE DEF Taking
    <3> QED
      BY <1>2, <2>2, <3>1
  <2> QED
    BY <2>1, <2>2
<1>5. ASSUME NEW n \in Nat, k <= n PROVE Used(f, k) <= Used(f, n)
  <2>1. Taking(k) \subseteq Taking(n)
    BY <1>5
  <2> HIDE DEF Taking
  <2> QED
    BY <1>1, <1>2, <2>1, FS_Subset
<1> QED
  <2> HIDE DEF Taking
  <2> QED
    BY <1>1, <1>2, <1>3, <1>4, <1>5

(* What one directive can print.                                           *)
Outputs1 == {Put(directive, arg) : directive \in Directives, arg \in MachineWords}

(* How far printf has come: the directives that are left are those behind  *)
(* what is written, the arguments that are left those these will take.     *)
PrintfInv ==
    LET n == Len(call.format)
        k == Len(written)
    IN /\ call.format \in Seq(Directives) /\ call.esp \in Seq(MachineWords)
       /\ Len(call.esp) = Used(call.format, n)
       /\ format \in Seq(Directives) /\ Len(format) = n - k
       /\ \A i \in 1 .. Len(format) : format[i] = call.format[k + i]
       /\ esp \in Seq(MachineWords) /\ Len(esp) = Len(call.esp) - Used(call.format, k)
       /\ \A i \in 1 .. Len(esp) : esp[i] = call.esp[Used(call.format, k) + i]
       /\ written \in Seq(Outputs1)
       /\ \A i \in 1 .. k : Takes(call.format[i]) =>
              written[i] = Put(call.format[i], call.esp[Used(call.format, i)])

(* At the start of a call everything is left.                              *)
LEMMA PrintfBegins ==
    ASSUME NEW c, c.format \in Seq(Directives), c.esp \in Seq(MachineWords),
           Len(c.esp) = Used(c.format, Len(c.format)),
           call' = c, format' = c.format, esp' = c.esp, written' = <<>>
    PROVE  PrintfInv'
<1>1. Used(c.format, 0) = 0
  BY UsedFacts
<1> DEFINE f == c.format
           e == c.esp
<1>2. f \in Seq(Directives) /\ e \in Seq(MachineWords) /\ Len(e) = Used(f, Len(f))
  OBVIOUS
<1> HIDE DEF f, e
<1>3. Len(f) \in Nat /\ Len(e) \in Nat
  BY <1>2
<1>4. /\ call'.format = f /\ call'.esp = e /\ format' = f /\ esp' = e
      /\ written' = <<>> /\ Len(written') = 0 /\ written' \in Seq(Outputs1)
  BY DEF f, e
<1>5. /\ Len(f) = Len(f) - 0 /\ \A i \in 1 .. Len(f) : 0 + i = i
      /\ Len(e) = Len(e) - 0 /\ \A i \in 1 .. Len(e) : 0 + i = i
  BY <1>3
<1>6. Used(f, 0) = 0
  BY <1>1 DEF f
<1> QED
  BY <1>2, <1>4, <1>5, <1>6 DEF PrintfInv

(* Before the first call nothing is left and nothing is written.           *)
LEMMA PrintfStarts == PrintfInit => PrintfInv
<1> SUFFICES ASSUME PrintfInit PROVE PrintfInv
  OBVIOUS
<1>1. /\ call.format = <<>> /\ call.esp = <<>> /\ format = <<>> /\ esp = <<>>
      /\ written = <<>>
  BY DEF PrintfInit, NoCall
<1>2. Used(<<>>, 0) = 0
  BY UsedFacts
<1>3. /\ Len(<<>>) = 0 /\ <<>> \in Seq(Directives) /\ <<>> \in Seq(MachineWords)
      /\ <<>> \in Seq(Outputs1)
  OBVIOUS
<1> QED
  BY <1>1, <1>2, <1>3 DEF PrintfInv

(* A call passes as many arguments as its format takes.                    *)
LEMMA CallBegins == Call => PrintfInv'
<1> SUFFICES ASSUME Call PROVE PrintfInv'
  OBVIOUS
<1>0. PICK n \in 1 .. MaxFormat : \E f \in [1 .. n -> Directives] :
        \E args \in [1 .. Used(f, n) -> PrintfWords \cup Addresses] :
            call' = [format |-> f, esp |-> args]
  BY DEF Call
<1>1. PICK f \in [1 .. n -> Directives] :
        \E args \in [1 .. Used(f, n) -> PrintfWords \cup Addresses] :
            call' = [format |-> f, esp |-> args]
  BY <1>0
<1>2. PICK args \in [1 .. Used(f, n) -> PrintfWords \cup Addresses] :
        call' = [format |-> f, esp |-> args]
  BY <1>1
<1> DEFINE c == [format |-> f, esp |-> args]
<1>3. n \in Nat /\ Used(f, n) \in Nat
  BY PrintfAssumption, UsedFacts
<1>4. f \in Seq(Directives) /\ Len(f) = n
  BY <1>3
<1>5. args \in Seq(MachineWords) /\ Len(args) = Used(f, n)
  BY <1>3, PrintfAssumption
<1>6. c.format = f /\ c.esp = args
  OBVIOUS
<1>7. format' = c.format /\ esp' = c.esp /\ written' = <<>> /\ call' = c
  BY <1>2 DEF Call
<1> HIDE DEF c
<1> QED
  BY <1>4, <1>5, <1>6, <1>7, PrintfBegins

(* A return is like the start of an empty call.                            *)
LEMMA ReturnBegins == PrintfInv /\ PrintfReturn => PrintfInv'
<1> SUFFICES ASSUME PrintfInv, PrintfReturn PROVE PrintfInv'
  OBVIOUS
<1>1. Len(written) \in Nat /\ Len(call.format) \in Nat
  BY DEF PrintfInv
<1>2. Len(written) = Len(call.format)
  BY <1>1 DEF PrintfInv, PrintfReturn
<1>3. Used(call.format, Len(written)) \in Nat
  BY <1>1, UsedFacts
<1>4. esp \in Seq(MachineWords) /\ Len(esp) = 0
  BY <1>2, <1>3 DEF PrintfInv
<1>5. esp = <<>>
  BY <1>4
<1>6. /\ NoCall.format = <<>> /\ NoCall.esp = <<>>
      /\ format' = <<>> /\ esp' = <<>> /\ written' = <<>> /\ call' = NoCall
  BY <1>5 DEF PrintfReturn, NoCall
<1>7. Used(<<>>, 0) = 0
  BY UsedFacts
<1>8. /\ Len(<<>>) = 0 /\ <<>> \in Seq(Directives) /\ <<>> \in Seq(MachineWords)
  OBVIOUS
<1> QED
  BY <1>6, <1>7, <1>8, PrintfBegins

(* A round does one directive, with the argument that is its own.          *)
LEMMA RoundSteps == PrintfInv /\ Round => PrintfInv'
<1> SUFFICES ASSUME PrintfInv, Round PROVE PrintfInv'
  OBVIOUS
<1> DEFINE f == call.format
           e == call.esp
           n == Len(f)
           k == Len(written)
           arg == IF esp = <<>> THEN 0 ELSE Head(esp)
           text == Put(Head(format), arg)
<1>1. /\ f \in Seq(Directives) /\ e \in Seq(MachineWords) /\ n \in Nat /\ k \in Nat
      /\ Len(e) = Used(f, n) /\ Len(e) \in Nat
      /\ format \in Seq(Directives) /\ Len(format) = n - k
      /\ \A i \in 1 .. Len(format) : format[i] = f[k + i]
      /\ esp \in Seq(MachineWords) /\ Len(esp) = Len(e) - Used(f, k) /\ Len(esp) \in Nat
      /\ \A i \in 1 .. Len(esp) : esp[i] = e[Used(f, k) + i]
      /\ written \in Seq(Outputs1)
      /\ \A i \in 1 .. k : Takes(f[i]) => written[i] = Put(f[i], e[Used(f, i)])
  <2>1. /\ f \in Seq(Directives) /\ e \in Seq(MachineWords) /\ Len(e) = Used(f, n)
        /\ format \in Seq(Directives) /\ Len(format) = n - k
        /\ \A i \in 1 .. Len(format) : format[i] = f[k + i]
        /\ esp \in Seq(MachineWords) /\ Len(esp) = Len(e) - Used(f, k)
        /\ \A i \in 1 .. Len(esp) : esp[i] = e[Used(f, k) + i]
        /\ written \in Seq(Outputs1)
        /\ \A i \in 1 .. k : Takes(f[i]) => written[i] = Put(f[i], e[Used(f, i)])
    BY Zenon DEF PrintfInv
  <2> HIDE DEF f, e
  <2>2. n \in Nat /\ k \in Nat /\ Len(e) \in Nat /\ Len(esp) \in Nat
    BY <2>1
  <2> HIDE DEF n, k
  <2> QED
    BY <2>1, <2>2
<1>2. /\ format # <<>> /\ format' = Tail(format) /\ written' = Append(written, text)
      /\ esp' = (IF Takes(Head(format)) THEN Tail(esp) ELSE esp) /\ call' = call
  BY DEF Round
<1> HIDE DEF f, e
<1>3. /\ k + 1 \in 1 .. n /\ Head(format) = f[k + 1] /\ Head(format) \in Directives
      /\ Tail(format) \in Seq(Directives) /\ Len(Tail(format)) = n - (k + 1)
      /\ \A i \in 1 .. Len(Tail(format)) : Tail(format)[i] = f[(k + 1) + i]
  <2>1. Len(format) \in Nat /\ Len(format) > 0
    BY <1>1, <1>2
  <2>2. /\ Head(format) = format[1] /\ Tail(format) \in Seq(Directives)
        /\ Len(Tail(format)) = Len(format) - 1
        /\ \A i \in 1 .. Len(Tail(format)) : Tail(format)[i] = format[i + 1]
    BY <1>1, <1>2
  <2>3. format[1] \in Directives
    BY <1>1, <2>1
  <2> HIDE DEF n, k
  <2>4. k + 1 \in 1 .. n /\ Head(format) = f[k + 1]
    BY <1>1, <2>1, <2>2
  <2>5. ASSUME NEW i \in 1 .. Len(Tail(format))
        PROVE  Tail(format)[i] = f[(k + 1) + i]
    <3>1. i + 1 \in 1 .. Len(format) /\ k + (i + 1) = (k + 1) + i
      BY <1>1, <2>1, <2>2
    <3> QED
      BY <1>1, <2>2, <3>1
  <2>6. Len(Tail(format)) = n - (k + 1)
    BY <1>1, <2>1, <2>2
  <2> QED
    BY <2>2, <2>3, <2>4, <2>5, <2>6
<1>4. /\ Used(f, k) \in Nat /\ Used(f, k + 1) \in Nat /\ Used(f, k + 1) <= Used(f, n)
      /\ Used(f, k + 1) = IF Takes(f[k + 1]) THEN Used(f, k) + 1 ELSE Used(f, k)
  <2>1. k + 1 \in Nat /\ n \in Nat /\ k + 1 <= n
    BY <1>1, <1>3
  <2> HIDE DEF n, k
  <2>2. k \in Nat
    BY <1>1
  <2>3. \A m \in Nat : k + 1 <= m => Used(f, k + 1) <= Used(f, m)
    BY <2>1, UsedFacts
  <2> QED
    BY <2>1, <2>2, <2>3, UsedFacts
<1>5. arg \in MachineWords
  <2>1. CASE esp = <<>>
    BY <2>1, WordFacts DEF MachineWords
  <2>2. CASE esp # <<>>
    BY <1>1, <2>2
  <2> QED
    BY <2>1, <2>2
<1>6. /\ esp' \in Seq(MachineWords) /\ Len(esp') = Len(e) - Used(f, k + 1)
      /\ \A i \in 1 .. Len(esp') : esp'[i] = e[Used(f, k + 1) + i]
      /\ Takes(f[k + 1]) => arg = e[Used(f, k + 1)]
  <2>1. CASE Takes(f[k + 1])
    <3>1. Len(esp) > 0 /\ esp # <<>>
      BY <1>1, <1>4, <2>1
    <3>2. /\ esp' = Tail(esp) /\ Head(esp) = esp[1] /\ arg = esp[1]
          /\ Tail(esp) \in Seq(MachineWords) /\ Len(Tail(esp)) = Len(esp) - 1
          /\ \A i \in 1 .. Len(Tail(esp)) : Tail(esp)[i] = esp[i + 1]
      BY <1>1, <1>2, <1>3, <2>1, <3>1
    <3> DEFINE u == Used(f, k)
               v == Used(f, k + 1)
    <3>3. u \in Nat /\ v = u + 1
      BY <1>4, <2>1
    <3>4. /\ \A i \in 1 .. Len(esp) : esp[i] = e[u + i]
          /\ Len(esp) = Len(e) - u /\ Len(esp) \in Nat /\ Len(e) \in Nat
      BY <1>1
    <3> HIDE DEF arg, n, k, u, v
    <3>5. Len(esp') = Len(e) - v
      BY <3>2, <3>3, <3>4
    <3>6. arg = e[v]
      BY <3>1, <3>2, <3>3, <3>4
    <3>7. ASSUME NEW i \in 1 .. Len(esp') PROVE esp'[i] = e[v + i]
      <4>1. i + 1 \in 1 .. Len(esp) /\ v + i = u + (i + 1) /\ esp'[i] = esp[i + 1]
        BY <3>1, <3>2, <3>3, <3>4
      <4> QED
        BY <3>4, <4>1
    <3> QED
      BY <3>2, <3>5, <3>6, <3>7 DEF v
  <2>2. CASE ~Takes(f[k + 1])
    BY <1>1, <1>2, <1>3, <1>4, <2>2
  <2> QED
    BY <2>1, <2>2
<1>7. text \in Outputs1
  BY <1>3, <1>5 DEF Outputs1
<1> HIDE DEF text
<1>8. /\ written' \in Seq(Outputs1) /\ Len(written') = k + 1
      /\ \A i \in 1 .. k : written'[i] = written[i]
      /\ written'[k + 1] = text
  BY <1>1, <1>2, <1>7
<1>9. \A i \in 1 .. (k + 1) : Takes(f[i]) => written'[i] = Put(f[i], e[Used(f, i)])
  <2> SUFFICES ASSUME NEW i \in 1 .. (k + 1), Takes(f[i])
               PROVE  written'[i] = Put(f[i], e[Used(f, i)])
    OBVIOUS
  <2>1. CASE i = k + 1
    BY <1>3, <1>6, <1>8, <2>1 DEF text
  <2>2. CASE i \in 1 .. k
    BY <1>1, <1>8, <2>2
  <2> QED
    BY <1>1, <2>1, <2>2
<1>10. /\ call'.format = f /\ call'.esp = e
  BY <1>2 DEF f, e
<1> DEFINE m == k + 1
<1> HIDE DEF k
<1>11. Len(written') = m
  BY <1>8
<1>12. /\ f \in Seq(Directives) /\ e \in Seq(MachineWords) /\ Len(e) = Used(f, Len(f))
       /\ format' \in Seq(Directives) /\ Len(format') = Len(f) - m
       /\ \A i \in 1 .. Len(format') : format'[i] = f[m + i]
       /\ esp' \in Seq(MachineWords) /\ Len(esp') = Len(e) - Used(f, m)
       /\ \A i \in 1 .. Len(esp') : esp'[i] = e[Used(f, m) + i]
       /\ written' \in Seq(Outputs1)
       /\ \A i \in 1 .. m : Takes(f[i]) => written'[i] = Put(f[i], e[Used(f, i)])
  BY <1>1, <1>2, <1>3, <1>6, <1>8, <1>9
<1> HIDE DEF m
<1> QED
  BY <1>10, <1>11, <1>12 DEF PrintfInv

(* When all is written, every number of the format reads back.             *)
LEMMA PrintfInvReads == PrintfInv => NumbersReadBack
<1> SUFFICES ASSUME PrintfInv, format = <<>>, NEW i \in DOMAIN call.format
             PROVE  LET directive == call.format[i]
                        arg == call.esp[Used(call.format, i)]
                        text == written[i]
                    IN /\ directive.conv = "x" =>
                              IsNumeral(text, 16, arg,
                                        IF directive.alternate THEN HexDigits ELSE 0)
                       /\ directive.conv = "d" /\ IsNegative(arg) =>
                              text[1] = Minus /\ IsNumeral(Tail(text), 10, WordSize - arg, 0)
                       /\ directive.conv = "u" \/ (directive.conv = "d" /\ ~IsNegative(arg)) =>
                              IsNumeral(text, 10, arg, 0)
  BY DEF NumbersReadBack
<1> DEFINE directive == call.format[i]
           arg == call.esp[Used(call.format, i)]
           text == written[i]
<1>1. /\ call.format \in Seq(Directives) /\ call.esp \in Seq(MachineWords)
      /\ i \in 1 .. Len(written) /\ i \in 1 .. Len(call.format)
      /\ Len(call.esp) = Used(call.format, Len(call.format))
      /\ Takes(directive) => text = Put(directive, arg)
  <2>1. Len(format) = 0 /\ Len(call.format) \in Nat /\ Len(written) \in Nat
    BY DEF PrintfInv
  <2>2. Len(written) = Len(call.format)
    BY <2>1 DEF PrintfInv
  <2>3. /\ call.format \in Seq(Directives) /\ call.esp \in Seq(MachineWords)
        /\ Len(call.esp) = Used(call.format, Len(call.format))
        /\ \A j \in 1 .. Len(written) : Takes(call.format[j]) =>
               written[j] = Put(call.format[j], call.esp[Used(call.format, j)])
    BY Zenon DEF PrintfInv
  <2>4. i \in 1 .. Len(call.format) /\ i \in 1 .. Len(written)
    BY <2>2, <2>3
  <2> QED
    BY <2>3, <2>4, Zenon
<1>2. directive \in Directives
  BY <1>1
<1>3. ASSUME Takes(directive) PROVE arg \in MachineWords
  <2>1. i - 1 \in Nat /\ (i - 1) + 1 = i /\ i \in Nat /\ Len(call.format) \in Nat
        /\ i <= Len(call.format)
    BY <1>1
  <2> DEFINE j == i - 1
  <2>2. j \in Nat /\ j + 1 = i
    BY <2>1
  <2> HIDE DEF j
  <2>3. Used(call.format, j) \in Nat /\ Used(call.format, i) = Used(call.format, j) + 1
    BY <1>3, <2>2, UsedFacts
  <2>4. Used(call.format, i) <= Len(call.esp)
    BY <1>1, <2>1, UsedFacts
  <2>5. Len(call.esp) \in Nat
    BY <1>1
  <2>6. Used(call.format, i) \in 1 .. Len(call.esp)
    BY <2>3, <2>4, <2>5
  <2> QED
    BY <1>1, <2>6
<1> HIDE DEF directive, arg, text
<1>4. CASE directive.conv = "x"
  <2>1. Takes(directive) /\ arg \in MachineWords
    BY <1>3, <1>4 DEF Takes
  <2>2. text = IF directive.alternate THEN Padded(Itoa(arg, 16)) ELSE Itoa(arg, 16)
    BY <1>1, <1>4, <2>1 DEF Put
  <2>3. IsNumeral(Itoa(arg, 16), 16, arg, 0)
    BY <2>1, ItoaReads DEF Radixes
  <2>4. IsNumeral(Padded(Itoa(arg, 16)), 16, arg, HexDigits)
    BY <2>1, PaddedReads
  <2>5. IsNumeral(text, 16, arg, IF directive.alternate THEN HexDigits ELSE 0)
    BY <2>2, <2>3, <2>4, Zenon
  <2> QED
    BY <1>4, <2>5 DEF directive, arg, text
<1>5. CASE directive.conv = "d" /\ IsNegative(arg)
  <2>1. Takes(directive) /\ arg \in MachineWords
    BY <1>3, <1>5 DEF Takes
  <2> DEFINE rest == WordSize - arg
  <2>2. rest \in MachineWords /\ rest % WordSize = rest
    BY <1>5, <2>1, PrintfAssumption DEF IsNegative, MachineWords, WordSize
  <2>3. text = <<Minus>> \o Itoa(rest % WordSize, 10)
    BY <1>1, <1>5, <2>1 DEF Put, Signed
  <2>4. IsNumeral(Itoa(rest, 10), 10, rest, 0)
    BY <2>2, ItoaReads DEF Radixes
  <2>5. text = <<Minus>> \o Itoa(rest, 10)
    BY <2>2, <2>3
  <2>6. text[1] = Minus /\ Tail(text) = Itoa(rest, 10)
    <3> DEFINE t == Itoa(rest, 10)
    <3>1. t \in Seq(DigitChars(10))
      BY <2>2, ItoaDigits DEF Radixes
    <3>2. t \in Seq(Nat)
      <4>1. DigitChars(10) \subseteq Nat
        <5>1. \A d \in 0 .. 10 - 1 : d \in 0 .. 15
          OBVIOUS
        <5> QED
          BY <5>1, DigitFacts DEF DigitChars
      <4> HIDE DEF t
      <4> QED
        BY <3>1, <4>1, LargerSeq
    <3>3. text = <<Minus>> \o t /\ Minus \in Nat
      BY <2>5 DEF Minus
    <3> HIDE DEF t
    <3>4. text[1] = Minus /\ Tail(text) = t
      BY <3>2, <3>3
    <3> QED
      BY <3>4 DEF t
  <2>7. text[1] = Minus /\ IsNumeral(Tail(text), 10, WordSize - arg, 0)
    BY <2>4, <2>6
  <2> QED
    BY <1>5, <2>7 DEF directive, arg, text
<1>6. CASE directive.conv = "u" \/ (directive.conv = "d" /\ ~IsNegative(arg))
  <2>1. Takes(directive) /\ arg \in MachineWords
    BY <1>3, <1>6 DEF Takes
  <2>2. text = Itoa(arg, 10)
    BY <1>1, <1>6, <2>1 DEF Put, Signed
  <2>3. IsNumeral(text, 10, arg, 0)
    BY <2>1, <2>2, ItoaReads DEF Radixes
  <2> QED
    BY <1>6, <2>3 DEF directive, arg, text
<1>7. CASE directive.conv \notin {"x", "u", "d"}
  BY <1>7 DEF directive
<1> QED
  BY <1>4, <1>5, <1>6, <1>7

(* The invariant depends on nothing else.                                  *)
LEMMA PrintfStutters == PrintfInv /\ UNCHANGED prvars => PrintfInv'
BY DEF PrintfInv, prvars

(* For every width of a word, every format and every argument: what printf *)
(* prints for a number is the numeral of the number that was passed.       *)
THEOREM PrintedNumbersReadBack == PrintfSpec => []NumbersReadBack
<1>1. PrintfInv /\ [PrintfNext]_prvars => PrintfInv'
  BY CallBegins, RoundSteps, ReturnBegins, PrintfStutters DEF PrintfNext
<1> QED
  BY <1>1, PrintfStarts, PrintfInvReads, PTL DEF PrintfSpec

=============================================================================
