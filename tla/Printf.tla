------------------------------- MODULE Printf -------------------------------
(***************************************************************************)
(* printf of lib.c, one directive of the format per step, with puts, itoa  *)
(* and strrev.  Arguments are words on the stack, characters their codes.  *)
(* What putc does with a character is in Screen.                           *)
(*                                                                         *)
(* A directive is a literal character, or "%" with a conversion and        *)
(* perhaps "#".  A format that ends in "%" is left out: printf then steps  *)
(* over the end of the format and goes on with what memory holds there; no *)
(* call in the kernel has one.                                             *)
(***************************************************************************)
EXTENDS Integers, SequencesExt

CONSTANTS
    HighBit,     \* the highest bit of a word: 2^31
    HexDigits,   \* hexadecimal digits of a word: 8
    PrintfWords, \* the words passed as numbers and characters
    Memory,      \* address -> the string there, for %s
    MaxFormat    \* bound: directives of a format

WordSize == 2 * HighBit
MachineWords == 0 .. WordSize - 1
Addresses == DOMAIN Memory

ASSUME PrintfAssumption ==
    /\ HighBit \in Nat \ {0}
    /\ PrintfWords \subseteq MachineWords /\ Addresses \subseteq MachineWords
    /\ MaxFormat \in Nat

VARIABLES
    format,  \* the directives still to be done
    esp,     \* the arguments still to be used
    written, \* what each directive gave to putc
    call     \* history: [format, esp] of the call

prvars == <<format, esp, written, call>>

Percent == 37
Minus == 45
Letter == 97
Directives ==
    [conv : {"%", "x", "u", "d", "c", "s", "other"}, alternate : BOOLEAN]
    \cup [conv : {"literal"}, alternate : {FALSE}]

Takes(directive) == directive.conv \in {"x", "u", "d", "c", "s"}
ArgsFor(directive) == IF directive.conv = "s" THEN Addresses ELSE PrintfWords

(* How many arguments the first n directives take.                         *)
Used(directives, n) == Cardinality({i \in 1 .. n : Takes(directives[i])})

-----------------------------------------------------------------------------
(* itoa: the digits from the lowest place up, then strrev.                 *)

Lookup == [digit \in 0 .. 15 |-> IF digit < 10 THEN 48 + digit ELSE 55 + digit]

Places(radix) ==
    LET places[value \in MachineWords] ==
            IF value = 0 THEN <<>>
            ELSE <<Lookup[value % radix]>> \o places[value \div radix]
    IN places

(* No word has more hexadecimal digits than %#x makes room for.            *)
ASSUME HexDigitsAssumption == HexDigits = Len(Places(16)[WordSize - 1])

Itoa_NoZero(value, radix) == Reverse(Places(radix)[value])   \* mutant

Itoa(value, radix) ==
    IF value = 0 THEN <<Lookup[0]>> ELSE Reverse(Places(radix)[value])

(* %#x fills up with zeros what the number leaves of the digits.           *)
Padded(string) == [i \in 1 .. HexDigits - Len(string) |-> Lookup[0]] \o string

(* %d takes the highest bit for the sign, and itoa takes -value unsigned.  *)
IsNegative(word) == word >= HighBit
Signed(word) ==
    IF IsNegative(word)
    THEN <<Minus>> \o Itoa((WordSize - word) % WordSize, 10)
    ELSE Itoa(word, 10)

(* One round of the loop, given the argument esp points to.                *)
Put(directive, arg) ==
    CASE directive.conv = "literal" -> <<Letter>>
      [] directive.conv = "%" -> <<Percent>>
      [] directive.conv = "x" ->
             IF directive.alternate THEN Padded(Itoa(arg, 16)) ELSE Itoa(arg, 16)
      [] directive.conv = "u" -> Itoa(arg, 10)
      [] directive.conv = "d" -> Signed(arg)
      [] directive.conv = "c" -> <<arg % 256>>
      [] directive.conv = "s" -> Memory[arg]
      [] OTHER -> <<>>

-----------------------------------------------------------------------------

NoCall == [format |-> <<>>, esp |-> <<>>]

PrintfInit == format = <<>> /\ esp = <<>> /\ written = <<>> /\ call = NoCall

Call ==
    /\ call = NoCall
    /\ \E n \in 1 .. MaxFormat : \E f \in [1 .. n -> Directives] :
           \E args \in [1 .. Used(f, n) -> PrintfWords \cup Addresses] :
               /\ \A i \in 1 .. n : Takes(f[i]) => args[Used(f, i)] \in ArgsFor(f[i])
               /\ call' = [format |-> f, esp |-> args]
    /\ format' = call'.format /\ esp' = call'.esp
    /\ written' = <<>>

(* An argument is used up by the conversions that print one.               *)
Round ==
    /\ format # <<>>
    /\ LET directive == Head(format)
       IN /\ written' = Append(written, Put(directive, IF esp = <<>> THEN 0 ELSE Head(esp)))
          /\ esp' = IF Takes(directive) THEN Tail(esp) ELSE esp
    /\ format' = Tail(format)
    /\ UNCHANGED call

PrintfReturn ==
    /\ call # NoCall /\ format = <<>>
    /\ call' = NoCall /\ written' = <<>>
    /\ UNCHANGED <<format, esp>>

PrintfNext == Call \/ Round \/ PrintfReturn
PrintfSpec == PrintfInit /\ [][PrintfNext]_prvars

-----------------------------------------------------------------------------
(* Properties.                                                             *)

(* A numeral is the sum of its digits' places, its length fixed or such    *)
(* that it does not begin with zero.                                       *)
DigitOf(char) == CHOOSE d \in 0 .. 15 : Lookup[d] = char
Numeral(text, radix) ==
    LET value[n \in 0 .. Len(text)] ==
            IF n = 0 THEN 0 ELSE value[n - 1] * radix + DigitOf(text[n])
    IN value[Len(text)]
IsNumeral(text, radix, value, length) ==
    /\ text # <<>> /\ Numeral(text, radix) = value
    /\ \A i \in DOMAIN text : text[i] \in {Lookup[d] : d \in 0 .. radix - 1}
    /\ IF length = 0 THEN Len(text) = 1 \/ text[1] # Lookup[0] ELSE Len(text) = length

(* What printf prints for the numbers of a format reads back as the        *)
(* arguments, each at its place whatever the conversions before it use of  *)
(* the stack: in hexadecimal, padded or not, unsigned, and signed down to  *)
(* the smallest number, whose negation does not fit a signed word.         *)
NumbersReadBack ==
    format = <<>> =>
        \A i \in DOMAIN call.format :
            LET directive == call.format[i]
                arg == call.esp[Used(call.format, i)]
                text == written[i]
            IN /\ directive.conv = "x" =>
                      IsNumeral(text, 16, arg, IF directive.alternate THEN HexDigits ELSE 0)
               /\ directive.conv = "d" /\ IsNegative(arg) =>
                      text[1] = Minus /\ IsNumeral(Tail(text), 10, WordSize - arg, 0)
               /\ directive.conv = "u" \/ (directive.conv = "d" /\ ~IsNegative(arg)) =>
                      IsNumeral(text, 10, arg, 0)

=============================================================================
