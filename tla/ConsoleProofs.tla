--------------------------- MODULE ConsoleProofs ---------------------------
(***************************************************************************)
(* Theorems about Console, for any number of terminals and any size of     *)
(* their line buffers: what keyboard_handler, rtc_handler, terminal_read   *)
(* and rtc_read do to each other's state, in any order of interrupts and   *)
(* calls.                                                                  *)
(***************************************************************************)
EXTENDS MCConsole, DisplayProofs

(* Unfinished lines hold characters only: a line's newline is its first.   *)
CharsBeforeCursor ==
    \A b \in Buffers, i \in Index :
        i < buf_location[b] => kb_buf[b][i] \in Chars

(* The flag says there is a line to return.                                *)
FlagMeansLine == term_read_flag => \E i \in Index : terminal_buf[i] = "NL"

(* What a call waits for did not happen before the call.                   *)
WaitsForNews ==
    /\ call.kind = "read" /\ term_read_flag => "line" \in since
    /\ call.kind = "rtc" /\ Interrupted(current_terminal) =>
           since \cap {"tick", "switch"} # {}

ConsoleInv ==
    /\ ConsoleTypeOK
    /\ NothingBehindCursor
    /\ CharsBeforeCursor
    /\ FlagMeansLine
    /\ WaitsForNews

-----------------------------------------------------------------------------
(* set_frequency.                                                          *)

(* Powers of two up to the width of the register are told apart.           *)
LEMMA PowersDiffer ==
    \A j, k \in 0 .. 15 : 2^j = 2^k => j = k
<1> DEFINE pow == [k \in 0 .. 15 |-> 2^k]
<1>1. /\ pow[0] = 1 /\ pow[1] = 2 /\ pow[2] = 4 /\ pow[3] = 8
      /\ pow[4] = 16 /\ pow[5] = 32 /\ pow[6] = 64 /\ pow[7] = 128
      /\ pow[8] = 256 /\ pow[9] = 512 /\ pow[10] = 1024 /\ pow[11] = 2048
      /\ pow[12] = 4096 /\ pow[13] = 8192 /\ pow[14] = 16384
      /\ pow[15] = 32768
  OBVIOUS
<1>2. \A k \in 0 .. 15 : pow[k] = 2^k
  OBVIOUS
<1> HIDE DEF pow
<1>3. ASSUME NEW k \in 0 .. 15
      PROVE  \/ k = 0 \/ k = 1 \/ k = 2 \/ k = 3 \/ k = 4 \/ k = 5 \/ k = 6
             \/ k = 7 \/ k = 8 \/ k = 9 \/ k = 10 \/ k = 11 \/ k = 12 \/ k = 13
             \/ k = 14 \/ k = 15
  OBVIOUS
<1>4. ASSUME NEW j \in 0 .. 15, NEW k \in 0 .. 15, pow[j] = pow[k]
      PROVE  j = k
  BY <1>1, <1>3, <1>4
<1> QED
  BY <1>2, <1>4

(* The rate set_frequency picks for 2^k.                                   *)
LEMMA RateOfPower ==
    \A k \in 0 .. 15 : RegAVals(2^k) = 16 - k
  BY PowersDiffer DEF RegAVals

(* Writing the rate keeps register A a byte, and for rates that fit in four*)
(* bits it keeps the divider.                                              *)
LEMMA RegAByte ==
    ASSUME NEW prev \in 0 .. 255, NEW vals \in 1 .. 16
    PROVE  /\ NewRegA(prev, vals) \in 0 .. 255
           /\ vals < 16 => /\ NewRegA(prev, vals) % 16 = vals
                           /\ NewRegA(prev, vals) \div 16 = prev \div 16
<1>1. PICK q \in 0 .. 15, r \in 0 .. 15 : prev = 16 * q + r
  OBVIOUS
<1>2. prev % 16 = r /\ prev \div 16 = q
  BY <1>1
<1>3. prev - (prev % 16) = 16 * q /\ (16 * q) \div 16 = q
  BY <1>1, <1>2
<1>4. CASE vals < 16
  <2>1. NewRegA(prev, vals) = 16 * q + vals
    BY <1>3, <1>4 DEF NewRegA
  <2>2. (16 * q + vals) % 16 = vals /\ (16 * q + vals) \div 16 = q
    BY <1>4
  <2> QED
    BY <2>1, <2>2, <1>2, <1>4
<1>5. CASE vals = 16
  <2>1. NewRegA(prev, vals) = IF q % 2 = 1 THEN 16 * q ELSE 16 * q + 16
    BY <1>3, <1>5 DEF NewRegA
  <2>2. q % 2 # 1 => q # 15
    OBVIOUS
  <2> QED
    BY <2>1, <2>2, <1>5
<1> QED
  BY <1>4, <1>5

(* The frequency that is 32.768 kHz divided by a power of two.             *)
Divided(freq, power) == freq \in 2 .. 1024 /\ freq * 2^power = 32768

(* The powers of two that are accepted, and what divides the clock to them.*)
LEMMA PowersMultiply ==
    ASSUME NEW k \in 1 .. 10
    PROVE  Divided(2^k, 15 - k)
<1> DEFINE power == [n \in 1 .. 10 |-> 2^n]
           product == [n \in 1 .. 10 |-> 2^n * 2^(15 - n)]
<1>1. /\ product[1] = 32768 /\ product[2] = 32768 /\ product[3] = 32768
      /\ product[4] = 32768 /\ product[5] = 32768 /\ product[6] = 32768
      /\ product[7] = 32768 /\ product[8] = 32768 /\ product[9] = 32768
      /\ product[10] = 32768
  OBVIOUS
<1>2. /\ power[1] = 2 /\ power[2] = 4 /\ power[3] = 8 /\ power[4] = 16
      /\ power[5] = 32 /\ power[6] = 64 /\ power[7] = 128 /\ power[8] = 256
      /\ power[9] = 512 /\ power[10] = 1024
  OBVIOUS
<1>3. product[k] = 2^k * 2^(15 - k) /\ power[k] = 2^k
  OBVIOUS
<1>4. \/ k = 1 \/ k = 2 \/ k = 3 \/ k = 4 \/ k = 5
      \/ k = 6 \/ k = 7 \/ k = 8 \/ k = 9 \/ k = 10
  OBVIOUS
<1> HIDE DEF power, product
<1>5. product[k] = 32768 /\ power[k] \in 2 .. 1024
  BY <1>1, <1>2, <1>4
<1> QED
  BY <1>3, <1>5 DEF Divided

(* For 1 Hz it sets the lowest bit of the divider.                         *)
LEMMA OneHertz ==
    ASSUME NEW prev \in 0 .. 255
    PROVE  (NewRegA(prev, 16) \div 16) % 2 = 1
<1>1. PICK q \in 0 .. 15, r \in 0 .. 15 : prev = 16 * q + r
  OBVIOUS
<1>2. prev - (prev % 16) = 16 * q /\ (16 * q) \div 16 = q
  BY <1>1
<1>3. NewRegA(prev, 16) = IF q % 2 = 1 THEN 16 * q ELSE 16 * q + 16
  BY <1>2 DEF NewRegA
<1>4. (16 * q + 16) \div 16 = q + 1
  OBVIOUS
<1> QED
  BY <1>2, <1>3, <1>4

(* What is accepted fits.                                                 *)
LEMMA AcceptedRates ==
    ASSUME NEW freq, Accepted(freq)
    PROVE  RegAVals(freq) \in 1 .. 16 /\ freq \in 1 .. 1024
<1>1. PICK k \in 0 .. 10 : freq = 2^k
  BY DEF Accepted
<1>2. RegAVals(freq) = 16 - k
  <2>1. k \in 0 .. 15
    OBVIOUS
  <2> QED
    BY <1>1, <2>1, RateOfPower, Zenon
<1>3. CASE k = 0
  <2>1. 2^0 = 1
    OBVIOUS
  <2> QED
    BY <1>1, <1>2, <1>3, <2>1
<1>4. CASE k # 0
  <2>1. k \in 1 .. 10
    BY <1>4
  <2>2. Divided(2^k, 15 - k)
    BY <2>1, PowersMultiply, Zenon
  <2> QED
    BY <1>1, <1>2, <2>1, <2>2 DEF Divided
<1> QED
  BY <1>3, <1>4

-----------------------------------------------------------------------------
(* The invariant.                                                          *)

(* What ConsoleAssumption says, one fact at a time.                        *)
LEMMA Terminals ==
    /\ MaxTerminals \in Nat \ {0}
    /\ Displays = 1 .. MaxTerminals
    /\ Displays \subseteq Buffers
    /\ ReadSizes \subseteq Nat
<1>1. MaxTerminals \in Nat \ {0} /\ Displays = 1 .. MaxTerminals
  BY ConsoleAssumption
<1>2. Buffers = 0 .. MaxTerminals
  BY ConsoleAssumption
<1>3. ReadSizes \subseteq Nat
  BY ConsoleAssumption
<1> QED
  BY <1>1, <1>2, <1>3

LEMMA ConsoleStarts == ConsoleInit => ConsoleInv
<1> SUFFICES ASSUME ConsoleInit PROVE ConsoleInv
  OBVIOUS
<1>1. KeyboardTypeOK
  <2>1. 0 \in Index /\ "NUL" \in Bytes
    BY KeyboardAssumption DEF KeyboardAssumption, Index, Bytes
  <2>2. Blank \in [Index -> Bytes]
    BY <2>1 DEF Blank
  <2> QED
    BY <2>1, <2>2, KeyboardAssumption
    DEF KeyboardAssumption, ConsoleInit, KeyboardInit, KeyboardTypeOK
<1>2. ConsoleTypeOK
  <2>1. RtcTypeOK
    <3>1. RtcInit
      BY DEF ConsoleInit
    <3>2. interruptFlags \in [Displays -> {0, 1}]
      BY <3>1 DEF RtcInit
    <3>3. reg_A \in 0 .. 255 /\ asked \in 1 .. 1024
      BY <3>1 DEF RtcInit
    <3>4. stopped \in BOOLEAN
      BY <3>1, Zenon DEF RtcInit
    <3> QED
      BY <3>2, <3>3, <3>4, Zenon DEF RtcTypeOK
  <2>2. 1 \in Displays /\ MaxTerminals \in 0 .. MaxTerminals
    BY Terminals
  <2>3. call \in {None, RtcCall} \cup {ReadCall(n) : n \in ReadSizes}
    BY DEF ConsoleInit
  <2> QED
    BY <1>1, <2>1, <2>2, <2>3 DEF ConsoleInit, ConsoleTypeOK
<1>3. NothingBehindCursor /\ CharsBeforeCursor
  BY DEF ConsoleInit, KeyboardInit, NothingBehindCursor, CharsBeforeCursor,
         Blank, Index
<1>4. FlagMeansLine /\ WaitsForNews
  BY DEF ConsoleInit, KeyboardInit, FlagMeansLine, WaitsForNews, None
<1> QED
  BY <1>2, <1>3, <1>4 DEF ConsoleInv

(* What the keyboard does to its buffers.                                  *)
LinesInv == /\ KeyboardTypeOK
            /\ NothingBehindCursor
            /\ CharsBeforeCursor
            /\ FlagMeansLine

LEMMA TypeCharKeepsLines ==
    ASSUME LinesInv, NEW c \in Chars, TypeChar(c)
    PROVE  LinesInv'
<1> USE KeyboardAssumption DEF KeyboardAssumption, LinesInv, KeyboardTypeOK
<1> DEFINE b == true_buffer
<1>1. /\ buf_location[b] \in Index /\ buf_location[b] + 1 \in Index
      /\ buf_location' = [buf_location EXCEPT ![b] = buf_location[b] + 1]
      /\ kb_buf' = [kb_buf EXCEPT ![b] = [kb_buf[b] EXCEPT ![buf_location[b]] = c]]
      /\ UNCHANGED <<true_buffer, terminal_buf, term_read_flag>>
  BY DEF TypeChar, HasSpace, Location, Index
<1>2. KeyboardTypeOK'
  BY <1>1 DEF Bytes
<1>3. NothingBehindCursor'
  BY <1>1 DEF NothingBehindCursor, Index
<1>4. CharsBeforeCursor'
  BY <1>1 DEF CharsBeforeCursor, Index
<1>5. FlagMeansLine'
  BY <1>1 DEF FlagMeansLine
<1> QED
  BY <1>2, <1>3, <1>4, <1>5

LEMMA BackspaceKeepsLines ==
    ASSUME LinesInv, Backspace
    PROVE  LinesInv'
<1> USE KeyboardAssumption DEF KeyboardAssumption, LinesInv, KeyboardTypeOK
<1> DEFINE b == true_buffer
<1>1. /\ buf_location[b] \in Index /\ buf_location[b] - 1 \in Index
      /\ buf_location' = [buf_location EXCEPT ![b] = buf_location[b] - 1]
      /\ kb_buf' = [kb_buf EXCEPT ![b] = [kb_buf[b] EXCEPT ![buf_location[b] - 1] = "NUL"]]
      /\ UNCHANGED <<true_buffer, terminal_buf, term_read_flag>>
  BY DEF Backspace, Erased, Text, Location, Index
<1>2. KeyboardTypeOK'
  BY <1>1 DEF Bytes
<1>3. NothingBehindCursor'
  BY <1>1 DEF NothingBehindCursor, Index
<1>4. CharsBeforeCursor'
  BY <1>1 DEF CharsBeforeCursor, Index
<1>5. FlagMeansLine'
  BY <1>1 DEF FlagMeansLine
<1> QED
  BY <1>2, <1>3, <1>4, <1>5

(* The completed line and the buffer it came from.                         *)
LEMMA EnterEffect ==
    ASSUME LinesInv, Enter
    PROVE  /\ Location \in Index
           /\ terminal_buf' = [Text EXCEPT ![Location] = "NL"]
           /\ kb_buf' = [kb_buf EXCEPT ![true_buffer] =
                  [i \in Index |-> IF i < TermBufSize - 1 THEN "NUL"
                                   ELSE IF i = Location THEN "NL" ELSE Text[i]]]
           /\ buf_location' = [buf_location EXCEPT ![true_buffer] = 0]
           /\ term_read_flag' = TRUE
           /\ true_buffer' = true_buffer
<1> USE DEF LinesInv, KeyboardTypeOK
<1>1. Location \in Index /\ Text \in [Index -> Bytes]
  BY DEF Location, Text
<1>2. ResetBuffer([Text EXCEPT ![Location] = "NL"]) =
        [i \in Index |-> IF i < TermBufSize - 1 THEN "NUL"
                         ELSE IF i = Location THEN "NL" ELSE Text[i]]
  BY <1>1 DEF ResetBuffer
<1> QED
  BY <1>1, <1>2 DEF Enter, NewLocation, SetFlag

LEMMA EnterKeepsLines ==
    ASSUME LinesInv, Enter
    PROVE  LinesInv'
<1> USE KeyboardAssumption DEF KeyboardAssumption, LinesInv, KeyboardTypeOK
<1> DEFINE b == true_buffer
           reset == [i \in Index |-> IF i < TermBufSize - 1 THEN "NUL"
                                     ELSE IF i = Location THEN "NL" ELSE Text[i]]
<1>1. /\ Location \in Index /\ Location = buf_location[b]
      /\ Text \in [Index -> Bytes] /\ Text = kb_buf[b]
  BY DEF Location, Text
<1>2. \A i \in Index : \/ reset[i] = "NUL"
                       \/ i = TermBufSize - 1 /\ reset[i] = "NL"
  BY <1>1 DEF NothingBehindCursor, Index
<1>3. reset \in [Index -> Bytes]
  BY <1>1 DEF Bytes
<1>4. /\ kb_buf' = [kb_buf EXCEPT ![b] = reset]
      /\ buf_location' = [buf_location EXCEPT ![b] = 0]
      /\ terminal_buf' = [Text EXCEPT ![Location] = "NL"]
      /\ term_read_flag' = TRUE
      /\ true_buffer' = b
  BY EnterEffect
<1> HIDE DEF reset
<1>5. KeyboardTypeOK'
  BY <1>1, <1>3, <1>4 DEF Bytes, Index
<1>6. NothingBehindCursor'
  BY <1>2, <1>4 DEF NothingBehindCursor
<1>7. CharsBeforeCursor'
  BY <1>4 DEF CharsBeforeCursor, Index
<1>8. FlagMeansLine'
  BY <1>1, <1>4 DEF FlagMeansLine
<1> QED
  BY <1>5, <1>6, <1>7, <1>8

LEMMA BindKeepsLines ==
    ASSUME LinesInv, NEW b \in Buffers, Bind(b)
    PROVE  LinesInv'
  BY DEF LinesInv, Bind, KeyboardTypeOK, NothingBehindCursor, CharsBeforeCursor,
         FlagMeansLine

LEMMA AwaitLineKeepsLines ==
    ASSUME LinesInv, AwaitLine
    PROVE  LinesInv'
  BY DEF LinesInv, AwaitLine, KeyboardTypeOK, NothingBehindCursor,
         CharsBeforeCursor, FlagMeansLine, NoLine, Blank, Bytes

-----------------------------------------------------------------------------
(* The steps of Console.                                                   *)

LEMMA SetFrequencyKeepsByte ==
    ASSUME RtcTypeOK, NEW freq, SetFrequency(freq)
    PROVE  RtcTypeOK'
<1>1. CASE Accepted(freq)
  <2>1. RegAVals(freq) \in 1 .. 16 /\ freq \in 1 .. 1024
    BY <1>1, AcceptedRates, Zenon
  <2>2. NewRegA(reg_A, RegAVals(freq)) \in 0 .. 255
    BY <2>1, RegAByte, Zenon DEF RtcTypeOK
  <2> QED
    BY <1>1, <2>1, <2>2 DEF SetFrequency, RtcTypeOK
<1>2. CASE ~Accepted(freq)
  BY <1>2 DEF SetFrequency, RtcTypeOK, rate
<1> QED
  BY <1>1, <1>2

(* Handlers add to the history of the call that spins only what happened.  *)
LEMMA HistoryGrows ==
    ASSUME NEW event \in {"line", "tick", "switch"}, Happened(event),
           since \subseteq {"line", "tick", "switch"}
    PROVE  /\ since \subseteq since' /\ since' \subseteq {"line", "tick", "switch"}
           /\ call.kind = "read" /\ event = "line" => event \in since'
           /\ call.kind = "rtc" /\ event \in {"tick", "switch"} => event \in since'
  BY DEF Happened, Matters

CallKinds == {None, RtcCall} \cup {ReadCall(n) : n \in ReadSizes}

(* The types of what is neither keyboard's nor clock's.                    *)
RestOK ==
    /\ current_terminal \in Displays
    /\ unbooted \in 0 .. MaxTerminals
    /\ alt_flag \in BOOLEAN
    /\ call \in CallKinds
    /\ since \subseteq {"line", "tick", "switch"}

LEMMA InvParts ==
    ConsoleInv <=> LinesInv /\ RtcTypeOK /\ RestOK /\ WaitsForNews
  BY DEF ConsoleInv, LinesInv, ConsoleTypeOK, RestOK, CallKinds

LEMMA KeyStep ==
    ASSUME ConsoleInv, Key
    PROVE  ConsoleInv'
<1>0. LinesInv /\ RtcTypeOK /\ RestOK /\ WaitsForNews
  BY InvParts
<1>1. CASE \E c \in Chars : CharKey(c)
  <2>1. PICK c \in Chars : CharKey(c)
    BY <1>1
  <2>2. LinesInv'
    BY <1>0, <2>1, TypeCharKeepsLines DEF CharKey
  <2>3. RtcTypeOK' /\ RestOK'
    BY <1>0, <2>1 DEF CharKey, rtcvars, rate, RtcTypeOK, RestOK
  <2>4. WaitsForNews'
    BY <1>0, <2>1 DEF CharKey, TypeChar, rtcvars, rate, WaitsForNews, Interrupted
  <2> QED
    BY <2>2, <2>3, <2>4 DEF ConsoleInv, LinesInv, ConsoleTypeOK, RestOK, CallKinds
<1>2. CASE BackspaceKey
  <2>2. LinesInv'
    BY <1>0, <1>2, BackspaceKeepsLines DEF BackspaceKey
  <2>3. RtcTypeOK' /\ RestOK'
    BY <1>0, <1>2 DEF BackspaceKey, rtcvars, rate, RtcTypeOK, RestOK
  <2>4. WaitsForNews'
    BY <1>0, <1>2 DEF BackspaceKey, Backspace, rtcvars, rate, WaitsForNews, Interrupted
  <2> QED
    BY <2>2, <2>3, <2>4 DEF ConsoleInv, LinesInv, ConsoleTypeOK, RestOK, CallKinds
<1>3. CASE EnterKey
  <2>1. LinesInv'
    BY <1>0, <1>3, EnterKeepsLines DEF EnterKey
  <2>2. /\ since \subseteq since' /\ since' \subseteq {"line", "tick", "switch"}
        /\ call.kind = "read" => "line" \in since'
    BY <1>0, <1>3, HistoryGrows DEF EnterKey, RestOK
  <2>3. RtcTypeOK' /\ RestOK'
    BY <1>0, <1>3, <2>2 DEF EnterKey, rtcvars, rate, RtcTypeOK, RestOK
  <2>4. WaitsForNews'
    BY <1>0, <1>3, <2>2 DEF EnterKey, rtcvars, rate, WaitsForNews, Interrupted
  <2> QED
    BY <2>1, <2>3, <2>4 DEF ConsoleInv, LinesInv, ConsoleTypeOK, RestOK, CallKinds
<1> QED
  BY <1>1, <1>2, <1>3 DEF Key

LEMMA AltFStep ==
    ASSUME ConsoleInv, AltF
    PROVE  ConsoleInv'
<1>0. LinesInv /\ RtcTypeOK /\ RestOK /\ WaitsForNews
  BY InvParts
<1>1. LinesInv'
  BY <1>0, BindKeepsLines, Terminals DEF AltF, RestOK
<1>2. /\ since \subseteq since' /\ since' \subseteq {"line", "tick", "switch"}
      /\ call.kind = "rtc" /\ current_terminal' # current_terminal =>
            "switch" \in since'
  BY <1>0, HistoryGrows DEF AltF, RestOK
<1>3. RtcTypeOK' /\ RestOK'
  BY <1>0, <1>2 DEF AltF, rtcvars, rate, RtcTypeOK, RestOK
<1>4. WaitsForNews'
  BY <1>0, <1>2 DEF AltF, Bind, rtcvars, rate, WaitsForNews, Interrupted
<1> QED
  BY <1>1, <1>3, <1>4 DEF ConsoleInv, LinesInv, ConsoleTypeOK, RestOK, CallKinds

LEMMA BootTickStep ==
    ASSUME ConsoleInv, BootTick
    PROVE  ConsoleInv'
<1>0. LinesInv /\ RtcTypeOK /\ RestOK /\ WaitsForNews
  BY InvParts
<1>1. LinesInv'
  BY <1>0 DEF BootTick, kbvars, LinesInv, KeyboardTypeOK, NothingBehindCursor,
              CharsBeforeCursor, FlagMeansLine
<1>2. RtcTypeOK'
  BY <1>0 DEF BootTick, rtcvars, rate, RtcTypeOK
<1>3. unbooted \in Displays /\ unbooted - 1 \in 0 .. MaxTerminals
  BY <1>0, Terminals DEF BootTick, RestOK
<1>4. RestOK'
  BY <1>0, <1>3 DEF BootTick, RestOK, CallKinds
<1>5. WaitsForNews'
  BY DEF BootTick, WaitsForNews, None
<1> QED
  BY <1>1, <1>2, <1>4, <1>5 DEF ConsoleInv, LinesInv, ConsoleTypeOK, RestOK, CallKinds

LEMMA RtcTickStep ==
    ASSUME ConsoleInv, RtcTick
    PROVE  ConsoleInv'
<1>0. LinesInv /\ RtcTypeOK /\ RestOK /\ WaitsForNews
  BY InvParts
<1>1. LinesInv'
  BY <1>0 DEF RtcTick, kbvars, LinesInv, KeyboardTypeOK, NothingBehindCursor,
              CharsBeforeCursor, FlagMeansLine
<1>2. /\ since \subseteq since' /\ since' \subseteq {"line", "tick", "switch"}
      /\ call.kind = "rtc" => "tick" \in since'
  BY <1>0, HistoryGrows DEF RtcTick, RestOK
<1>3. RtcTypeOK'
  BY <1>0 DEF RtcTick, RtcInterrupt, rate, Flagged, RtcTypeOK
<1>4. RestOK'
  BY <1>0, <1>2 DEF RtcTick, RestOK
<1>5. WaitsForNews'
  BY <1>0, <1>2 DEF RtcTick, kbvars, WaitsForNews
<1> QED
  BY <1>1, <1>3, <1>4, <1>5 DEF ConsoleInv, LinesInv, ConsoleTypeOK, RestOK, CallKinds

LEMMA AltStep ==
    ASSUME ConsoleInv, Alt
    PROVE  ConsoleInv'
<1>1. LinesInv'
  BY InvParts DEF Alt, kbvars, LinesInv, KeyboardTypeOK, NothingBehindCursor,
                  CharsBeforeCursor, FlagMeansLine
<1>2. RtcTypeOK' /\ RestOK'
  BY InvParts DEF Alt, rtcvars, rate, RtcTypeOK, RestOK, CallKinds
<1>3. WaitsForNews'
  BY InvParts DEF Alt, kbvars, rtcvars, rate, WaitsForNews, Interrupted
<1> QED
  BY <1>1, <1>2, <1>3 DEF ConsoleInv, LinesInv, ConsoleTypeOK, RestOK, CallKinds

(* A call, or its return, leaves the terminals alone.                      *)
LEMMA CallSteps ==
    ASSUME RestOK, NEW c \in CallKinds,
           call' = c, since' = {},
           UNCHANGED <<current_terminal, unbooted, alt_flag>>
    PROVE  RestOK'
  BY DEF RestOK, CallKinds

LEMMA TerminalReadStep ==
    ASSUME ConsoleInv, TerminalRead
    PROVE  ConsoleInv'
<1>1. LinesInv'
  BY InvParts, AwaitLineKeepsLines DEF TerminalRead
<1>2. PICK nbytes \in ReadSizes : Calls(ReadCall(nbytes))
  BY DEF TerminalRead
<1>3. RestOK'
  BY <1>2, InvParts, CallSteps DEF Calls, CallKinds
<1>4. RtcTypeOK'
  BY InvParts DEF TerminalRead, rtcvars, rate, RtcTypeOK
<1>5. WaitsForNews'
  <2>1. call'.kind = "read" /\ ~ term_read_flag'
    BY <1>2 DEF Calls, ReadCall, TerminalRead, AwaitLine, NoLine
  <2> QED
    BY <2>1 DEF WaitsForNews
<1> QED
  BY <1>1, <1>3, <1>4, <1>5 DEF ConsoleInv, LinesInv, ConsoleTypeOK, RestOK, CallKinds

LEMMA RtcReadStep ==
    ASSUME ConsoleInv, RtcRead
    PROVE  ConsoleInv'
<1>1. LinesInv'
  BY InvParts DEF RtcRead, kbvars, LinesInv, KeyboardTypeOK, NothingBehindCursor,
                  CharsBeforeCursor, FlagMeansLine
<1>2. RestOK'
  BY InvParts, CallSteps DEF RtcRead, Calls, CallKinds
<1>3. RtcTypeOK'
  BY InvParts DEF RtcRead, AwaitInterrupt, rate, NoFlag, RtcTypeOK
<1>4. WaitsForNews'
  <2>1. call'.kind = "rtc" /\ current_terminal' = current_terminal
    BY DEF RtcRead, Calls, RtcCall
  <2>2. interruptFlags'[current_terminal] = 0
    BY InvParts DEF RtcRead, AwaitInterrupt, rate, NoFlag, RtcTypeOK, RestOK
  <2> QED
    BY <2>1, <2>2 DEF WaitsForNews, Interrupted
<1> QED
  BY <1>1, <1>2, <1>3, <1>4 DEF ConsoleInv, LinesInv, ConsoleTypeOK, RestOK, CallKinds

LEMMA RtcWriteStep ==
    ASSUME ConsoleInv, RtcWrite
    PROVE  ConsoleInv'
<1>1. LinesInv'
  BY InvParts DEF RtcWrite, kbvars, LinesInv, KeyboardTypeOK, NothingBehindCursor,
                  CharsBeforeCursor, FlagMeansLine
<1>2. RestOK'
  BY InvParts, CallSteps DEF RtcWrite, Calls, CallKinds
<1>3. RtcTypeOK'
  BY InvParts, SetFrequencyKeepsByte DEF RtcWrite
<1>4. WaitsForNews'
  BY DEF RtcWrite, Calls, None, WaitsForNews
<1> QED
  BY <1>1, <1>2, <1>3, <1>4 DEF ConsoleInv, LinesInv, ConsoleTypeOK, RestOK, CallKinds

LEMMA ReturnsStep ==
    ASSUME ConsoleInv, Returns
    PROVE  ConsoleInv'
<1>1. LinesInv'
  BY InvParts DEF Returns, kbvars, LinesInv, KeyboardTypeOK, NothingBehindCursor,
                  CharsBeforeCursor, FlagMeansLine
<1>2. RestOK'
  BY InvParts, CallSteps DEF Returns, CallKinds
<1>3. RtcTypeOK'
  BY InvParts DEF Returns, rtcvars, rate, RtcTypeOK
<1>4. WaitsForNews'
  BY DEF Returns, None, WaitsForNews
<1> QED
  BY <1>1, <1>2, <1>3, <1>4 DEF ConsoleInv, LinesInv, ConsoleTypeOK, RestOK, CallKinds

LEMMA ConsoleStutters ==
    ASSUME ConsoleInv, UNCHANGED cvars
    PROVE  ConsoleInv'
<1>1. UNCHANGED <<kbvars, rtcvars>> /\ UNCHANGED <<current_terminal, unbooted, alt_flag, call, since>>
  BY DEF cvars
<1>2. LinesInv'
  BY <1>1, InvParts DEF kbvars, LinesInv, KeyboardTypeOK, NothingBehindCursor,
                  CharsBeforeCursor, FlagMeansLine
<1>3. RestOK' /\ RtcTypeOK'
  BY <1>1, InvParts DEF rtcvars, rate, RtcTypeOK, RestOK, CallKinds
<1>4. WaitsForNews'
  BY <1>1, InvParts DEF kbvars, rtcvars, rate, WaitsForNews, Interrupted
<1> QED
  BY <1>2, <1>3, <1>4 DEF ConsoleInv, LinesInv, ConsoleTypeOK, RestOK, CallKinds

LEMMA ConsoleSteps ==
    ASSUME ConsoleInv, [ConsoleNext]_cvars
    PROVE  ConsoleInv'
  BY KeyStep, AltStep, AltFStep, BootTickStep, RtcTickStep, TerminalReadStep,
     RtcReadStep, RtcWriteStep, ReturnsStep, ConsoleStutters
  DEF ConsoleNext, TerminalReadReturns, RtcReadReturns

LEMMA ConsoleInvariant == ConsoleSpec => []ConsoleInv
<1>1. ConsoleInit => ConsoleInv
  BY ConsoleStarts
<1>2. ConsoleInv /\ [ConsoleNext]_cvars => ConsoleInv'
  BY ConsoleSteps
<1> QED
  BY <1>1, <1>2, PTL DEF ConsoleSpec

-----------------------------------------------------------------------------
(* The theorems.                                                           *)

(* Cursor, buffers, flags and register A stay within their bounds, under   *)
(* any order of keys, ticks, switches and calls: keyboard_print never      *)
(* writes past kb_buf, whatever was typed and erased.                      *)
THEOREM ConsoleTyping == ConsoleSpec => []ConsoleTypeOK
<1>1. ConsoleInv => ConsoleTypeOK
  BY DEF ConsoleInv
<1> QED
  BY <1>1, ConsoleInvariant, PTL

(* Behind the cursor of every buffer there is nothing but the newline that *)
(* reset_buffer forgets: what Ctrl+L repaints is the unfinished line.      *)
THEOREM OnlyTheLineIsKept == ConsoleSpec => []NothingBehindCursor
<1>1. ConsoleInv => NothingBehindCursor
  BY DEF ConsoleInv
<1> QED
  BY <1>1, ConsoleInvariant, PTL

(* terminal_read, given a buffer of TERM_BUF_SIZE, finds the newline of    *)
(* every line, also of one that filled kb_buf and was cut.                 *)
THEOREM ReadsOfALineSucceed == ConsoleSpec => []LargeReadsSucceed
<1>1. ConsoleInv => LargeReadsSucceed
  <2> SUFFICES ASSUME ConsoleInv, call.kind = "read", term_read_flag,
                      call.nbytes >= TermBufSize
               PROVE  -1 \notin ReadResults(call.nbytes)
    BY DEF LargeReadsSucceed
  <2>1. PICK n \in ReadSizes : call = ReadCall(n)
    BY DEF ConsoleInv, ConsoleTypeOK, None, RtcCall
  <2>2. n \in Nat /\ n >= TermBufSize /\ call.nbytes = n
    <3>0. ReadSizes \subseteq Nat
      BY Terminals
    <3>1. n \in Nat
      BY <3>0
    <3>2. call.nbytes = n
      BY <2>1 DEF ReadCall
    <3> QED
      BY <3>1, <3>2
  <2>3. PICK i \in Index : terminal_buf[i] = "NL"
    BY DEF ConsoleInv, FlagMeansLine
  <2>4. i < n
    BY <2>2, KeyboardAssumption DEF Index
  <2>5. {j \in Index : j < n /\ terminal_buf[j] = "NL"} # {}
    BY <2>3, <2>4
  <2> QED
    BY <2>2, <2>5 DEF ReadResults, Index
<1> QED
  BY <1>1, ConsoleInvariant, PTL

(* What 1 Hz does to the divider stays: its lowest bit is set for good.    *)
RateInv ==
    /\ reg_A \in 0 .. 255
    /\ stopped \in BOOLEAN
    /\ stopped => (reg_A \div 16) % 2 = 1
    /\ ~stopped => reg_A \div 16 = 2 /\ RateIsGenerated

(* No step of the console undoes it, a write of the rate included.         *)
LEMMA RateSteps == RateInv /\ [ConsoleNext]_cvars => RateInv'
<1> SUFFICES ASSUME RateInv, [ConsoleNext]_cvars PROVE RateInv'
  OBVIOUS
<1>1. CASE UNCHANGED rate
  BY <1>1 DEF rate, RateInv, RateIsGenerated
<1>2. CASE RtcWrite
  <2>1. PICK freq \in Frequencies : SetFrequency(freq)
    BY <1>2 DEF RtcWrite
  <2>2. CASE ~Accepted(freq)
    BY <1>1, <2>1, <2>2 DEF SetFrequency
  <2>3. CASE Accepted(freq)
    <3>1. PICK k \in 0 .. 10 : freq = 2^k
      BY <2>3 DEF Accepted
    <3>2. RegAVals(freq) = 16 - k
      <4>1. k \in 0 .. 15
        OBVIOUS
      <4> QED
        BY <3>1, <4>1, RateOfPower, Zenon
    <3>3. /\ reg_A' = NewRegA(reg_A, 16 - k) /\ asked' = freq
          /\ stopped' = (stopped \/ freq = 1)
      BY <2>1, <2>3, <3>2 DEF SetFrequency
    <3>4. reg_A \in 0 .. 255 /\ 16 - k \in 1 .. 16 /\ stopped \in BOOLEAN
      BY DEF RateInv
    <3>5. reg_A' \in 0 .. 255
      BY <3>3, <3>4, RegAByte
    <3>6. CASE k = 0
      <4>1. stopped' = TRUE
        <5>1. freq = 1
          <6>1. 2^0 = 1
            OBVIOUS
          <6> QED
            BY <3>1, <3>6, <6>1
        <5> QED
          BY <3>3, <5>1
      <4>2. (reg_A' \div 16) % 2 = 1
        <5>1. reg_A' = NewRegA(reg_A, 16)
          BY <3>3, <3>6
        <5> QED
          BY <3>4, <5>1, OneHertz
      <4> QED
        BY <3>5, <4>1, <4>2, Zenon DEF RateInv
    <3>7. CASE k # 0
      <4>1. k \in 1 .. 10 /\ 16 - k < 16 /\ 16 - k # 0
        BY <3>7
      <4>2. Divided(2^k, 15 - k)
        BY <4>1, PowersMultiply, Zenon
      <4>3. reg_A' % 16 = 16 - k /\ reg_A' \div 16 = reg_A \div 16
        BY <3>3, <3>4, <4>1, RegAByte
      <4>4. stopped' = stopped
        <5>1. freq # 1
          BY <3>1, <4>2 DEF Divided
        <5> QED
          BY <3>3, <3>4, <5>1
      <4>5. CASE stopped
        BY <3>5, <4>3, <4>4, <4>5, Zenon DEF RateInv
      <4>6. CASE ~stopped
        <5>1. reg_A' \div 16 = 2
          BY <4>3, <4>6, Zenon DEF RateInv
        <5>2. Ticking(reg_A')
          BY <4>1, <4>3, <5>1 DEF Ticking
        <5>3. asked' = 2^k /\ (reg_A' % 16) - 1 = 15 - k
          BY <3>1, <3>3, <4>3
        <5>4. asked' * 2^((reg_A' % 16) - 1) = 2^k * 2^(15 - k)
          BY <5>3, Zenon
        <5>5. RateIsGenerated'
          BY <4>2, <5>2, <5>4 DEF RateIsGenerated, Divided
        <5> QED
          BY <3>4, <3>5, <4>4, <4>6, <5>1, <5>5, Zenon DEF RateInv
      <4> QED
        BY <4>5, <4>6
    <3> QED
      BY <3>6, <3>7
  <2> QED
    BY <2>2, <2>3
<1> QED
  BY <1>1, <1>2 DEF ConsoleNext, Key, CharKey, BackspaceKey, EnterKey, Alt, AltF, BootTick,
     RtcTick, RtcInterrupt, TerminalRead, RtcRead, AwaitInterrupt, TerminalReadReturns,
     RtcReadReturns, Returns, cvars, rtcvars, rate

(* After any sequence of writes to the clock the chip generates the        *)
(* frequency of the last that was accepted, or, if one of them was 1 Hz,   *)
(* none (set_frequency).                                                   *)
THEOREM RatesAreRight == ConsoleSpec => []RateIsAsked
<1>1. ConsoleInit => RateInv
  <2> SUFFICES ASSUME ConsoleInit PROVE RateInv
    OBVIOUS
  <2>1. reg_A = 38 /\ asked = 1024 /\ stopped = FALSE
    BY DEF ConsoleInit, RtcInit
  <2>2. reg_A \in 0 .. 255 /\ reg_A \div 16 = 2 /\ reg_A % 16 = 6
    BY <2>1
  <2>3. Ticking(reg_A)
    BY <2>2 DEF Ticking
  <2>4. asked * 2^((reg_A % 16) - 1) = 1024 * 2^5 /\ 1024 * 2^5 = 32768
    BY <2>1, <2>2
  <2>5. RateIsGenerated
    BY <2>3, <2>4 DEF RateIsGenerated
  <2>6. ~stopped /\ stopped \in BOOLEAN
    BY <2>1, Zenon
  <2> QED
    BY <2>2, <2>5, <2>6, Zenon DEF RateInv
<1>2. RateInv => RateIsAsked
  BY DEF RateInv, RateIsAsked, Ticking
<1> QED
  BY <1>1, <1>2, RateSteps, PTL DEF ConsoleSpec

(* terminal_read clears the flag it waits for, so that it returns only for *)
(* a line that ends after the call.                                        *)
THEOREM ReadsWaitForLines == ConsoleSpec => ReadsNewLine
<1>1. ConsoleInv => (TerminalReadReturns => "line" \in since)
  BY DEF ConsoleInv, WaitsForNews, TerminalReadReturns
<1> QED
  BY <1>1, ConsoleInvariant, PTL DEF ReadsNewLine

(* rtc_read clears the flag it waits for, so that it returns only for an   *)
(* interrupt that comes after the call - or for another terminal's flag,   *)
(* if the user switches.                                                   *)
THEOREM ReadsWaitForTicks == ConsoleSpec => ReadsNewTick
<1>1. ConsoleInv => (RtcReadReturns => since \cap {"tick", "switch"} # {})
  BY DEF ConsoleInv, WaitsForNews, RtcReadReturns
<1> QED
  BY <1>1, ConsoleInvariant, PTL DEF ReadsNewTick

-----------------------------------------------------------------------------
(* The refinement of Lines.                                                *)

(* A line is what its buffer holds before the cursor.                      *)
LEMMA LinesEntry ==
    ASSUME NEW b \in Buffers
    PROVE  UnfinishedLines[b] =
               [i \in 1 .. buf_location[b] |-> kb_buf[b][i - 1]]
  BY DEF UnfinishedLines, Before

LEMMA UnfinishedAreSeqs ==
    ASSUME LinesInv, NEW b \in Buffers
    PROVE  /\ UnfinishedLines[b] \in Seq(Chars)
           /\ Len(UnfinishedLines[b]) = buf_location[b]
           /\ \A i \in 1 .. buf_location[b] : UnfinishedLines[b][i] = kb_buf[b][i - 1]
<1>1. buf_location[b] \in Nat /\ buf_location[b] < TermBufSize
  BY KeyboardAssumption DEF LinesInv, KeyboardTypeOK, Index
<1>2. \A i \in 1 .. buf_location[b] : i - 1 \in Index /\ i - 1 < buf_location[b]
  BY <1>1, KeyboardAssumption DEF Index
<1>3. \A i \in 1 .. buf_location[b] : kb_buf[b][i - 1] \in Chars
  BY <1>2 DEF LinesInv, CharsBeforeCursor
<1> DEFINE n == buf_location[b]
           line == [i \in 1 .. n |-> kb_buf[b][i - 1]]
<1>4. UnfinishedLines[b] = line
  BY LinesEntry
<1>5. line \in [1 .. n -> Chars] /\ n \in Nat
  BY <1>1, <1>3
<1>6. \A i \in 1 .. n : line[i] = kb_buf[b][i - 1]
  OBVIOUS
<1> HIDE DEF n, line
<1>7. line \in Seq(Chars) /\ Len(line) = n
  BY <1>5
<1> QED
  BY <1>4, <1>6, <1>7 DEF n

(* A line changes only with its cursor and the bytes before it.            *)
LEMMA LineKept ==
    ASSUME LinesInv, LinesInv', NEW b \in Buffers,
           buf_location'[b] = buf_location[b],
           \A i \in Index : i < buf_location[b] => kb_buf'[b][i] = kb_buf[b][i]
    PROVE  UnfinishedLines'[b] = UnfinishedLines[b]
<1>1. buf_location[b] \in Nat /\ buf_location[b] < TermBufSize
  BY KeyboardAssumption DEF LinesInv, KeyboardTypeOK, Index
<1>2. \A i \in 1 .. buf_location[b] : i - 1 \in Index /\ i - 1 < buf_location[b]
  BY <1>1, KeyboardAssumption DEF Index
<1>3. \A i \in 1 .. buf_location[b] : kb_buf'[b][i - 1] = kb_buf[b][i - 1]
  BY <1>2
<1>4. UnfinishedLines'[b] = [i \in 1 .. buf_location'[b] |-> kb_buf'[b][i - 1]]
  BY DEF UnfinishedLines, Before
<1> QED
  BY <1>3, <1>4, LinesEntry

LEMMA AddsToLine ==
    ASSUME LinesInv, NEW c \in Chars, TypeChar(c)
    PROVE  Abstract!Add
<1> DEFINE b == true_buffer
           at == buf_location[b]
<1>0. LinesInv'
  BY TypeCharKeepsLines
<1>1. /\ b \in Buffers /\ at \in Index /\ at < TermBufSize - 1
      /\ TermBufSize \in Nat
      /\ buf_location' = [buf_location EXCEPT ![b] = at + 1]
      /\ kb_buf' = [kb_buf EXCEPT ![b] = [kb_buf[b] EXCEPT ![at] = c]]
      /\ UNCHANGED <<true_buffer, terminal_buf, term_read_flag>>
      /\ kb_buf \in [Buffers -> [Index -> Bytes]]
      /\ buf_location \in [Buffers -> Index]
  BY KeyboardAssumption
  DEF LinesInv, KeyboardTypeOK, TypeChar, HasSpace, Location
<1>2. Len(UnfinishedLines[b]) < TermBufSize - 1
  BY <1>1, UnfinishedAreSeqs
<1>3. UnfinishedLines'[b] = Append(UnfinishedLines[b], c)
  <2>1. UnfinishedLines'[b] = [i \in 1 .. at + 1 |-> kb_buf'[b][i - 1]]
    BY <1>1 DEF UnfinishedLines, Before
  <2>2. at \in Nat /\ \A i \in 1 .. at + 1 : i - 1 \in Index
    BY <1>1 DEF Index
  <2>3. \A i \in 1 .. at : kb_buf'[b][i - 1] = kb_buf[b][i - 1]
    BY <1>1, <2>2
  <2>4. kb_buf'[b][at] = c
    BY <1>1
  <2>5. /\ UnfinishedLines[b] \in Seq(Chars) /\ Len(UnfinishedLines[b]) = at
        /\ \A i \in 1 .. at : UnfinishedLines[b][i] = kb_buf[b][i - 1]
    BY <1>1, UnfinishedAreSeqs
  <2>6. Append(UnfinishedLines[b], c) =
          [i \in 1 .. at + 1 |-> IF i = at + 1 THEN c ELSE UnfinishedLines[b][i]]
    BY <2>2, <2>5
  <2>7. \A i \in 1 .. at + 1 :
           kb_buf'[b][i - 1] = IF i = at + 1 THEN c ELSE UnfinishedLines[b][i]
    BY <2>2, <2>3, <2>4, <2>5
  <2> QED
    BY <2>1, <2>6, <2>7
<1>4. \A other \in Buffers \ {b} : UnfinishedLines'[other] = UnfinishedLines[other]
  BY <1>0, <1>1, LineKept
<1>5. UnfinishedLines' =
        [UnfinishedLines EXCEPT ![b] = Append(UnfinishedLines[b], c)]
  <2>1. UnfinishedLines = [x \in Buffers |-> UnfinishedLines[x]]
    BY DEF UnfinishedLines
  <2>2. UnfinishedLines' = [x \in Buffers |-> UnfinishedLines'[x]]
    BY DEF UnfinishedLines
  <2> QED
    BY <1>1, <1>3, <1>4, <2>1, <2>2
<1>6. UNCHANGED ReadyLine
  BY <1>1 DEF ReadyLine, Before, ReadResults
<1> QED
  BY <1>1, <1>2, <1>5, <1>6 DEF Abstract!Add

LEMMA ErasesFromLine ==
    ASSUME LinesInv, Backspace
    PROVE  Abstract!Erase
<1> DEFINE b == true_buffer
           at == buf_location[b]
<1>0. LinesInv'
  BY BackspaceKeepsLines
<1>1. /\ b \in Buffers /\ at \in Index /\ at > 0
      /\ TermBufSize \in Nat
      /\ buf_location' = [buf_location EXCEPT ![b] = at - 1]
      /\ kb_buf' = [kb_buf EXCEPT ![b] = [kb_buf[b] EXCEPT ![at - 1] = "NUL"]]
      /\ UNCHANGED <<true_buffer, terminal_buf, term_read_flag>>
      /\ kb_buf \in [Buffers -> [Index -> Bytes]]
      /\ buf_location \in [Buffers -> Index]
  BY KeyboardAssumption
  DEF LinesInv, KeyboardTypeOK, Backspace, Erased, Text, Location
<1>2. /\ UnfinishedLines[b] \in Seq(Chars) /\ Len(UnfinishedLines[b]) = at
      /\ \A i \in 1 .. at : UnfinishedLines[b][i] = kb_buf[b][i - 1]
  BY <1>1, UnfinishedAreSeqs
<1>3. UnfinishedLines'[b] = SubSeq(UnfinishedLines[b], 1, at - 1)
  <2>1. UnfinishedLines'[b] = [i \in 1 .. at - 1 |-> kb_buf'[b][i - 1]]
    BY <1>1 DEF UnfinishedLines, Before
  <2>2. at \in Nat /\ \A i \in 1 .. at - 1 : i - 1 \in Index /\ i - 1 # at - 1
    BY <1>1 DEF Index
  <2>3. \A i \in 1 .. at - 1 : kb_buf'[b][i - 1] = kb_buf[b][i - 1]
    BY <1>1, <2>2
  <2>4. SubSeq(UnfinishedLines[b], 1, at - 1) =
          [i \in 1 .. at - 1 |-> UnfinishedLines[b][i]]
    BY <1>1, <1>2, <2>2
  <2>5. \A i \in 1 .. at - 1 : UnfinishedLines[b][i] = kb_buf'[b][i - 1]
    BY <1>2, <2>2, <2>3
  <2> QED
    BY <2>1, <2>4, <2>5
<1>4. \A other \in Buffers \ {b} : UnfinishedLines'[other] = UnfinishedLines[other]
  BY <1>0, <1>1, LineKept
<1>5. UnfinishedLines' =
        [UnfinishedLines EXCEPT ![b] = SubSeq(@, 1, Len(@) - 1)]
  <2>1. UnfinishedLines = [x \in Buffers |-> UnfinishedLines[x]]
    BY DEF UnfinishedLines
  <2>2. UnfinishedLines' = [x \in Buffers |-> UnfinishedLines'[x]]
    BY DEF UnfinishedLines
  <2> QED
    BY <1>1, <1>2, <1>3, <1>4, <2>1, <2>2
<1>6. UnfinishedLines[b] # <<>>
  BY <1>1, <1>2
<1>7. UNCHANGED ReadyLine
  BY <1>1 DEF ReadyLine, Before, ReadResults
<1> QED
  BY <1>1, <1>5, <1>6, <1>7 DEF Abstract!Erase

(* The newline Enter writes is the first of the completed line: a read     *)
(* returns what was before it.                                             *)
LEMMA FinishesLine ==
    ASSUME LinesInv, Enter
    PROVE  Abstract!Finish
<1> DEFINE b == true_buffer
           at == buf_location[b]
<1>0. LinesInv'
  BY EnterKeepsLines
<1>1. /\ b \in Buffers /\ at \in Index
      /\ TermBufSize \in Nat
      /\ buf_location' = [buf_location EXCEPT ![b] = 0]
      /\ \A other \in Buffers \ {b} : kb_buf'[other] = kb_buf[other]
      /\ terminal_buf' = [kb_buf[b] EXCEPT ![at] = "NL"]
      /\ term_read_flag' = TRUE
      /\ true_buffer' = true_buffer
      /\ kb_buf \in [Buffers -> [Index -> Bytes]]
      /\ buf_location \in [Buffers -> Index]
  BY KeyboardAssumption, EnterEffect
  DEF LinesInv, KeyboardTypeOK, Text, Location
<1>2. at \in Nat /\ at < TermBufSize
  BY <1>1 DEF Index
<1>3. terminal_buf'[at] = "NL"
  BY <1>1
<1>4. \A i \in Index : i < at => /\ terminal_buf'[i] = kb_buf[b][i]
                                 /\ terminal_buf'[i] # "NL"
  BY <1>1, KeyboardAssumption DEF LinesInv, CharsBeforeCursor, Index
<1>5. ReadResults(TermBufSize)' = {at + 1}
  <2> DEFINE ends == {i \in Index : i < TermBufSize /\ terminal_buf'[i] = "NL"}
  <2>1. at \in ends /\ \A j \in ends : at <= j /\ j \in Nat
    BY <1>1, <1>2, <1>3, <1>4 DEF Index
  <2>2. ReadResults(TermBufSize)' =
          IF ends = {} THEN {-1}
          ELSE {i + 1 : i \in {j \in ends : \A k \in ends : j <= k}}
    BY DEF ReadResults, Index
  <2> HIDE DEF ends
  <2>3. {j \in ends : \A k \in ends : j <= k} = {at}
    BY <2>1, <1>2
  <2> QED
    BY <2>1, <2>2, <2>3
<1>6. Before(terminal_buf', at) = UnfinishedLines[b]
  <2>1. \A i \in 1 .. at : i - 1 \in Index /\ i - 1 < at
    <3>1. TermBufSize \in Nat
      BY <1>1
    <3> QED
      BY <1>2, <3>1 DEF Index
  <2>2. \A i \in 1 .. at : terminal_buf'[i - 1] = kb_buf[b][i - 1]
    BY <1>4, <2>1
  <2>3. Before(terminal_buf', at) = [i \in 1 .. at |-> kb_buf[b][i - 1]]
    BY <2>2 DEF Before
  <2>4. b \in Buffers
    BY <1>1
  <2> QED
    BY <2>3, <2>4, LinesEntry
<1>7. ReadyLine' = {UnfinishedLines[b]}
  <2>1. ReadyLine' = {Before(terminal_buf', r - 1) : r \in {at + 1}}
    BY <1>1, <1>5 DEF ReadyLine
  <2>2. (at + 1) - 1 = at
    BY <1>2
  <2> QED
    BY <1>6, <2>1, <2>2
<1>8. UnfinishedLines'[b] = <<>>
  BY <1>0, <1>1, UnfinishedAreSeqs DEF UnfinishedLines, Before
<1>9. \A other \in Buffers \ {b} : UnfinishedLines'[other] = UnfinishedLines[other]
  BY <1>0, <1>1, LineKept
<1>10. UnfinishedLines' = [UnfinishedLines EXCEPT ![b] = <<>>]
  <2>1. UnfinishedLines = [x \in Buffers |-> UnfinishedLines[x]]
    BY DEF UnfinishedLines
  <2>2. UnfinishedLines' = [x \in Buffers |-> UnfinishedLines'[x]]
    BY DEF UnfinishedLines
  <2> QED
    BY <1>1, <1>8, <1>9, <2>1, <2>2
<1> QED
  BY <1>1, <1>7, <1>10 DEF Abstract!Finish

(* Steps of the clock, of the boot and of Alt, and the return of a read.   *)
LEMMA KeyboardRests ==
    ASSUME UNCHANGED kbvars
    PROVE  UNCHANGED Abstract!vars
  BY DEF kbvars, Abstract!vars, UnfinishedLines, ReadyLine, Before, ReadResults

LEMMA LinesStep ==
    ASSUME ConsoleInv, [ConsoleNext]_cvars
    PROVE  [Abstract!Next]_(Abstract!vars)
<1> USE InvParts
<1>1. CASE Key
  BY <1>1, AddsToLine, ErasesFromLine, FinishesLine
  DEF Key, CharKey, BackspaceKey, EnterKey, Abstract!Next
<1>2. CASE AltF
  <2>1. true_buffer' \in Buffers
    BY <1>2, Terminals DEF AltF, Bind, RestOK
  <2>2. UNCHANGED <<UnfinishedLines, ReadyLine>>
    BY <1>2 DEF AltF, Bind, UnfinishedLines, ReadyLine, Before, ReadResults
  <2> QED
    BY <2>1, <2>2 DEF Abstract!Next, Abstract!Rebind
<1>3. CASE TerminalRead
  <2>1. ReadyLine' = {}
    BY <1>3 DEF TerminalRead, AwaitLine, NoLine, ReadyLine
  <2>2. UNCHANGED <<UnfinishedLines, true_buffer>>
    BY <1>3 DEF TerminalRead, AwaitLine, UnfinishedLines, Before
  <2> QED
    BY <2>1, <2>2 DEF Abstract!Next, Abstract!Await
<1>4. CASE Alt \/ BootTick \/ RtcTick \/ RtcRead \/ RtcWrite \/ Returns \/ UNCHANGED cvars
  BY <1>4, KeyboardRests DEF Alt, BootTick, RtcTick, RtcRead, RtcWrite, Returns, cvars
<1> QED
  BY <1>1, <1>2, <1>3, <1>4 DEF ConsoleNext, TerminalReadReturns, RtcReadReturns

LEMMA LinesStart == ConsoleInit => Abstract!Init
<1> SUFFICES ASSUME ConsoleInit PROVE Abstract!Init
  OBVIOUS
<1>1. KeyboardInit
  BY DEF ConsoleInit
<1>2. UnfinishedLines = [b \in Buffers |-> <<>>]
  BY <1>1 DEF KeyboardInit, UnfinishedLines, Before
<1>3. ReadyLine = {} /\ true_buffer \in Buffers
  BY <1>1, KeyboardAssumption DEF KeyboardInit, ReadyLine
<1> QED
  BY <1>2, <1>3 DEF Abstract!Init

(* keyboard_print and terminal_read implement the line editor, for any     *)
(* number of terminals and size of the buffers: a read returns the line    *)
(* that was typed last, as the user left it, and nothing of the lines that *)
(* were in the arrays before.                                              *)
THEOREM ImplementsLines == ConsoleSpec => RefinesLines
<1>1. ConsoleInit => Abstract!Init
  BY LinesStart
<1>2. ConsoleInv /\ [ConsoleNext]_cvars => [Abstract!Next]_(Abstract!vars)
  BY LinesStep
<1> QED
  BY <1>1, <1>2, ConsoleInvariant, PTL DEF ConsoleSpec, RefinesLines, Abstract!Spec

-----------------------------------------------------------------------------
(* The echo.                                                               *)

(* The first length bytes of text are displayed before the cursor.         *)
LineOn(d, text, length) ==
    /\ length <= Cursor(d)
    /\ \A i \in 0 .. length - 1 : d.mem[Cursor(d) - length + i] = text[i]

Shown == Chars \cup {"SP", "?"}

LEMMA CursorIsNat ==
    ASSUME NEW d \in Displayed(Shown)
    PROVE  Cursor(d) \in Nat /\ Cursor(d) < LastRow + NumCols
<1>1. Cursor(d) \in Cells
  BY CursorInCells DEF Cursor, Displayed
<1> QED
  BY <1>1, Sizes DEF Cells

LEMMA EmptyLineOn ==
    ASSUME NEW d \in Displayed(Shown), NEW text
    PROVE  LineOn(d, text, 0)
  BY CursorIsNat DEF LineOn

(* The character echoed goes behind the line, also when the display        *)
(* scrolls: the line moves up with its cursor.                             *)
LEMMA CharOnLine ==
    ASSUME NEW d \in Displayed(Shown), NEW c \in Chars,
           NEW text, NEW length \in Nat, length + 1 <= LastRow,
           LineOn(d, text, length),
           NEW longer, longer[length] = c,
           \A i \in 0 .. length - 1 : longer[i] = text[i]
    PROVE  /\ PutC(d, c) \in Displayed(Shown)
           /\ LineOn(PutC(d, c), longer, length + 1)
<1> DEFINE e == PutC(d, c)
           cur == Cursor(d)
           mem == [d.mem EXCEPT ![Cursor(d)] = c]
<1>1. c \in Shown /\ "SP" \in Shown /\ c # "NL"
  BY KeyboardAssumption DEF Shown
<1>2. /\ e \in Displayed(Shown)
      /\ cur \in Cells
      /\ \/ Cursor(e) = cur + 1 /\ e.mem = mem
         \/ /\ Cursor(e) = LastRow
            /\ cur + 1 = LastRow + NumCols
            /\ \A i \in Cells : e.mem[i] =
                  IF i < LastRow THEN mem[i + NumCols] ELSE "SP"
  BY <1>1, CharEffect
<1>3. d.mem \in [Cells -> Shown]
  BY DEF Displayed
<1>4. cur \in Nat /\ length <= cur
  BY CursorIsNat DEF LineOn
<1>5. \A i \in Nat : i <= cur => i \in Cells
  BY <1>2, <1>4, Sizes DEF Cells
<1>6. \A i \in 0 .. length : mem[cur - length + i] = longer[i]
  <2> SUFFICES ASSUME NEW i \in 0 .. length
               PROVE  mem[cur - length + i] = longer[i]
    OBVIOUS
  <2>1. cur - length + i \in Cells /\ (cur - length + i = cur <=> i = length)
    BY <1>4, <1>5
  <2>2. i # length => d.mem[cur - length + i] = longer[i]
    BY <1>4 DEF LineOn
  <2> QED
    BY <1>2, <1>3, <2>1, <2>2
<1> HIDE DEF e, cur, mem
<1>7. CASE Cursor(e) = cur + 1 /\ e.mem = mem
  <2>1. /\ \A i \in 0 .. length :
              Cursor(e) - (length + 1) + i = cur - length + i
        /\ length + 1 <= Cursor(e)
        /\ (length + 1) - 1 = length
    BY <1>4, <1>7
  <2>2. \A i \in 0 .. length : e.mem[Cursor(e) - (length + 1) + i] = longer[i]
    BY <1>6, <1>7, <2>1
  <2> QED
    BY <1>2, <2>1, <2>2 DEF LineOn, e
<1>8. CASE /\ Cursor(e) = LastRow
           /\ cur + 1 = LastRow + NumCols
           /\ \A i \in Cells : e.mem[i] =
                 IF i < LastRow THEN mem[i + NumCols] ELSE "SP"
  <2>1. \A i \in 0 .. length :
          LET at == LastRow - (length + 1) + i IN
          at \in Cells /\ at < LastRow /\ at + NumCols = cur - length + i
    BY <1>4, <1>8, Sizes DEF Cells
  <2>2. \A i \in 0 .. length : e.mem[LastRow - (length + 1) + i] = longer[i]
    BY <1>6, <1>8, <2>1
  <2>3. (length + 1) - 1 = length
    OBVIOUS
  <2> QED
    BY <1>2, <1>8, <2>2, <2>3 DEF LineOn, e
<1> QED
  BY <1>2, <1>7, <1>8

(* Erasing takes the last character from display and line alike.           *)
LEMMA EraseOnLine ==
    ASSUME NEW d \in Displayed(Shown),
           NEW text, NEW length \in Nat, length > 0, LineOn(d, text, length),
           NEW shorter, \A i \in 0 .. length - 2 : shorter[i] = text[i]
    PROVE  /\ Deleted(d) \in Displayed(Shown)
           /\ LineOn(Deleted(d), shorter, length - 1)
<1> DEFINE e == Deleted(d)
           cur == Cursor(d)
<1>1. "SP" \in Shown
  BY DEF Shown
<1>2. cur \in Nat /\ length <= cur /\ cur > 0
  BY CursorIsNat DEF LineOn
<1>3. /\ e \in Displayed(Shown)
      /\ Cursor(e) = cur - 1
      /\ e.mem = [d.mem EXCEPT ![cur - 1] = "SP"]
      /\ cur \in Cells
  BY <1>1, <1>2, DeleteEffect
<1>4. d.mem \in [Cells -> Shown]
  BY DEF Displayed
<1>5. \A i \in 0 .. length - 2 : d.mem[cur - length + i] = text[i]
  BY DEF LineOn
<1> HIDE DEF e, cur
<1>6. \A i \in 0 .. length - 2 :
        /\ (cur - 1) - (length - 1) + i = cur - length + i
        /\ cur - length + i # cur - 1
        /\ cur - length + i \in Cells
  BY <1>2, <1>3, Sizes DEF Cells
<1>7. \A i \in 0 .. length - 2 : e.mem[(cur - 1) - (length - 1) + i] = shorter[i]
  BY <1>3, <1>4, <1>5, <1>6
<1>8. (length - 1) - 1 = length - 2 /\ length - 1 <= cur - 1
  BY <1>2
<1> QED
  BY <1>3, <1>7, <1>8 DEF LineOn, e

LEMMA ScreenHoldsLines ==
    /\ TermBufSize \in Nat /\ TermBufSize - 1 <= LastRow
    /\ \A length \in Index : length \in Nat /\ length <= LastRow
<1>1. TermBufSize \in Nat /\ TermBufSize - 1 <= LastRow
  BY KeyboardAssumption, EchoAssumption DEF LastRow
<1> QED
  BY <1>1, Sizes DEF Index

Buffer == [i \in 1 .. TermBufSize |-> Text[i - 1]]

LEMMA BufferIsText ==
    ASSUME LinesInv
    PROVE  /\ Buffer \in Seq(Bytes)
           /\ Len(Buffer) = TermBufSize
           /\ \A n \in 1 .. TermBufSize : n - 1 \in Index /\ Buffer[n] = Text[n - 1]
<1>1. Text \in [Index -> Bytes]
  BY DEF LinesInv, KeyboardTypeOK, Text
<1>2. TermBufSize \in Nat /\ \A n \in 1 .. TermBufSize : n - 1 \in Index
  BY ScreenHoldsLines DEF Index
<1>3. Buffer \in [1 .. TermBufSize -> Bytes]
  BY <1>1, <1>2 DEF Buffer
<1> QED
  BY <1>2, <1>3 DEF Buffer

(* Ctrl+L paints the line; what follows it in the buffer is skipped.       *)
LEMMA PaintsLine ==
    ASSUME LinesInv
    PROVE  /\ Printed(Clear, Buffer) \in Displayed(Shown)
           /\ Text[TermBufSize - 1] # "NL" =>
                 LineOn(Printed(Clear, Buffer), Text, Location)
<1>1. /\ Clear \in Displayed(Shown) /\ BlankFrom(Clear)
      /\ "SP" \in Shown
  <2>1. 0 \in 0 .. NumCols - 1 /\ 0 \in 0 .. NumRows - 1
    BY Sizes
  <2> QED
    BY <2>1 DEF Clear, Displayed, BlankFrom, Shown
<1>2. Printed(Clear, Buffer) \in Displayed(Shown)
  <2>1. Buffer \in Seq(Shown \cup {"NL", "NUL"})
    BY BufferIsText DEF Bytes, Shown
  <2> QED
    BY <1>1, <2>1, PrintedKeepsBlank
<1>3. ASSUME Text[TermBufSize - 1] # "NL"
      PROVE  LineOn(Printed(Clear, Buffer), Text, Location)
  <2> DEFINE f == Printing(Clear, Buffer)
             painted(n) == IF n < Location THEN n ELSE Location
             Good(n) == /\ f[n] \in Displayed(Shown)
                        /\ LineOn(f[n], Text, painted(n))
             Reached == {n \in Nat : n <= TermBufSize => Good(n)}
  <2>1. /\ f[0] = Clear
        /\ \A n \in 1 .. TermBufSize : f[n] =
              IF Buffer[n] = "NUL" THEN f[n - 1] ELSE PutC(f[n - 1], Buffer[n])
    <3>1. Len(Buffer) = TermBufSize /\ Len(Buffer) \in Nat
      BY BufferIsText, ScreenHoldsLines
    <3> HIDE DEF f
    <3>2. /\ f[0] = Clear
          /\ \A n \in 1 .. Len(Buffer) : f[n] =
                IF Buffer[n] = "NUL" THEN f[n - 1] ELSE PutC(f[n - 1], Buffer[n])
      BY <3>1, PrintingSteps DEF f
    <3> QED
      BY <3>1, <3>2
  <2>2. /\ Location \in Index /\ Location \in Nat
        /\ Location < TermBufSize /\ Location <= LastRow
    BY ScreenHoldsLines DEF LinesInv, KeyboardTypeOK, Location, Index
  <2>3. \A i \in Index : i < Location => Text[i] \in Chars
    BY DEF LinesInv, KeyboardTypeOK, CharsBeforeCursor, Text, Location
  <2>4. \A i \in Index : i >= Location => Text[i] = "NUL"
    <3>1. \A i \in Index : i >= Location =>
             \/ Text[i] = "NUL"
             \/ i = TermBufSize - 1 /\ Text[i] = "NL"
      <4>1. true_buffer \in Buffers /\ NothingBehindCursor
        BY DEF LinesInv, KeyboardTypeOK
      <4> QED
        BY <4>1 DEF NothingBehindCursor, Text, Location
    <3> QED
      BY <1>3, <3>1
  <2> HIDE DEF f
  <2>5. 0 \in Reached
    <3>1. painted(0) = 0
      BY <2>2
    <3> QED
      BY <1>1, <2>1, <3>1, EmptyLineOn
  <2>6. \A n \in Reached : n + 1 \in Reached
    <3> SUFFICES ASSUME NEW n \in Nat, Good(n), n + 1 <= TermBufSize
                 PROVE  Good(n + 1)
      BY ScreenHoldsLines
    <3>1. /\ n \in Index /\ Buffer[n + 1] = Text[n]
          /\ f[n + 1] = IF Text[n] = "NUL" THEN f[n] ELSE PutC(f[n], Text[n])
      <4>1. n + 1 \in 1 .. TermBufSize /\ (n + 1) - 1 = n
        BY ScreenHoldsLines
      <4> QED
        BY <2>1, <4>1, BufferIsText
    <3>2. CASE n < Location
      <4>1. painted(n) = n /\ painted(n + 1) = n + 1 /\ n + 1 <= LastRow
        BY <2>2, <3>2, Sizes
      <4>2. Text[n] \in Chars /\ Text[n] # "NUL"
        BY <2>3, <3>1, <3>2, KeyboardAssumption
      <4>3. f[n] \in Displayed(Shown) /\ LineOn(f[n], Text, n)
        BY <4>1
      <4>4. /\ PutC(f[n], Text[n]) \in Displayed(Shown)
            /\ LineOn(PutC(f[n], Text[n]), Text, n + 1)
        BY <4>1, <4>2, <4>3, CharOnLine
      <4> QED
        BY <3>1, <4>1, <4>2, <4>4
    <3>3. CASE n >= Location
      <4>1. painted(n) = Location /\ painted(n + 1) = Location
        BY <2>2, <3>3
      <4>2. f[n + 1] = f[n]
        BY <2>4, <3>1, <3>3
      <4> QED
        BY <4>1, <4>2
    <3> QED
      BY <2>2, <3>2, <3>3
  <2> HIDE DEF Good
  <2>7. Reached = Nat
    <3>1. Reached \subseteq Nat
      OBVIOUS
    <3> HIDE DEF Reached
    <3> QED
      BY <2>5, <2>6, <3>1, Induction
  <2>8. Good(TermBufSize)
    <3>1. TermBufSize \in Reached
      BY <2>7, ScreenHoldsLines
    <3> QED
      BY <3>1, ScreenHoldsLines
  <2>9. painted(TermBufSize) = Location /\ f[TermBufSize] = Printed(Clear, Buffer)
    BY <2>2, BufferIsText, ScreenHoldsLines DEF f, Printed
  <2> QED
    BY <2>8, <2>9 DEF Good
<1> QED
  BY <1>2, <1>3

(* Every character but newline, and newline, leaves a display.             *)
LEMMA PutCDisplays ==
    ASSUME NEW d \in Displayed(Shown), NEW c \in Chars \cup {"NL"}
    PROVE  PutC(d, c) \in Displayed(Shown)
<1>1. "SP" \in Shown
  BY DEF Shown
<1>2. CASE c = "NL"
  BY <1>1, <1>2, NewlineEffect
<1>3. CASE c # "NL"
  <2>1. c \in Shown
    BY <1>3 DEF Shown
  <2> QED
    BY <1>1, <1>3, <2>1, CharEffect
<1> QED
  BY <1>2, <1>3

EchoInv == ConsoleInv /\ EchoTypeOK /\ LineOnDisplay

LEMMA DisplayedLine ==
    LineOnDisplay <=> (in_step => LineOn(display, Text, Location))
  BY DEF LineOnDisplay, LineOn, Cursor

LEMMA EchoStart == ConsoleInit /\ EchoStarts => EchoInv
<1> SUFFICES ASSUME ConsoleInit, EchoStarts PROVE EchoInv
  OBVIOUS
<1>1. ConsoleInv
  BY ConsoleStarts
<1>2. 0 \in 0 .. NumCols - 1 /\ 0 \in 0 .. NumRows - 1
  BY Sizes
<1>3. Clear \in Displayed(Shown)
  BY <1>2 DEF Clear, Displayed, Shown
<1>4. EchoTypeOK
  <2>1. 0 \in 0 .. MaxSwitches
    BY EchoAssumption
  <2> QED
    BY <1>3, <2>1 DEF EchoStarts, EchoTypeOK, Shown
<1>5. Location = 0
  BY KeyboardAssumption DEF ConsoleInit, KeyboardInit, Location
<1>6. LineOnDisplay
  BY <1>3, <1>5, EmptyLineOn, DisplayedLine DEF EchoStarts
<1> QED
  BY <1>1, <1>4, <1>6 DEF EchoInv

(* What is to be shown of a step: that display and line still agree, or    *)
(* that they are no longer said to.                                        *)
LEMMA EchoStepSuffices ==
    ASSUME ConsoleInv', display' \in Displayed(Shown),
           switches' \in 0 .. MaxSwitches, in_step' \in BOOLEAN,
           in_step' => Location' = 0 \/ LineOn(display', Text', Location')
    PROVE  EchoInv'
<1>1. EchoTypeOK'
  BY DEF EchoTypeOK, Shown
<1>2. Location' = 0 => LineOn(display', Text', Location')
  BY EmptyLineOn
<1>3. LineOnDisplay'
  <2>1. in_step' => LineOn(display', Text', Location')
    BY <1>2
  <2> QED
    BY <2>1 DEF LineOnDisplay, LineOn, Cursor
<1> QED
  BY <1>1, <1>3 DEF EchoInv

LEMMA EchoedCharStep ==
    ASSUME EchoInv, NEW c \in Chars, EchoedChar(c)
    PROVE  EchoInv'
<1>1. CharKey(c) /\ TypeChar(c)
  BY DEF EchoedChar, CharKey
<1>2. ConsoleInv'
  BY <1>1, KeyStep DEF EchoInv, Key
<1>3. /\ display \in Displayed(Shown) /\ switches' \in 0 .. MaxSwitches
      /\ display' = PutC(display, c)
  BY DEF EchoInv, EchoTypeOK, EchoedChar, Shows, Shown
<1>4. /\ Location \in Nat /\ Location + 1 <= LastRow
      /\ Location' = Location + 1
      /\ Text'[Location] = c
      /\ \A i \in 0 .. Location - 1 : Text'[i] = Text[i]
  <2>1. /\ true_buffer \in Buffers /\ Location \in Index
        /\ Location < TermBufSize - 1
        /\ Text \in [Index -> Bytes]
        /\ buf_location \in [Buffers -> Index]
        /\ kb_buf \in [Buffers -> [Index -> Bytes]]
    BY <1>1 DEF EchoInv, ConsoleInv, ConsoleTypeOK, KeyboardTypeOK, TypeChar,
                HasSpace, Location, Text
  <2>2. /\ Location' = Location + 1
        /\ Text' = [Text EXCEPT ![Location] = c]
    BY <1>1, <2>1 DEF TypeChar, Location, Text
  <2>3. Location \in Nat /\ Location + 1 <= LastRow
    <3>1. TermBufSize \in Nat /\ TermBufSize - 1 <= LastRow /\ LastRow \in Nat
      BY ScreenHoldsLines, Sizes
    <3>2. Location \in Nat /\ Location < TermBufSize - 1
      BY <2>1, ScreenHoldsLines
    <3> QED
      BY <3>1, <3>2
  <2>4. \A i \in 0 .. Location - 1 : i \in Index /\ i # Location
    BY <2>1, <2>3, ScreenHoldsLines DEF Index
  <2> QED
    BY <2>1, <2>2, <2>3, <2>4
<1>5. display' \in Displayed(Shown)
  BY <1>3, PutCDisplays
<1>6. in_step' = (in_step \/ Location' = 0)
  BY DEF EchoedChar, InStep, Location
<1>7. in_step => LineOn(display', Text', Location')
  BY <1>3, <1>4, CharOnLine, DisplayedLine DEF EchoInv
<1> QED
  BY <1>2, <1>3, <1>5, <1>6, <1>7, EchoStepSuffices DEF EchoedChar, InStep

LEMMA EchoedBackspaceStep ==
    ASSUME EchoInv, EchoedBackspace
    PROVE  EchoInv'
<1>1. BackspaceKey /\ Backspace
  BY DEF EchoedBackspace, BackspaceKey
<1>2. ConsoleInv'
  BY <1>1, KeyStep DEF EchoInv, Key
<1>3. /\ display \in Displayed(Shown) /\ switches' \in 0 .. MaxSwitches
      /\ display' = Deleted(display)
  BY DEF EchoInv, EchoTypeOK, EchoedBackspace, Shows, Shown
<1>4. /\ Location \in Nat /\ Location > 0
      /\ Location' = Location - 1
      /\ \A i \in 0 .. Location - 2 : Text'[i] = Text[i]
  <2>1. /\ true_buffer \in Buffers /\ Location \in Index
        /\ Location > 0
        /\ Text \in [Index -> Bytes]
        /\ buf_location \in [Buffers -> Index]
        /\ kb_buf \in [Buffers -> [Index -> Bytes]]
    BY <1>1 DEF EchoInv, ConsoleInv, ConsoleTypeOK, KeyboardTypeOK, Backspace,
                Location, Text
  <2>2. /\ Location' = Location - 1
        /\ Text' = [Text EXCEPT ![Location - 1] = "NUL"]
    BY <1>1, <2>1 DEF Backspace, Erased, Location, Text
  <2>3. Location \in Nat
    BY <2>1, ScreenHoldsLines
  <2>4. \A i \in 0 .. Location - 2 : i \in Index /\ i # Location - 1
    BY <2>1, <2>3, ScreenHoldsLines DEF Index
  <2> QED
    BY <2>1, <2>2, <2>3, <2>4
<1>5. display' \in Displayed(Shown)
  <2>1. "SP" \in Shown
    BY DEF Shown
  <2> QED
    BY <1>3, <2>1, DeleteEffect
<1>6. in_step' = (in_step \/ Location' = 0)
  BY DEF EchoedBackspace, InStep, Location
<1>7. in_step => LineOn(display', Text', Location')
  BY <1>3, <1>4, EraseOnLine, DisplayedLine DEF EchoInv
<1> QED
  BY <1>2, <1>3, <1>5, <1>6, <1>7, EchoStepSuffices DEF EchoedBackspace, InStep

LEMMA PicturesAreDisplays ==
    ASSUME NEW d \in Pictures
    PROVE  d \in Displayed(Shown)
  BY DEF Pictures, Displayed, Shown

LEMMA CtrlLStep ==
    ASSUME EchoInv, CtrlL
    PROVE  EchoInv'
<1>1. UNCHANGED cvars
  BY DEF CtrlL
<1>2. ConsoleInv'
  BY <1>1, ConsoleStutters DEF EchoInv
<1>3. Text' = Text /\ Location' = Location
  BY <1>1 DEF cvars, kbvars, Text, Location
<1>4. display' = Printed(Clear, Buffer) /\ switches' \in 0 .. MaxSwitches
  BY DEF CtrlL, Shows, Buffer, EchoInv, EchoTypeOK
<1>5. /\ display' \in Displayed(Shown)
      /\ Text[TermBufSize - 1] # "NL" => LineOn(display', Text, Location)
  BY <1>4, PaintsLine, InvParts DEF EchoInv
<1>6. in_step' = (Text[TermBufSize - 1] # "NL" \/ Location' = 0)
  BY DEF CtrlL, InStep, Location
<1> QED
  BY <1>2, <1>3, <1>4, <1>5, <1>6, EchoStepSuffices

(* Keys and ticks that only replace what is displayed, and output.         *)
LEMMA OtherEchoStep ==
    ASSUME EchoInv, EchoedEnter \/ AltKey \/ SwitchKey \/ SwitchTick \/ ProgramPrints
    PROVE  EchoInv'
<1>0. /\ ConsoleInv /\ display \in Displayed(Shown)
      /\ switches \in 0 .. MaxSwitches /\ in_step \in BOOLEAN
      /\ MaxSwitches \in Nat
  BY EchoAssumption DEF EchoInv, EchoTypeOK, Shown
<1>1. CASE EchoedEnter
  <2>1. ConsoleInv'
    BY <1>0, <1>1, KeyStep DEF EchoedEnter, Key
  <2>2. display' = PutC(display, "NL") /\ UNCHANGED switches
    BY <1>1 DEF EchoedEnter, Shows
  <2>3. display' \in Displayed(Shown)
    BY <1>0, <2>2, PutCDisplays
  <2>4. Location' = 0
    <3>1. true_buffer \in Buffers /\ buf_location \in [Buffers -> Index]
      BY <1>0 DEF ConsoleInv, ConsoleTypeOK, KeyboardTypeOK
    <3> QED
      BY <1>1, <3>1 DEF EchoedEnter, EnterKey, Enter, NewLocation, Location
  <2>5. in_step' \in BOOLEAN
    BY <1>1 DEF EchoedEnter, InStep
  <2> QED
    BY <1>0, <2>1, <2>2, <2>3, <2>4, <2>5, EchoStepSuffices
<1>2. CASE AltKey
  <2>1. ConsoleInv'
    BY <1>0, <1>2, AltStep DEF AltKey
  <2>2. UNCHANGED <<echovars, kbvars>>
    BY <1>2 DEF AltKey, Alt
  <2>3. UNCHANGED <<display, switches, in_step>> /\ Text' = Text /\ Location' = Location
    BY <2>2 DEF echovars, kbvars, Text, Location
  <2> QED
    BY <1>0, <2>1, <2>3, EchoStepSuffices, DisplayedLine DEF EchoInv
<1>3. CASE SwitchKey
  <2>1. ConsoleInv'
    BY <1>0, <1>3, AltFStep DEF SwitchKey
  <2>2. display' \in Displayed(Shown)
    BY <1>0, <1>3, PicturesAreDisplays DEF SwitchKey, ShowsTerminal
  <2>3. switches' \in 0 .. MaxSwitches
    BY <1>0, <1>3 DEF SwitchKey
  <2>4. in_step' = (FALSE \/ Location' = 0)
    BY <1>3 DEF SwitchKey, InStep, Location
  <2> QED
    BY <2>1, <2>2, <2>3, <2>4, EchoStepSuffices
<1>4. CASE SwitchTick
  <2>1. ConsoleInv'
    BY <1>0, <1>4, BootTickStep DEF SwitchTick
  <2>2. display' \in Displayed(Shown)
    BY <1>0, <1>4, PicturesAreDisplays DEF SwitchTick, ShowsTerminal
  <2>3. UNCHANGED <<switches, kbvars>>
    BY <1>4 DEF SwitchTick, BootTick
  <2>4. in_step' = ((in_step /\ display' = display) \/ Location' = 0)
    BY <1>4 DEF SwitchTick, InStep, Location
  <2>5. Text' = Text /\ Location' = Location
    BY <2>3 DEF kbvars, Text, Location
  <2> QED
    BY <1>0, <2>1, <2>2, <2>3, <2>4, <2>5, EchoStepSuffices, DisplayedLine DEF EchoInv
<1>5. CASE ProgramPrints
  <2>1. ConsoleInv'
    BY <1>0, <1>5, ConsoleStutters DEF ProgramPrints
  <2>2. PICK c \in Chars \cup {"NL"} : display' = PutC(display, c) /\ UNCHANGED switches
    BY <1>5 DEF ProgramPrints, Shows
  <2>3. display' \in Displayed(Shown)
    BY <1>0, <2>2, PutCDisplays
  <2>4. in_step' = (FALSE \/ Location' = 0)
    BY <1>5 DEF ProgramPrints, InStep, Location
  <2> QED
    BY <1>0, <2>1, <2>2, <2>3, <2>4, EchoStepSuffices
<1> QED
  BY <1>1, <1>2, <1>3, <1>4, <1>5

LEMMA EchoSteps ==
    ASSUME EchoInv, [EchoNext]_evars
    PROVE  EchoInv'
<1>1. CASE UNCHANGED evars
  <2>1. UNCHANGED cvars /\ UNCHANGED <<display, switches, in_step>>
    BY <1>1 DEF evars, echovars
  <2>2. ConsoleInv'
    BY <2>1, ConsoleStutters DEF EchoInv
  <2>3. Text' = Text /\ Location' = Location
    BY <2>1 DEF cvars, kbvars, Text, Location
  <2> QED
    BY <2>1, <2>2, <2>3, EchoStepSuffices, DisplayedLine DEF EchoInv, EchoTypeOK, Shown
<1> QED
  BY <1>1, EchoedCharStep, EchoedBackspaceStep, CtrlLStep, OtherEchoStep DEF EchoNext

(* What the user sees before the cursor is the line a read will return, on *)
(* any display that has room for a line under the row that scrolls away:   *)
(* keyboard_print's bookkeeping of line and screen never diverges through  *)
(* wrapping, scrolling, erasing across rows, dropped keys and Ctrl+L.      *)
THEOREM LinesAreOnDisplay == EchoSpec => [](EchoTypeOK /\ LineOnDisplay)
<1>1. ConsoleInit /\ EchoStarts => EchoInv
  BY EchoStart
<1>2. EchoInv /\ [EchoNext]_evars => EchoInv'
  BY EchoSteps
<1>3. EchoInv => EchoTypeOK /\ LineOnDisplay
  BY DEF EchoInv
<1> QED
  BY <1>1, <1>2, <1>3, PTL DEF EchoSpec

(* The same of the specification TLC checks, in which calls or the display *)
(* move.                                                                   *)
THEOREM LinesAreOnDisplayMC == MCSpec => []LineShown
<1> DEFINE Inv == part = "echo" => EchoInv
<1>1. MCInit => Inv
  BY EchoStart DEF MCInit
<1>2. Inv /\ [MCNext]_mcvars => Inv'
  <2> SUFFICES ASSUME part = "echo" => EchoInv, [MCNext]_mcvars, part' = "echo"
               PROVE  EchoInv'
    OBVIOUS
  <2>1. part = "echo" /\ [EchoNext]_evars
    BY DEF MCNext, mcvars, evars, EchoNext
  <2> QED
    BY <2>1, EchoSteps
<1>3. Inv => LineShown
  BY DEF EchoInv, LineShown
<1> QED
  BY <1>1, <1>2, <1>3, PTL DEF MCSpec

=============================================================================
