--------------------------- MODULE RealTimeClock ---------------------------
(***************************************************************************)
(* The driver of the real-time clock (rtc.c): one flag per terminal, set   *)
(* by the interrupt and polled by rtc_read, and the periodic rate in       *)
(* register A of the chip.                                                 *)
(*                                                                         *)
(* interruptFlags has MAX_TERMINALS entries and is indexed by              *)
(* current_terminal, 1 .. MAX_TERMINALS: the last index lies past its end. *)
(* No other code writes to that word while rtc_read polls it, so it is     *)
(* modelled as a flag of its own.                                          *)
(***************************************************************************)
EXTENDS Integers

CONSTANT Displays   \* the values of current_terminal

VARIABLES
    interruptFlags,  \* by terminal
    reg_A,           \* register A: what divides the clock, and the rate
    asked,           \* history: the frequency that was accepted last
    stopped          \* history: 1 Hz was accepted once

rate == <<reg_A, asked, stopped>>
rtcvars == <<interruptFlags, rate>>

RtcTypeOK ==
    /\ interruptFlags \in [Displays -> {0, 1}]
    /\ reg_A \in 0 .. 255
    /\ asked \in 1 .. 1024
    /\ stopped \in BOOLEAN

(* The firmware leaves 32.768 kHz and 1024 Hz in register A.               *)
RtcInit ==
    /\ interruptFlags = [t \in Displays |-> 0]
    /\ reg_A = 38
    /\ asked = 1024
    /\ stopped = FALSE

(* The chip, by its data sheet: periodic interrupts come as long as the    *)
(* divider bits say 2 and the rate bits are not 0.                         *)
Ticking(a) == (a \div 16) % 8 = 2 /\ a % 16 # 0

-----------------------------------------------------------------------------

Flagged_Shifted(flags, shown) == [flags EXCEPT ![shown - 1] = 1]   \* mutant
Flagged(flags, shown) == [flags EXCEPT ![shown] = 1]

RtcInterrupt(shown) ==
    /\ Ticking(reg_A)
    /\ interruptFlags' = Flagged(interruptFlags, shown)
    /\ UNCHANGED rate

StaleFlag(flags, shown) == flags     \* mutant: the flag is not cleared
NoFlag(flags, shown) == [flags EXCEPT ![shown] = 0]

AwaitInterrupt(shown) ==
    /\ interruptFlags' = NoFlag(interruptFlags, shown)
    /\ UNCHANGED rate

Interrupted(shown) == interruptFlags[shown] # 0

-----------------------------------------------------------------------------
(* set_frequency, of an unsigned 16-bit frequency.                         *)

Accepted(freq) == freq \in {2^k : k \in 0 .. 10}

(* 0xF - k + 1 for a frequency of 2^k: for 1 Hz that is one bit too many.  *)
RegAVals_Less(freq) == 15 - (CHOOSE k \in 0 .. 15 : 2^k = freq)   \* mutant
RegAVals(freq) == 16 - (CHOOSE k \in 0 .. 15 : 2^k = freq)

(* (prev & 0xF0) | regAVals                                                *)
NewRegA(prev, vals) ==
    LET high == prev - (prev % 16)
    IN IF vals < 16 THEN high + vals
       ELSE IF (high \div 16) % 2 = 1 THEN high ELSE high + 16

SetFrequency(freq) ==
    /\ IF Accepted(freq)
       THEN /\ reg_A' = NewRegA(reg_A, RegAVals(freq))
            /\ asked' = freq
            /\ stopped' = (stopped \/ freq = 1)
       ELSE UNCHANGED rate
    /\ UNCHANGED interruptFlags

=============================================================================
