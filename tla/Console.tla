------------------------------ MODULE Console ------------------------------
(***************************************************************************)
(* What the running process sees of keyboard and clock: keyboard.c,        *)
(* rtc.c and the two system calls that spin with interrupts on until a     *)
(* handler sets a flag, terminal_read and rtc_read.                        *)
(*                                                                         *)
(* There is one CPU and one running process, so at most one call spins.    *)
(* While shells are being booted (scheduling.c) the PIT tick takes the CPU *)
(* from a spinning shell for good: what runs afterwards is the new shell.  *)
(***************************************************************************)
EXTENDS Keyboard, RealTimeClock

CONSTANTS
    MaxTerminals,  \* terminal.h: MAX_TERMINALS
    ReadSizes,     \* the nbytes of reads
    Frequencies    \* the frequencies of writes to the clock, 16 bits

ASSUME ConsoleAssumption ==
    /\ MaxTerminals \in Nat \ {0}
    /\ Displays = 1 .. MaxTerminals
    /\ Buffers = 0 .. MaxTerminals
    /\ BootBuffer = 0
    /\ ReadSizes \subseteq Nat

ASSUME FrequenciesAssumption ==
    Frequencies \subseteq 0 .. 65535

VARIABLES
    current_terminal,  \* the terminal on display
    unbooted,          \* terminals 1 .. unbooted have no shell yet
    alt_flag,          \* flipped by each press and release of Alt
    call,              \* the call that spins
    since              \* history: what it waits for has happened since

cvars == <<kbvars, rtcvars, current_terminal, unbooted, alt_flag, call, since>>

None == [kind |-> "none"]
ReadCall(nbytes) == [kind |-> "read", nbytes |-> nbytes]
RtcCall == [kind |-> "rtc"]

ConsoleTypeOK ==
    /\ KeyboardTypeOK
    /\ RtcTypeOK
    /\ current_terminal \in Displays
    /\ unbooted \in 0 .. MaxTerminals
    /\ alt_flag \in BOOLEAN
    /\ call \in {None, RtcCall} \cup {ReadCall(n) : n \in ReadSizes}
    /\ since \subseteq {"line", "tick", "switch"}

ConsoleInit ==
    /\ KeyboardInit
    /\ RtcInit
    /\ current_terminal = 1
    /\ unbooted = MaxTerminals
    /\ alt_flag = FALSE
    /\ call = None
    /\ since = {}

Matters(event) == \/ call.kind = "read" /\ event = "line"
                  \/ call.kind = "rtc" /\ event \in {"tick", "switch"}
Happened(event) == since' = IF Matters(event) THEN since \cup {event} ELSE since

-----------------------------------------------------------------------------
(* Keyboard interrupts.                                                    *)

CharKey(c) ==
    /\ TypeChar(c)
    /\ UNCHANGED <<rtcvars, current_terminal, unbooted, alt_flag, call, since>>

BackspaceKey ==
    /\ Backspace
    /\ UNCHANGED <<rtcvars, current_terminal, unbooted, alt_flag, call, since>>

EnterKey ==
    /\ Enter
    /\ Happened("line")
    /\ UNCHANGED <<rtcvars, current_terminal, unbooted, alt_flag, call>>

Key == (\E c \in Chars : CharKey(c)) \/ BackspaceKey \/ EnterKey

(* Pressing and releasing Alt both flip the flag. (Shift, caps lock and    *)
(* control only choose what is typed or printed.)                          *)
Alt ==
    /\ alt_flag' = ~alt_flag
    /\ UNCHANGED <<kbvars, rtcvars, current_terminal, unbooted, call, since>>

(* Alt+Fn binds the buffer of the terminal that was on display before.     *)
AltF ==
    /\ alt_flag
    /\ Bind(current_terminal)
    /\ current_terminal' \in Displays
    /\ IF current_terminal' = current_terminal THEN since' = since
                                               ELSE Happened("switch")
    /\ UNCHANGED <<rtcvars, unbooted, alt_flag, call>>

-----------------------------------------------------------------------------
(* The other interrupts.                                                   *)

(* A PIT tick puts the next terminal on display, and its new shell runs.   *)
BootTick ==
    /\ unbooted > 0
    /\ current_terminal' = unbooted
    /\ unbooted' = unbooted - 1
    /\ call' = None
    /\ since' = {}
    /\ UNCHANGED <<kbvars, rtcvars, alt_flag>>

RtcTick ==
    /\ RtcInterrupt(current_terminal)
    /\ Happened("tick")
    /\ UNCHANGED <<kbvars, current_terminal, unbooted, alt_flag, call>>

-----------------------------------------------------------------------------
(* System calls of the running process.                                    *)

Calls(c) ==
    /\ unbooted < MaxTerminals
    /\ call = None
    /\ call' = c
    /\ since' = {}
    /\ UNCHANGED <<current_terminal, unbooted, alt_flag>>

TerminalRead ==
    /\ \E nbytes \in ReadSizes : Calls(ReadCall(nbytes))
    /\ AwaitLine
    /\ UNCHANGED rtcvars

RtcRead ==
    /\ Calls(RtcCall)
    /\ AwaitInterrupt(current_terminal)
    /\ UNCHANGED kbvars

(* rtc_write and, with the default frequency, rtc_open.                    *)
RtcWrite ==
    /\ \E freq \in Frequencies : SetFrequency(freq)
    /\ Calls(None)
    /\ UNCHANGED kbvars

Returns ==
    /\ call' = None
    /\ since' = {}
    /\ UNCHANGED <<kbvars, rtcvars, current_terminal, unbooted, alt_flag>>

TerminalReadReturns ==
    /\ call.kind = "read"
    /\ term_read_flag
    /\ Returns

RtcReadReturns ==
    /\ call.kind = "rtc"
    /\ Interrupted(current_terminal)
    /\ Returns

-----------------------------------------------------------------------------

ConsoleNext ==
    \/ Key \/ Alt \/ AltF \/ BootTick \/ RtcTick
    \/ TerminalRead \/ RtcRead \/ RtcWrite
    \/ TerminalReadReturns \/ RtcReadReturns

(* The spinning process polls whenever no handler runs, and the clock ticks*)
(* at least twice a second while it is set to.                             *)
ConsoleSpec ==
    /\ ConsoleInit
    /\ [][ConsoleNext]_cvars
    /\ WF_cvars(TerminalReadReturns)
    /\ WF_cvars(RtcReadReturns)
    /\ WF_cvars(RtcTick)

-----------------------------------------------------------------------------
(* Lines.                                                                  *)

(* Ctrl+L prints the whole buffer that is bound: behind the cursor there   *)
(* is nothing, but for a newline in the last byte, which reset_buffer      *)
(* leaves there after a line of full length.                               *)
NothingBehindCursor ==
    \A b \in Buffers, i \in Index :
        i >= buf_location[b] =>
            \/ kb_buf[b][i] = "NUL"
            \/ i = TermBufSize - 1 /\ kb_buf[b][i] = "NL"

(* A read that is large enough for the buffer never fails: however long    *)
(* the line and whatever was erased, a completed line holds its newline.   *)
LargeReadsSucceed ==
    call.kind = "read" /\ term_read_flag /\ call.nbytes >= TermBufSize =>
        -1 \notin ReadResults(call.nbytes)

(* No read returns a line completed before it was made.                    *)
ReadsNewLine == [][TerminalReadReturns => "line" \in since]_cvars

(* Once a line is completed the read that waits for it returns, unless the *)
(* boot takes the CPU.                                                     *)
ReadAnswered == call.kind = "read" /\ "line" \in since ~> call = None

-----------------------------------------------------------------------------
(* Clock.                                                                  *)

(* "Returns once new RTC interrupt has occured" (rtc_read) holds as long   *)
(* as the user does not show another terminal.                             *)
ReadsNewTick == [][RtcReadReturns => since \cap {"tick", "switch"} # {}]_cvars

(* And it returns, if the clock is not stopped (see RateIsAsked) and the   *)
(* user stays.                                                             *)
TickAnswered ==
    call.kind = "rtc" ~> call = None \/ "switch" \in since \/ ~Ticking(reg_A)

(* rtc_write "Sets RTC frequency based on input value" and returns "-1 in  *)
(* invalid frequency input": the chip generates the frequency that was     *)
(* accepted last, 32768 Hz / 2^(rate - 1).  (Not so after 1 Hz.)           *)
RateIsGenerated == Ticking(reg_A) /\ asked * 2^((reg_A % 16) - 1) = 32768

(* It does so as long as nobody asks for 1 Hz: each write replaces the rate*)
(* of the one before and keeps the divider.  1 Hz is accepted and sets a   *)
(* bit of the divider, which no later write takes back: the clock is       *)
(* silent for good, whatever later programs ask for.                       *)
RateIsAsked == IF stopped THEN ~Ticking(reg_A) ELSE RateIsGenerated

-----------------------------------------------------------------------------
(* What a comment says and the code does not do.                           *)

(* "keyboard buffer to store values for terminal_read - 1 for each         *)
(* terminal window": keys leave the lines of hidden terminals alone.       *)
HiddenLinesStay ==
    [][\A t \in Displays : t # current_terminal /\ t # current_terminal' =>
        kb_buf'[t] = kb_buf[t]]_cvars

=============================================================================
