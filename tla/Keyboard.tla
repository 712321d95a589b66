------------------------------ MODULE Keyboard ------------------------------
(***************************************************************************)
(* The line buffers of keyboard.c and the line terminal_read waits for.    *)
(*                                                                         *)
(* Keys go to the buffer true_buffer points to: kb_buffer until the first  *)
(* Alt+Fn, later the kb_buf of some terminal.  Which characters are typed  *)
(* (shift, caps lock, the scan code tables) is left to the caller.         *)
(***************************************************************************)
EXTENDS Integers

CONSTANTS
    Buffers,     \* kb_buffer and the kb_buf of each terminal
    BootBuffer,  \* kb_buffer, bound when the machine starts
    TermBufSize, \* terminal.h: TERM_BUF_SIZE
    Chars        \* what keys type, other than newline

ASSUME KeyboardAssumption ==
    /\ BootBuffer \in Buffers
    /\ TermBufSize \in Nat \ {0}
    /\ {"NUL", "NL"} \cap Chars = {}

VARIABLES
    true_buffer,    \* the buffer that is bound, with its buf_location
    kb_buf,         \* contents of the buffers
    buf_location,   \* next free index of each
    terminal_buf,   \* the last line completed
    term_read_flag  \* set when a line is completed

kbvars == <<true_buffer, kb_buf, buf_location, terminal_buf, term_read_flag>>

Index == 0 .. TermBufSize - 1
Bytes == Chars \cup {"NUL", "NL"}
Blank == [i \in Index |-> "NUL"]

KeyboardTypeOK ==
    /\ true_buffer \in Buffers
    /\ kb_buf \in [Buffers -> [Index -> Bytes]]
    /\ buf_location \in [Buffers -> Index]
    /\ terminal_buf \in [Index -> Bytes]
    /\ term_read_flag \in BOOLEAN

KeyboardInit ==
    /\ true_buffer = BootBuffer
    /\ kb_buf = [b \in Buffers |-> Blank]
    /\ buf_location = [b \in Buffers |-> 0]
    /\ terminal_buf = Blank
    /\ term_read_flag = FALSE

Text == kb_buf[true_buffer]
Location == buf_location[true_buffer]

-----------------------------------------------------------------------------
(* keyboard_print.                                                         *)

(* Mutant: the last byte is taken by a character too.                      *)
HasSpace_All(location) == location < TermBufSize

(* The last byte is kept for the newline; a character for it is dropped.   *)
HasSpace(location) == location < TermBufSize - 1

TypeChar(c) ==
    /\ HasSpace(Location)
    /\ kb_buf' = [kb_buf EXCEPT ![true_buffer][Location] = c]
    /\ buf_location' = [buf_location EXCEPT ![true_buffer] = @ + 1]
    /\ UNCHANGED <<true_buffer, terminal_buf, term_read_flag>>

Erased_Late(text, location) == [text EXCEPT ![location] = "NUL"]  \* mutant
Erased(text, location) == [text EXCEPT ![location - 1] = "NUL"]

Backspace ==
    /\ Location > 0
    /\ kb_buf' = [kb_buf EXCEPT ![true_buffer] = Erased(Text, Location)]
    /\ buf_location' = [buf_location EXCEPT ![true_buffer] = @ - 1]
    /\ UNCHANGED <<true_buffer, terminal_buf, term_read_flag>>

(* reset_buffer leaves the last byte alone.                                *)
ResetBuffer(text) ==
    [i \in Index |-> IF i < TermBufSize - 1 THEN "NUL" ELSE text[i]]

NewLocation_Kept(location) == location  \* mutant
NewLocation(location) == 0

SetFlag_Not == term_read_flag           \* mutant
SetFlag == TRUE

Enter ==
    LET line == [Text EXCEPT ![Location] = "NL"]
    IN /\ terminal_buf' = line
       /\ kb_buf' = [kb_buf EXCEPT ![true_buffer] = ResetBuffer(line)]
       /\ buf_location' = [buf_location EXCEPT
                             ![true_buffer] = NewLocation(Location)]
       /\ term_read_flag' = SetFlag
       /\ UNCHANGED true_buffer

(* Alt+Fn, pressed while the terminal of buffer b is on display.           *)
Bind(b) ==
    /\ true_buffer' = b
    /\ UNCHANGED <<kb_buf, buf_location, terminal_buf, term_read_flag>>

-----------------------------------------------------------------------------
(* terminal_read up to its loop, and after it.                             *)

StaleLine(flag) == flag                 \* mutant: the flag is not cleared
NoLine(flag) == FALSE

AwaitLine ==
    /\ terminal_buf' = Blank
    /\ term_read_flag' = NoLine(term_read_flag)
    /\ UNCHANGED <<true_buffer, kb_buf, buf_location>>

(* The number of bytes up to the newline, if there is one among the first  *)
(* nbytes.                                                                 *)
ReadResults(nbytes) ==
    LET ends == {i \in Index : i < nbytes /\ terminal_buf[i] = "NL"}
    IN IF ends = {} THEN {-1}
       ELSE {i + 1 : i \in {j \in ends : \A k \in ends : j <= k}}

=============================================================================
