------------------------------ MODULE Programs ------------------------------
(***************************************************************************)
(* The programs that read files: grep (do_one_file) and cat of             *)
(* src/syscalls, on one open file.                                         *)
(*                                                                         *)
(* A file is the bytes its reads deliver until one returns 0, that is with *)
(* the one byte behind its end that read_data adds (see FileSystem).  It   *)
(* is text: "NUL" occurs in that byte at most.                             *)
(***************************************************************************)
EXTENDS Integers, SequencesExt

CONSTANTS
    TextBytes,  \* the bytes of files, with "NL"
    LastBytes,  \* the bytes that can follow the end of a file
    MaxFile,    \* bound: the length of files
    BufSize,    \* BUFSIZE
    Search      \* what grep looks for

ASSUME ProgramsAssumption ==
    /\ "NL" \in TextBytes /\ "NUL" \notin TextBytes
    /\ LastBytes \subseteq TextBytes \cup {"NUL"}
    /\ MaxFile \in Nat /\ BufSize \in Nat \ {0}
    /\ Search \in Seq(TextBytes \ {"NL"}) /\ Search # <<>>

VARIABLES
    program,    \* "none" before one is started
    step,       \* "read", "line", "done"
    file,       \* what is still to be read
    data,       \* the buffer; grep's has one byte more
    junk,       \* history: the byte the buffer was full of when main began
    last, cnt, line_start,
    printed,    \* the lines grep prints, the bytes cat writes
    content     \* history: what the file was at the start

pvars == <<program, step, file, data, junk, last, cnt, line_start, printed, content>>

Buffer == 0 .. BufSize
Files == UNION {[1 .. n -> TextBytes] : n \in 0 .. MaxFile}

(* The stack holds anything when main is entered: the buffer is all "NL"   *)
(* or has none.                                                            *)
Junk == {"NL", "junk"}

ProgramsInit ==
    /\ program = "none" /\ step = "done"
    /\ file = <<>> /\ content = <<>> /\ printed = <<>>
    /\ junk \in Junk /\ data = [i \in Buffer |-> junk]
    /\ last = 0 /\ cnt = 0 /\ line_start = 0

Start ==
    /\ program = "none"
    /\ program' \in {"grep", "cat"}
    /\ \E text \in Files, byte \in LastBytes : content' = Append(text, byte)
    /\ file' = content'
    /\ step' = "read"
    /\ UNCHANGED <<data, junk, last, cnt, line_start, printed>>

(* read puts n bytes at data + from.                                       *)
Filled(from, n) ==
    [i \in Buffer |-> IF i \in from .. from + n - 1 THEN file[i - from + 1] ELSE data[i]]

-----------------------------------------------------------------------------
(* The string functions of ece391support.c, on data.                       *)

(* The string that begins at an index: up to the next NUL.                 *)
CString(buf, from) ==
    LET end == CHOOSE e \in from .. BufSize + 1 :
                   /\ e = BufSize + 1 \/ buf[e] = "NUL"
                   /\ \A i \in from .. e - 1 : buf[i] # "NUL"
    IN [k \in 1 .. end - from |-> buf[from + k - 1]]

(* ece391_strcpy(data, data + from): downwards, the NUL included.          *)
StrCpy(buf, from) ==
    LET len == Len(CString(buf, from)) IN
    [i \in Buffer |-> IF i < len THEN buf[from + i] ELSE IF i = len THEN "NUL" ELSE buf[i]]

(* ece391_strncmp with the whole of s.                                     *)
StartsWith(string, s) == IsPrefix(s, string)

-----------------------------------------------------------------------------
(* grep: do_one_file.                                                      *)

(* A read appends to what is left of the last line.                        *)
GrepRead ==
    /\ program = "grep" /\ step = "read"
    /\ LET n == Min({BufSize - last, Len(file)}) IN
          /\ cnt' = n
          /\ data' = Filled(last, n)
          /\ last' = last + n
          /\ file' = SubSeq(file, n + 1, Len(file))
    /\ line_start' = 0
    /\ step' = "line"
    /\ UNCHANGED <<program, junk, printed, content>>

LineEnd ==
    CHOOSE e \in line_start .. last :
        /\ e = last \/ data[e] = "NL"
        /\ \A i \in line_start .. e - 1 : data[i] # "NL"

Terminated == [data EXCEPT ![LineEnd] = "NUL"]

(* The line is not complete and there may be more of it in the file.       *)
Unfinished_AtStart == data[LineEnd] # "NL" /\ cnt # 0   \* mutant

Unfinished == data[LineEnd] # "NL" /\ cnt # 0 /\ line_start # 0

GrepCarry ==
    /\ program = "grep" /\ step = "line"
    /\ Unfinished
    /\ data' = StrCpy(Terminated, line_start)
    /\ last' = last - line_start
    /\ step' = "read"
    /\ UNCHANGED <<program, file, junk, cnt, line_start, printed, content>>

(* Any line is searched, then the buffer is left or the next line begins.  *)
GrepLine ==
    /\ program = "grep" /\ step = "line"
    /\ ~Unfinished
    /\ data' = Terminated
    /\ printed' =
         IF \E check \in line_start .. LineEnd - 1 : StartsWith(CString(data', check), Search)
         THEN Append(printed, CString(data', line_start))
         ELSE printed
    /\ line_start' = LineEnd + 1
    /\ IF LineEnd + 1 >= last
       THEN last' = 0 /\ step' = IF cnt = 0 THEN "done" ELSE "read"
       ELSE UNCHANGED <<last, step>>
    /\ UNCHANGED <<program, file, junk, cnt, content>>

-----------------------------------------------------------------------------
(* cat: what a read returns is written, until it returns 0.                *)

CatCopy ==
    /\ program = "cat" /\ step = "read"
    /\ LET n == Min({BufSize, Len(file)}) IN
          /\ cnt' = n
          /\ data' = Filled(0, n)
          /\ printed' = printed \o [i \in 1 .. n |-> data'[i - 1]]
          /\ file' = SubSeq(file, n + 1, Len(file))
          /\ step' = IF n = 0 THEN "done" ELSE "read"
    /\ UNCHANGED <<program, junk, last, line_start, content>>

(* The program halts; the next one finds its own stack.                    *)
Exit ==
    /\ program # "none" /\ step = "done"
    /\ program' = "none"
    /\ file' = <<>> /\ content' = <<>> /\ printed' = <<>>
    /\ junk' \in Junk /\ data' = [i \in Buffer |-> junk']
    /\ last' = 0 /\ cnt' = 0 /\ line_start' = 0
    /\ UNCHANGED step

ProgramsNext == Start \/ GrepRead \/ GrepCarry \/ GrepLine \/ CatCopy \/ Exit
ProgramsSpec == ProgramsInit /\ [][ProgramsNext]_pvars

-----------------------------------------------------------------------------
(* Properties.                                                             *)

(* What grep should have printed of the first n bytes of a text, and the   *)
(* line it is in: lines end with "NL", the last one with the text, and     *)
(* "NUL" is not printed.                                                   *)
Matches(line) ==
    \E from \in 1 .. Len(line) : IsPrefix(Search, SubSeq(line, from, Len(line)))
WithLine(s) == IF Matches(s.line) THEN Append(s.lines, s.line) ELSE s.lines
Grepped(text) ==
    LET grepped[n \in 0 .. Len(text)] ==
            IF n = 0 THEN [lines |-> <<>>, line |-> <<>>]
            ELSE IF text[n] = "NL"
            THEN [lines |-> WithLine(grepped[n - 1]), line |-> <<>>]
            ELSE IF text[n] = "NUL" THEN grepped[n - 1]
            ELSE [lines |-> grepped[n - 1].lines,
                  line |-> Append(grepped[n - 1].line, text[n])]
    IN grepped
Matching(text) == WithLine(Grepped(text)[Len(text)])

(* No line is longer than the buffer.                                      *)
LinesFit ==
    \A i, j \in 1 .. Len(content) :
        (\A k \in i .. j : content[k] # "NL") => j - i < BufSize

(* Wherever reads cut the file, grep prints each line that has the text it *)
(* looks for, whole, once and in order, and no other, if lines fit the     *)
(* buffer and the byte behind the buffer does not happen to hold a         *)
(* newline, which ends a line where there is none (data[BUFSIZE] is looked *)
(* at before it is written); and cat writes the bytes of the file.         *)
ProgramOutput ==
    step = "done" =>
        /\ program = "grep" /\ LinesFit /\ junk # "NL" => printed = Matching(content)
        /\ program = "cat" => printed = content

=============================================================================
