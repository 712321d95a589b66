------------------------------ MODULE Command ------------------------------
(***************************************************************************)
(* parse_command (syscall.c): how execute splits a command line into the   *)
(* name of the program and one argument.  A line is the characters before  *)
(* the newline or NUL that ends it.                                        *)
(*                                                                         *)
(* Lines are as short as the buffers require: the name with the spaces     *)
(* before it fits exec_buf, the argument fits argument_buf.                *)
(***************************************************************************)
EXTENDS Naturals, Sequences, FiniteSetsExt

CONSTANT Letters   \* the characters of words

Space == " "
Texts(alphabet, maxLength) == UNION {[1 .. n -> alphabet] : n \in 0 .. maxLength}

(* Both loops skip spaces, copy letters and stop at the first space behind *)
(* a letter, or at the end of the line.                                    *)
WordStart(line, start) ==
    Min({Len(line) + 1} \cup {i \in start .. Len(line) : line[i] # Space})

LoopEnd_Never(line, start) == Len(line) + 1   \* mutant: flag never set

LoopEnd(line, start) ==
    Min({Len(line) + 1} \cup
        {i \in WordStart(line, start) .. Len(line) : line[i] = Space})

Copied(line, start) == SubSeq(line, WordStart(line, start), LoopEnd(line, start) - 1)

(* exec_buf is terminated at com_loc.  After leading spaces the bytes from *)
(* exec_loc to there are what the stack held, up to the first NUL.         *)
Stale(line) == WordStart(line, 1) - 1

ExecNames(line) ==
    {Copied(line, 1) \o left : left \in Texts(Letters, Stale(line))}

Argument_First(line) == Copied(line, 1)   \* mutant: com_loc starts again

Argument(line) == Copied(line, LoopEnd(line, 1))

-----------------------------------------------------------------------------
(* The reference: words are the maximal runs of letters.                   *)

Words(line) ==
    {w \in (1 .. Len(line)) \X (1 .. Len(line)) :
        /\ w[1] <= w[2]
        /\ \A i \in w[1] .. w[2] : line[i] # Space
        /\ w[1] = 1 \/ line[w[1] - 1] = Space
        /\ w[2] = Len(line) \/ line[w[2] + 1] = Space}

(* The n-th word, or the empty sequence if there are fewer.                *)
Word(line, n) ==
    LET nth == {w \in Words(line) :
                    Cardinality({v \in Words(line) : v[1] <= w[1]}) = n}
    IN IF nth = {} THEN <<>>
       ELSE LET w == CHOOSE w \in nth : TRUE IN SubSeq(line, w[1], w[2])

=============================================================================
