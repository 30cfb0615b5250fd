----------------------------- MODULE CtilInput -----------------------------
(***************************************************************************)
(* How ctil reads its input: words between blanks, and texts up to a       *)
(* closing character.  A position is the number of characters consumed.    *)
(*                                                                         *)
(* The words a program is made of are characters here: what they are       *)
(* spelt like plays no part, where one ends does.                          *)
(***************************************************************************)
EXTENDS Integers, Sequences

CONSTANT BufSize  \* sizeof(buf) where a word is read

ASSUME CtilInputAssumption == BufSize \in Nat /\ BufSize >= 2

Blanks == {" ", "\n"}

\* The least of the positions in S, if there is one.
FirstOf(S, else) == IF S = {} THEN else ELSE CHOOSE q \in S : \A r \in S : q <= r

\* get_word: the word whose first character is the first that is no blank.
\* It ends before a blank, at the end of the input, or when buf is full; the
\* character after it has been read by then.
WordStart(s, p) == FirstOf({q \in p + 1 .. Len(s) : s[q] \notin Blanks}, Len(s) + 1)
WordEnd(s, p) ==
    LET start == WordStart(s, p)
        blank == FirstOf({q \in start .. Len(s) : s[q] \in Blanks}, Len(s) + 1)
    IN  IF blank - start < BufSize THEN blank - 1 ELSE start + BufSize - 2
GetWord(s, p) == SubSeq(s, WordStart(s, p), WordEnd(s, p))
AfterWord(s, p) == IF WordEnd(s, p) < Len(s) THEN WordEnd(s, p) + 1 ELSE Len(s)

\* \ ( and ." read up to a character; 0 if it does not come.
Closing(s, p, c) == FirstOf({q \in p + 1 .. Len(s) : s[q] = c}, 0)

Quote == "\""

\* dotQuote keeps what fits into a buffer of four times the size of a word's.
TextFrom(s, p) ==
    LET close == Closing(s, p, Quote) - 1
    IN  SubSeq(s, p + 1, IF close - p < 4 * BufSize THEN close ELSE p + 4 * BufSize - 1)
=============================================================================
