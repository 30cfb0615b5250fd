----------------------------- MODULE GoReading -----------------------------
(***************************************************************************)
(* How goforth reads its input, a word at a time.  The input is the        *)
(* sequence of its words, upper-cased, and a position is the number of     *)
(* words already consumed.  A newline is a word NL of its own, which       *)
(* nextWord skips and the word \ looks for; the characters that end a      *)
(* comment and a string are words of their own too.                        *)
(***************************************************************************)
EXTENDS Integers, Sequences

VARIABLE input

NL == "\n"
Quote == "\""

\* The positions nextWord can still return, and the first of a set.
WordsAfter(p) == {q \in p + 1 .. Len(input) : input[q] # NL}
First(q, S)   == q \in S /\ \A r \in S : q <= r

\* Mutation of SkipsTo: the delimiter is assumed to be there, and skipped.
SkipsPast(token, p, r) ==
    \/ First(r, {q \in p + 1 .. Len(input) : input[q] = token})
    \/ token \notin {input[q] : q \in p + 1 .. Len(input)} /\ r = Len(input) + 1

\* Where a search for a character stops: at it, or at the end of the input.
SkipsTo(token, p, r) ==
    \/ First(r, {q \in p + 1 .. Len(input) : input[q] = token})
    \/ token \notin {input[q] : q \in p + 1 .. Len(input)} /\ r = Len(input)
=============================================================================
