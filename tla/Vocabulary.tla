----------------------------- MODULE Vocabulary -----------------------------
(***************************************************************************)
(* What ctil's dictionary promises (the comments on dictionary entries in  *)
(* ctil/state.h): a sequence of definitions, the newest last.  A definition*)
(* is a name, whether it is immediate, and a body, which is everything     *)
(* stored from its code on until the next definition begins.  Only the     *)
(* newest one is still being written, and only at its end.                 *)
(***************************************************************************)
EXTENDS Integers, Sequences

VARIABLE words

Newest == words[Len(words)]
Older  == SubSeq(words, 1, Len(words) - 1)

IsPrefix(s, t) == Len(s) <= Len(t) /\ s = SubSeq(t, 1, Len(s))

Init == words = <<>>

\* A word is defined.
Define == /\ Len(words') = Len(words) + 1
          /\ Older' = words
          /\ Newest'.immediate = FALSE

\* The newest word stays what it is, apart from what a change allows.
Changes == /\ words # <<>>
           /\ Len(words') = Len(words) /\ Older' = Older
           /\ Newest'.name = Newest.name

\* Something is compiled into it, stored behind it or allotted to it.
Grow == /\ Changes
        /\ Newest'.immediate = Newest.immediate
        /\ IsPrefix(Newest.body, Newest.body')

MarkImmediate == /\ Changes
                 /\ Newest'.immediate = TRUE
                 /\ Newest'.body = Newest.body

Next == Define \/ Grow \/ MarkImmediate
Spec == Init /\ [][Next]_words
=============================================================================
