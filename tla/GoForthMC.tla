----------------------------- MODULE GoForthMC -----------------------------
(***************************************************************************)
(* GoForth for TLC: programs that are not well formed.  Every tail of at   *)
(* most TailLength words follows the beginning of a loop, a condition or a *)
(* definition, so that constructs are left open, closed twice, entered     *)
(* from a word and left in another.                                        *)
(***************************************************************************)
EXTENDS GoRefinement

CONSTANTS TailLength,  \* bound on the words that follow a beginning
          MaxDepth     \* bound on the stacks: a program may recurse for ever

Beginnings == {<<"2", "0", "DO">>, <<"0", "IF">>, <<":", "W", "1", "IF">>,
               <<":", "W", "LEAVE", ";", "2", "1", "DO">>}
TailWords == {"1", "IF", "ELSE", "THEN", "LEAVE", "LOOP", "+LOOP", "?DO", ":", ";", "W"}
TextWords == {"(", ")", ".\"", "\"", "\\", "\n", ":", "W", ";", "CONSTANT"}

Tails(words) == UNION {[1 .. n -> words] : n \in 0 .. TailLength}
AllPrograms ==
    {b \o t : b \in Beginnings, t \in Tails(TailWords)}
        \cup {<<"1">> \o t : t \in Tails(TextWords)}
MCPrograms == AllPrograms

MCNumbers   == [w \in {"0", "1", "2"} |-> IF w = "0" THEN 0 ELSE IF w = "1" THEN 1 ELSE 2]
MCFirstByte == [w \in {} |-> 0]

Bounded == /\ Len(dataStack) <= MaxDepth /\ Len(ptrStack) <= MaxDepth
           /\ Len(calls) <= MaxDepth /\ Len(stdout) <= MaxDepth

MCSpec == HInit /\ [][HNext /\ Bounded']_hvars

OneWord == {<<"1">>, <<"W">>}
=============================================================================
