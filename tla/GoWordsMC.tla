---------------------------- MODULE GoWordsMC ----------------------------
(***************************************************************************)
(* GoWords for TLC: every program of at most MaxWords data words.          *)
(***************************************************************************)
EXTENDS GoWords

CONSTANT MaxWords  \* bound on the words a program executes

VARIABLE executed  \* how many it has executed

MCFirstByte == [t \in {"X", "Y"} |-> IF t = "X" THEN 1 ELSE 3]

MCInit == WordsInit /\ executed = 0
MCNext == /\ executed < MaxWords
          /\ executed' = executed + 1
          /\ WordsNext
MCSpec == MCInit /\ [][MCNext]_<<wordVars, executed>>
=============================================================================
