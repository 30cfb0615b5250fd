---------------------------- MODULE CtilWordsMC ----------------------------
(***************************************************************************)
(* CtilWords for TLC: every program of at most MaxWords data words and     *)
(* numbers, compared with what goforth does.                               *)
(***************************************************************************)
EXTENDS CtilWords

CONSTANTS Literals,  \* the numbers programs are made of
          MaxWords   \* bound on the words a program executes

ASSUME MCLiteralsAssumption == Literals \subseteq Cell

VARIABLES word,      \* the last word executed
          executed   \* how many have been

MCLiterals == {MinInt, -1, 1, 4}

mcVars == <<wordVars, word, executed>>

MCInit == WordsInit /\ word = "" /\ executed = 0
MCNext ==
    /\ status = "running" /\ executed < MaxWords
    /\ executed' = executed + 1
    /\ \/ word' = "" /\ \E v \in Literals : Push(v)
       \/ \E w \in DataWords : word' = w /\ DataWord(w)
MCSpec == MCInit /\ [][MCNext]_mcVars

-----------------------------------------------------------------------------
(* The same state, as goforth has it.                                      *)

Go == INSTANCE GoWords
        WITH dataStack   <- stack,
             returnStack <- [i \in 1 .. retstacktop + 1 |-> retstack[i - 1]],
             memory <- mem, memptr <- here, stdout <- output,
             dict <- [w \in {} |-> 0], FirstByte <- [t \in {} |-> 0],
             Literals <- {}, Names <- {}

\* Where the two systems are meant to differ: goforth accepts only addresses
\* below memptr, and only characters; its bytes are not signed and it allots
\* no negative sizes.
Differ(w) ==
    \/ w \in {"@", "!", "?", "C@", "C!"} /\ Top >= here
    \/ w = "C@" /\ mem[Top] > ByteBase \div 2 - 1
    \/ w = "EMIT" /\ Top \notin Byte
    \/ w = "ALLOT" /\ Top < 0

\* The tests of both systems run the same testdata/ (ctil_test.go:47): a word
\* both have leaves stacks, memory, here and output as goforth's word does,
\* whenever ctil goes on after it.
SharedWordsAgree ==
    [][(word' \in Go!DataWords /\ status' = "running" /\ ~ Differ(word'))
          => Go!DataWord(word')]_mcVars

\* The asserts of push and pop and the bounds checks of the memory words keep
\* the accesses of the data words inside the arrays of state_t, except where a
\* stack or memory is used up and the word moves its top without asking (DUP
\* and OVER, >R, the comma), and where TYPE is given no string.
UndefinedOnlyAtABound ==
    status = "undefined" =>
        \/ word = "TYPE"
        \/ Depth = StackSize \/ retstacktop + 1 = StackSize
        \/ here + CellSize > MemSize
=============================================================================
