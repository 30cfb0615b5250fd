---------------------------- MODULE GoRefinement ----------------------------
(***************************************************************************)
(* goforth implements ForthSemantics: skipping words, and keeping count of *)
(* the THENs skipped, has the effect of the jumps the structure of the     *)
(* program calls for.                                                      *)
(*                                                                         *)
(* LEAVE takes two steps of goforth: it moves in front of LOOP, and LOOP   *)
(* then ends the loop.  The history variable "leaving" is TRUE in between; *)
(* the second step is a stutter of the abstract machine.  The words of a   *)
(* definition that goforth passes over one by one are stutters as well.    *)
(***************************************************************************)
EXTENDS GoForth

VARIABLE leaving

hvars == <<vars, leaving>>

HInit == Init /\ leaving = FALSE

\* A LEAVE has just been executed: the loop is about to be left.
Leaves ==
    /\ inputPtr < Len(input) /\ status = "running" /\ ~ compileMode /\ ~ leaving
    /\ \E p \in WordsAfter(inputPtr) :
          First(p, WordsAfter(inputPtr)) /\ input[p] = "LEAVE"
    /\ "LEAVE" \notin DOMAIN dict
    /\ status' = "running"

HNext == Next /\ leaving' = Leaves
HSpec == HInit /\ [][HNext]_hvars /\ WF_hvars(Step /\ leaving' = Leaves)

\* The structure of the program, as ForthSemantics reads it.
Structure == INSTANCE ForthSemantics
               WITH pc <- inputPtr, loops <- loopStack, returns <- ptrStack

\* Where the abstract machine is, and the loops it is in.
Position == CASE leaving     -> inputPtr + 1
              [] compileMode -> Structure!BodyEnd(inputPtr)
              [] OTHER       -> inputPtr
LoopsLeft == IF leaving THEN Outer ELSE loopStack

\* strconv.ParseInt accepts none of the words Forth gives a meaning.
ASSUME NumbersAssumption ==
    DOMAIN Numbers \cap (Builtins \cup {"ELSE", "THEN", "LOOP", "+LOOP", "-LOOP"}) = {}

Abs == INSTANCE ForthSemantics
         WITH pc <- Position, loops <- LoopsLeft, returns <- ptrStack

-----------------------------------------------------------------------------
(* The steps with which goforth does not do what the structure of the      *)
(* program calls for.                                                      *)

\* The next word is w, at p.
Reads(w, p) == /\ First(p, WordsAfter(inputPtr)) /\ input[p] = w /\ status = "running"
\* It is one of the builtins, it is executed and ends without an error.
Executes(w, p) ==
    Reads(w, p) /\ ~ compileMode /\ w \notin DOMAIN dict /\ status' = "running"

\* A word of W between p and q that belongs to a comment, a text or a name: a
\* search takes it for one of the program.
Hides(p, q, W) == \E i \in WordsAfter(p) \ Structure!CodeOf(p) : i <= q /\ input[i] \in W

\* skipIfUntil stops at an ELSE of an IF it passes over (builtins.go:743).
SkipsToOtherBranch(p) ==
    /\ Executes("IF", p) \/ Executes("ELSE", p)
    /\ \/ Hides(p, inputPtr', {"IF", "ELSE", "THEN"})
       \/ /\ input[inputPtr'] = "ELSE"
          /\ Between(p, inputPtr', {"IF"}) # Between(p, inputPtr', {"THEN"})

\* skipLoop knows DO, LOOP and +LOOP (builtins.go:757).
SkipsToOtherLoop(p) ==
    \E r \in {IF input[p] = "LEAVE" THEN inputPtr' + 1 ELSE inputPtr'} :
        /\ Executes("?DO", p) \/ Executes("LEAVE", p)
        /\ \/ Hides(p, r, {"DO", "?DO"} \cup Structure!LoopEnds)
           \/ \E i \in p + 1 .. r - 1 : input[i] \in {"?DO", "-LOOP"}

\* A +LOOP that is left moves the index and may start again (builtins.go:657).
LeavesPlusLoop(p) == leaving /\ Reads("+LOOP", p)

\* colon takes a name for a word of the definition (builtins.go:142).
PassesName(p) ==
    /\ compileMode /\ \E w \in NamingWords \cup {":"} : Reads(w, p)
    /\ \E q \in WordsAfter(p) : /\ First(q, WordsAfter(p))
                               /\ input[q] \in NamingWords \cup Immediate \cup {":", ";"}

\* The loops of if_ and do_ look for their words before the dictionary is asked
\* (builtins.go:566), and LEAVE before LOOP is looked up; a comment word that is
\* redefined is not executed while a definition is read.
Redefined(p) ==
    \E w \in DOMAIN dict : /\ Reads(w, p)
                          /\ IF compileMode THEN w \in Immediate
                                            ELSE w \in FrameWords[Frame] \/ leaving

\* Structures that are not complete: a word outside of the loop that looks for
\* it, one that no search finds, or the end of the input.
Unmatched(p) ==
    /\ status' \in {"fatal", "crash"}
    /\ \/ \E w \in {"ELSE", "THEN", ".\""} : Reads(w, p)
       \/ Reads("IF", p) /\ Depth > 0
       \/ Reads("?DO", p) /\ Depth > 1
       \/ Reads("LEAVE", p) /\ loopStack # <<>>
       \/ \E w \in Structure!LoopEnds : Reads(w, p) /\ Frame # "do" /\ loopStack # <<>>
EndsTooEarly == WordsAfter(inputPtr) = {} /\ status' \in {"fatal", "crash"}

Diverges ==
    \/ \E p \in WordsAfter(inputPtr) :
          \/ SkipsToOtherBranch(p) \/ SkipsToOtherLoop(p) \/ LeavesPlusLoop(p)
          \/ PassesName(p) \/ Redefined(p) \/ Unmatched(p)
    \/ EndsTooEarly
    \/ Run  \* words are lost

-----------------------------------------------------------------------------
\* Every control word does what the structure of the program calls for: the
\* machine with jumps can take each step that changes the state it sees.
Refines == Abs!Spec

\* So does goforth on every program, well formed or not, except for the steps
\* listed above: whatever errors came before, each other step is one of the
\* machine with jumps, or none.  ("IF...THEN and DO...LOOP usually nest nicely",
\* builtins.go:709; these are the cases in which they do not.)
OnlyListedDivergences ==
    [][Abs!Next \/ UNCHANGED Abs!semanticVars \/ Diverges]_hvars

\* The programs of the grammar take none of those steps.
NeverDiverges == [][~ Diverges]_hvars

\* Each THEN that skipLoop notes "will notify an enclosing if_ that a closing
\* THEN was seen" (builtins.go:766): none is left over when the word that
\* skipped it has ended and the if_ loops around it have returned.
EveryNotedThenIsClaimed == skippedThenCount = 0

\* "IF...THEN and DO...LOOP usually nest nicely" (builtins.go:709), and the
\* skip of a false condition counts the IFs it passes over for that
\* (builtins.go:739): it ends at the ELSE or the THEN of its own IF.
FalseIfTakesItsOwnBranch ==
    [][\A p \in WordsAfter(inputPtr) :
          (/\ First(p, WordsAfter(inputPtr)) /\ input[p] = "IF"
           /\ status = "running" /\ ~ compileMode
           /\ Depth > 0 /\ Top = 0 /\ status' = "running")
          => inputPtr' = Structure!BranchAfter(p)]_hvars

\* Go's call stack unwinds and the input is read to its end: doRun returns
\* unless the program itself stops the interpreter.
Terminates == <>(status # "running")

=============================================================================
