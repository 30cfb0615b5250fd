--------------------------- MODULE CtilAgreement ---------------------------
(***************************************************************************)
(* ctil beside ForthSemantics: the abstract machine runs the program that  *)
(* ctil is given, ctil compiles it and runs what it compiled, and both     *)
(* must end with the same output and the same stack.                       *)
(*                                                                         *)
(* The abstract machine runs first, when ctil has read its prelude and is  *)
(* about to read the program.                                              *)
(***************************************************************************)
EXTENDS CtilCode

CONSTANT TokensOf  \* the program each of the texts in Programs is written from

VARIABLES program,
          dataStack, returnStack, memory, memptr, dict, stdout, verdict,
          position, loopStack, returns

semVars == <<program, dataStack, returnStack, memory, memptr, dict, stdout, verdict,
             position, loopStack, returns>>

\* The programs do without the memory words of goforth.
Sem == INSTANCE ForthSemantics
         WITH status <- verdict, input <- program, pc <- position, loops <- loopStack,
              MemSize <- CellSize, FirstByte <- Code, Names <- {}, Literals <- {}

AInit ==
    /\ Init
    /\ Sem!WordsInit /\ program = <<>>
    /\ position = 0 /\ loopStack = <<>> /\ returns = <<>>

\* stdin is opened: both are given the program.  Without the prelude ctil
\* would not know IF.
Given  == stream # "stdin" /\ stream' = "stdin"
Bare   == stream = "builtins" /\ stream' = "stdin"
Taking == stream = "stdin" /\ verdict = "running"  \* the abstract machine's turn

ANext ==
    \/ /\ ~ Taking /\ Next /\ ~ Bare
       /\ \/ ~ Given /\ UNCHANGED program
          \/ Given /\ program' = TokensOf[input']
       /\ UNCHANGED <<dataStack, returnStack, memory, memptr, dict, stdout, verdict,
                      position, loopStack, returns>>
    \/ Taking /\ Sem!Next /\ UNCHANGED vars
ASpec == AInit /\ [][ANext]_<<vars, semVars>>

-----------------------------------------------------------------------------
\* A text is a sequence of characters for one, of their codes for the other.
AsCtil(item) == IF item[1] = "text" THEN <<"text", Name(item[2])>> ELSE item
Promised     == [i \in DOMAIN stdout |-> AsCtil(stdout[i])]

\* The compiled form of a program does what the structure of the program
\* calls for: "DO...LOOP is implemented with built-ins, because they are
\* notoriously tricky to implement in Forth itself, including all the proper
\* breaking out with LEAVE and so on" (builtins.c:504).  ctil writes nothing
\* the program does not, and ends as the program does.
AgreesWithSemantics ==
    stream = "stdin" /\ ~ Taking =>
        /\ Len(output) <= Len(Promised) /\ output = SubSeq(Promised, 1, Len(output))
        /\ status = "done"   => verdict = "done" /\ stack = dataStack
        /\ status = "exited" => verdict = "exited"
        /\ status \in {"done", "exited"} => output = Promised
        /\ status \notin {"running", "done", "exited"} => verdict = "fatal"

\* Every exit of a word leaves the return stack as it was when the word was
\* read, whatever loops were left on the way ("_LEAVEIMPL works like BRANCH,
\* but it also pops the loop state from retstack", builtins.c:719), and every
\* loop that was opened in a definition is closed in it.
BalancedAtTopLevel ==
    status = "running" => /\ ~ executing => retstacktop = -1
                          /\ ~ compiling => loops = <<>>
=============================================================================
