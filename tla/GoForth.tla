------------------------------ MODULE GoForth ------------------------------
(***************************************************************************)
(* goforth: the Interpreter that executes Forth directly from its source   *)
(* text (goforth.go, and the control words of builtins.go).                *)
(*                                                                         *)
(* The input is the sequence of its words (GoReading), and inputPtr is the *)
(* number of words already consumed.                                       *)
(*                                                                         *)
(* if_, do_ and doRun are Go functions that each read words in a loop and  *)
(* call each other through executeWord.  "calls" is the Go call stack of   *)
(* those loops: "if" for the loop of a true condition, "else" for the loop *)
(* after an ELSE, "do" for the body of a loop; it is empty in doRun.  A    *)
(* step is the handling of one word by the innermost loop.                 *)
(***************************************************************************)
EXTENDS GoWords, GoReading, FiniteSets

CONSTANTS Programs,  \* the inputs Run may be given first
          LaterPrograms,  \* the inputs of its later calls
          Numbers,   \* the words strconv.ParseInt accepts, and their values
          MaxRuns    \* bound on the calls of Run

VARIABLES inputPtr, compileMode, ptrStack, loopStack,
          skippedThenCount, calls,
          runs       \* how often Run has been called

controlVars == <<input, inputPtr, compileMode, ptrStack, loopStack,
                 skippedThenCount, calls, runs>>
vars == <<wordVars, controlVars>>

ControlWords == {"\\", "(", ":", ";", ".\"", "IF", "DO", "?DO", "LEAVE", "I", "J", "K"}
Builtins     == DataWords \cup NamingWords \cup ControlWords
Immediate    == {".\"", "(", "\\"}   \* builtinImmediate

ASSUME GoForthAssumption ==
    /\ Programs \subseteq Seq(STRING) /\ LaterPrograms \subseteq Seq(STRING)
    \* the first character of a word is known wherever CHAR may ask for it
    /\ \A P \in Programs \cup LaterPrograms : \A i, j \in DOMAIN P :
          P[i] \in {"CHAR", "[CHAR]"} /\ i < j /\ P[j] # NL => P[j] \in DOMAIN FirstByte
    /\ \A w \in DOMAIN Numbers : Numbers[w] \in Cell
    /\ MaxRuns \in Nat \ {0}

Init ==
    /\ WordsInit
    /\ input \in Programs /\ inputPtr = 0 /\ runs = 1
    /\ compileMode = FALSE
    /\ ptrStack = <<>> /\ loopStack = <<>> /\ calls = <<>>
    /\ skippedThenCount = 0

-----------------------------------------------------------------------------
(* Searches.                                                               *)

\* How many of the words strictly between two positions are in W.
Between(p, q, W) == Cardinality({i \in p + 1 .. q - 1 : input[i] \in W})

\* Mutation of IfStops: nested IFs are not counted.
IfStopsFlat(p, stopWords) == {q \in WordsAfter(p) : input[q] \in stopWords}

\* The words skipIfUntil can stop at when it starts after position p: ELSE
\* at any depth, THEN when the IFs and THENs passed over balance.
IfStops(p, stopWords) ==
    {q \in WordsAfter(p) :
        \/ input[q] \in stopWords \ {"THEN"}
        \/ input[q] = "THEN" /\ Between(p, q, {"IF"}) = Between(p, q, {"THEN"})}

\* The words skipLoop can stop at; it counts the THENs it passes over.
LoopStops(p) ==
    {q \in WordsAfter(p) :
        /\ input[q] \in {"LOOP", "+LOOP"}
        /\ Between(p, q, {"DO"}) = Between(p, q, {"LOOP", "+LOOP"})}

-----------------------------------------------------------------------------
(* The end of a word.                                                      *)

Frame == IF calls = <<>> THEN "run" ELSE calls[Len(calls)]
Caller == SubSeq(calls, 1, Len(calls) - 1)

\* When a word ends, the innermost if_ returns if a THEN has been skipped,
\* and so in turn does the if_ that called it: n loops return in all.
Returns(c, k, n) ==
    /\ n <= k
    /\ \A i \in Len(c) - n + 1 .. Len(c) : c[i] = "if"
    /\ n \notin {k, Len(c)} => c[Len(c) - n] # "if"

\* Mutations of Unwinds: skippedThenCount is not decremented, or whether or
\* not an if_ returns.
UnwindsForgetful(c, k) ==
    \E n \in 0 .. Len(c) :
        /\ Returns(c, k, n)
        /\ calls' = SubSeq(c, 1, Len(c) - n)
        /\ skippedThenCount' = k
UnwindsTwice(c, k) ==
    \E n \in 0 .. Len(c) :
        /\ Returns(c, k, n)
        /\ calls' = SubSeq(c, 1, Len(c) - n)
        /\ skippedThenCount' = k - n - 1

\* The innermost loop is c, and k THENs have been skipped.
Unwinds(c, k) ==
    \E n \in 0 .. Len(c) :
        /\ Returns(c, k, n)
        /\ calls' = SubSeq(c, 1, Len(c) - n)
        /\ skippedThenCount' = k - n
WordEnds(c) == Unwinds(c, skippedThenCount)

\* The word has begun a loop of its own.
Enters(frame) == calls' = Append(calls, frame) /\ UNCHANGED skippedThenCount

\* An error leaves the interpreter as it is.
Aborts == Fail /\ UNCHANGED controlVars

\* A control word that pops n values first.
Pops(n, Act) == \/ Depth >= n /\ Act
                \/ Depth < n /\ Aborts

\* A word that works on the data alone, and ends at position p.
Computes(p, Act) ==
    /\ Act
    /\ inputPtr' = p
    /\ WordEnds(calls)
    /\ UNCHANGED <<input, compileMode, ptrStack, loopStack, runs>>

-----------------------------------------------------------------------------
(* IF, ELSE and THEN.                                                      *)

\* if_, called for the word at p; the condition is popped first.
If(p) ==
    Pops(1,
       \/ /\ Top # 0
          /\ Enters("if")
          /\ inputPtr' = p
          /\ Replace(1, <<>>)
          /\ UNCHANGED <<input, compileMode, ptrStack, loopStack, runs>>
       \/ /\ Top = 0
          /\ \E r \in IfStops(p, {"ELSE", "THEN"}) :
               /\ First(r, IfStops(p, {"ELSE", "THEN"}))
               /\ IF input[r] = "ELSE" THEN Enters("else") ELSE WordEnds(calls)
               /\ inputPtr' = r
          /\ Replace(1, <<>>)
          /\ UNCHANGED <<input, compileMode, ptrStack, loopStack, runs>>
       \/ Top = 0 /\ IfStops(p, {"ELSE", "THEN"}) = {} /\ Aborts)

\* The loop of a true condition meets ELSE and skips the other branch.
EndOfTrueBranch(p) ==
    \/ /\ \E r \in IfStops(p, {"THEN"}) :
            First(r, IfStops(p, {"THEN"})) /\ inputPtr' = r
       /\ WordEnds(Caller)
       /\ UNCHANGED <<wordVars, input, compileMode, ptrStack, loopStack, runs>>
    \/ IfStops(p, {"THEN"}) = {} /\ Aborts

EndOfIf(p) ==
    /\ inputPtr' = p
    /\ WordEnds(Caller)
    /\ UNCHANGED <<wordVars, input, compileMode, ptrStack, loopStack, runs>>

-----------------------------------------------------------------------------
(* DO loops.                                                               *)

LoopState(index, limit, startPtr) ==
    [index |-> index, limit |-> limit, startPtr |-> startPtr]
Innermost == loopStack[Len(loopStack)]
Outer     == SubSeq(loopStack, 1, Len(loopStack) - 1)

\* do_ for DO and ?DO.
Do(word, p) ==
    Pops(2,
       \/ /\ ~ (word = "?DO" /\ Top = Second)
          /\ loopStack' = Append(loopStack, LoopState(Top, Second, p))
          /\ Enters("do")
          /\ inputPtr' = p
          /\ Replace(2, <<>>)
          /\ UNCHANGED <<input, compileMode, ptrStack, runs>>
       \/ /\ word = "?DO" /\ Top = Second
          /\ \E r \in LoopStops(p) :
               /\ First(r, LoopStops(p))
               /\ inputPtr' = r
               /\ Unwinds(calls, skippedThenCount + Between(p, r, {"THEN"}))
          /\ Replace(2, <<>>)
          /\ UNCHANGED <<input, compileMode, ptrStack, loopStack, runs>>
       \/ word = "?DO" /\ Top = Second /\ LoopStops(p) = {} /\ Aborts)

\* The three words that end a body pop n values (the step of +LOOP and of
\* -LOOP) and move the index; the loop is over, or its body starts again.
\* (MovedNot, a mutation, loses the move: the loop's state is a copy.)
MovedNot(delta) == Wrap(Innermost.index)
Moved(delta) == Wrap(Innermost.index + delta)
EndOfBody(p, n, index, done) ==
    \/ /\ loopStack # <<>> /\ Depth >= n
       /\ \/ /\ done
             /\ loopStack' = Outer
             /\ inputPtr' = p
             /\ WordEnds(Caller)
          \/ /\ ~ done
             /\ loopStack' = Append(Outer, [Innermost EXCEPT !.index = index])
             /\ inputPtr' = Innermost.startPtr
             /\ UNCHANGED <<calls, skippedThenCount>>
       /\ Replace(n, <<>>)
       /\ UNCHANGED <<input, compileMode, ptrStack, runs>>
    \/ (loopStack = <<>> \/ Depth < n) /\ Aborts

Loop(p) ==
    EndOfBody(p, 0, Moved(1), Moved(1) >= Innermost.limit)
PlusLoop(p) ==
    EndOfBody(p, 1, Moved(Top), \/ Top < 0 /\ Moved(Top) <= Innermost.limit
                                \/ Top > 0 /\ Moved(Top) >= Innermost.limit)
MinusLoop(p) ==
    EndOfBody(p, 1, Moved(-Top), Moved(-Top) <= Innermost.limit)

\* Mutation of Leave: the state of the loop is popped and not put back.
LeavePops(p) ==
    \/ /\ loopStack # <<>>
       /\ loopStack' = Outer
       /\ \E r \in LoopStops(p) :
            /\ First(r, LoopStops(p))
            /\ inputPtr' = r - 1
            /\ Unwinds(calls, skippedThenCount + Between(p, r, {"THEN"}))
       /\ UNCHANGED <<wordVars, input, compileMode, ptrStack, runs>>
    \/ (loopStack = <<>> \/ LoopStops(p) = {}) /\ Aborts

\* Mutation of Leave: the next LOOP is not made the last one.
LeaveGoesOn(p) ==
    \/ /\ loopStack # <<>>
       /\ \E r \in LoopStops(p) :
            /\ First(r, LoopStops(p))
            /\ inputPtr' = r - 1
            /\ Unwinds(calls, skippedThenCount + Between(p, r, {"THEN"}))
       /\ UNCHANGED <<wordVars, input, compileMode, ptrStack, loopStack, runs>>
    \/ (loopStack = <<>> \/ LoopStops(p) = {}) /\ Aborts

\* LEAVE makes the next LOOP the last one and moves in front of it.  The
\* index and the limit of a loop that is left are made to differ by one.
Leave(p) ==
    \/ /\ loopStack # <<>>
       /\ loopStack' = Append(Outer, [Innermost EXCEPT !.index = Wrap(Innermost.limit - 1)])
       /\ \E r \in LoopStops(p) :
            /\ First(r, LoopStops(p))
            /\ inputPtr' = r - 1
            /\ Unwinds(calls, skippedThenCount + Between(p, r, {"THEN"}))
       /\ UNCHANGED <<wordVars, input, compileMode, ptrStack, runs>>
    \/ (loopStack = <<>> \/ LoopStops(p) = {}) /\ Aborts

\* I, J and K
LoopIndex(word, p) ==
    LET stackDepth == CASE word = "I" -> 0 [] word = "J" -> 1 [] word = "K" -> 2 IN
    \/ /\ Len(loopStack) > stackDepth
       /\ Computes(p, Push(loopStack[Len(loopStack) - stackDepth].index))
    \/ Len(loopStack) <= stackDepth /\ Aborts

-----------------------------------------------------------------------------
(* Words that read further words from the input.                           *)

\* The end of an immediate word, which the loop of colon executes as well.
ImmediateEnds == IF compileMode THEN UNCHANGED <<calls, skippedThenCount>>
                                ELSE WordEnds(calls)

\* The words \ and ( skip a comment.
Comment(token, p) ==
    /\ SkipsTo(token, p, inputPtr')
    /\ ImmediateEnds
    /\ UNCHANGED <<wordVars, input, compileMode, ptrStack, loopStack, runs>>

\* Mutation of DotQuote: the text is written although it is compiled.
DotQuoteAlways(p) ==
    LET quotes == {q \in p + 1 .. Len(input) : input[q] = Quote} IN
    \/ p = Len(input) /\ Crash /\ UNCHANGED controlVars
    \/ p < Len(input) /\ quotes = {} /\ Aborts
    \/ \E q \in quotes :
          /\ First(q, quotes)
          /\ inputPtr' = q
          /\ Write(0, <<"text", SubSeq(input, p + 1, q - 1)>>)
          /\ ImmediateEnds
          /\ UNCHANGED <<input, compileMode, ptrStack, loopStack, runs>>

\* ." writes the text up to the quote unless a definition is being read.
\* The input must go on after the word itself.
DotQuote(p) ==
    LET quotes == {q \in p + 1 .. Len(input) : input[q] = Quote} IN
    \/ p = Len(input) /\ Crash /\ UNCHANGED controlVars
    \/ p < Len(input) /\ quotes = {} /\ Aborts
    \/ \E q \in quotes :
          /\ First(q, quotes)
          /\ inputPtr' = q
          /\ IF compileMode THEN UNCHANGED wordVars
                            ELSE Write(0, <<"text", SubSeq(input, p + 1, q - 1)>>)
          /\ ImmediateEnds
          /\ UNCHANGED <<input, compileMode, ptrStack, loopStack, runs>>

ImmediateWord(w, p) ==
    \/ w = "\\" /\ Comment(NL, p)
    \/ w = "(" /\ Comment(")", p)
    \/ w = ".\"" /\ DotQuote(p)

\* CONSTANT, CREATE, VARIABLE, CHAR and [CHAR] take the next word.
Naming(word, p) ==
    \/ \E q \in WordsAfter(p) :
          First(q, WordsAfter(p)) /\ Computes(q, NamingWord(word, input[q]))
    \/ WordsAfter(p) = {} /\ Aborts

\* : enters the new word in the dictionary, pointing at its first word.  The
\* loop that then looks for the ; is CompileWord below.
Colon(p) ==
    \/ \E q \in WordsAfter(p) :
          /\ First(q, WordsAfter(p))
          /\ inputPtr' = q
          /\ \/ /\ input[q] = ";"
                /\ WordEnds(calls)
                /\ UNCHANGED <<wordVars, compileMode>>
             \/ /\ input[q] # ";"
                /\ Define(input[q], UserFunc(q))
                /\ compileMode' = TRUE
                /\ UNCHANGED <<dataStack, returnStack, memory, memptr, stdout,
                               status, calls, skippedThenCount>>
          /\ UNCHANGED <<input, ptrStack, loopStack, runs>>
    \/ WordsAfter(p) = {} /\ Aborts

\* Executed, ; returns to where the word was called.
Semicolon ==
    \/ /\ ptrStack # <<>>
       /\ inputPtr' = ptrStack[Len(ptrStack)]
       /\ ptrStack' = SubSeq(ptrStack, 1, Len(ptrStack) - 1)
       /\ WordEnds(calls)
       /\ UNCHANGED <<wordVars, input, compileMode, loopStack, runs>>
    \/ ptrStack = <<>> /\ Aborts

-----------------------------------------------------------------------------
(* The interpreter.                                                        *)

Builtin(w, p) ==
    \/ w \in DataWords /\ Computes(p, DataWord(w))
    \/ w \in NamingWords /\ Naming(w, p)
    \/ w = "IF" /\ If(p)
    \/ w \in {"DO", "?DO"} /\ Do(w, p)
    \/ w = "LEAVE" /\ Leave(p)
    \/ w \in {"I", "J", "K"} /\ LoopIndex(w, p)
    \/ w \in Immediate /\ ImmediateWord(w, p)
    \/ w = ":" /\ Colon(p)
    \/ w = ";" /\ Semicolon

\* A user word returns to the word after p; the loop that called executeWord
\* goes on with the first word of the definition.
CallUser(w, p) ==
    /\ inputPtr' = dict[w].ptr
    /\ ptrStack' = Append(ptrStack, p)
    /\ WordEnds(calls)
    /\ UNCHANGED <<wordVars, input, compileMode, loopStack, runs>>

\* The entries a program makes hide the builtins of the same name.
ExecuteWord(w, p) ==
    \/ w \in DOMAIN dict /\ dict[w].kind = "user" /\ CallUser(w, p)
    \/ w \in DOMAIN dict /\ dict[w].kind = "value" /\ Computes(p, Push(dict[w].val))
    \/ w \in Builtins \ DOMAIN dict /\ Builtin(w, p)
    \/ w \in DOMAIN Numbers \ (DOMAIN dict \cup Builtins) /\ Computes(p, Push(Numbers[w]))
    \/ w \notin DOMAIN dict \cup Builtins \cup DOMAIN Numbers /\ Aborts

\* The words a loop looks for itself, before the dictionary is consulted.
FrameWords == [f \in {"run", "if", "else", "do"} |->
                 CASE f = "run"  -> {}
                   [] f = "if"   -> {"ELSE", "THEN"}
                   [] f = "else" -> {"THEN"}
                   [] f = "do"   -> {"LOOP", "+LOOP", "-LOOP", "DO"}]

\* The innermost loop handles the word w at p.
Interpret(w, p) ==
    \/ Frame = "if" /\ w = "ELSE" /\ EndOfTrueBranch(p)
    \/ Frame \in {"if", "else"} /\ w = "THEN" /\ EndOfIf(p)
    \/ Frame = "do" /\ w = "LOOP" /\ Loop(p)
    \/ Frame = "do" /\ w = "+LOOP" /\ PlusLoop(p)
    \/ Frame = "do" /\ w = "-LOOP" /\ MinusLoop(p)
    \/ Frame = "do" /\ w = "DO" /\ Do(w, p)
    \/ w \notin FrameWords[Frame] /\ ExecuteWord(w, p)

\* The loop of colon: words are passed over, except that builtins marked
\* immediate are executed.
CompileWord(w, p) ==
    \/ /\ w = ";"
       /\ inputPtr' = p /\ compileMode' = FALSE
       /\ WordEnds(calls)
       /\ UNCHANGED <<wordVars, input, ptrStack, loopStack, runs>>
    \/ w \in Immediate \ DOMAIN dict /\ ImmediateWord(w, p)
    \/ /\ w # ";" /\ w \notin Immediate \ DOMAIN dict
       /\ inputPtr' = p
       /\ UNCHANGED <<wordVars, input, compileMode, ptrStack, loopStack,
                      skippedThenCount, calls, runs>>

\* nextWord returns "": doRun is done, every other loop reports an error.  A
\* definition of an earlier input can start beyond the end of this one, and
\* then fatalErrorf itself panics when it looks for the line number.
EndOfInput ==
    \/ calls = <<>> /\ ~ compileMode /\ status' = "done"
       /\ UNCHANGED <<dataStack, returnStack, memory, memptr, dict, stdout, controlVars>>
    \/ /\ calls # <<>> \/ compileMode
       /\ IF inputPtr <= Len(input) THEN Fail ELSE Crash
       /\ UNCHANGED controlVars

Step ==
    /\ status = "running"
    /\ \/ \E p \in WordsAfter(inputPtr) :
             /\ First(p, WordsAfter(inputPtr))
             /\ \/ ~ compileMode /\ Interpret(input[p], p)
                \/ compileMode /\ CompileWord(input[p], p)
       \/ WordsAfter(inputPtr) = {} /\ EndOfInput

\* Run is called again with another input; everything else is retained.
Run ==
    /\ status = "done" /\ runs < MaxRuns
    /\ input' \in LaterPrograms /\ inputPtr' = 0 /\ runs' = runs + 1
    /\ status' = "running"
    /\ UNCHANGED <<dataStack, returnStack, memory, memptr, dict, stdout,
                   compileMode, ptrStack, loopStack, skippedThenCount, calls>>

\* The process has ended, or nothing more is run.
Terminated ==
    /\ \/ status \in {"fatal", "crash", "exited"}
       \/ status = "done" /\ runs = MaxRuns
    /\ UNCHANGED vars

Next == Step \/ Run \/ Terminated

Spec == Init /\ [][Next]_vars /\ WF_vars(Step)

-----------------------------------------------------------------------------
Frames == {"if", "else", "do"}
LoopStates == [index : Cell, limit : Cell, startPtr : Nat]

\* Type invariant.
TypeOK ==
    /\ WordsTypeOK
    /\ input \in Seq(STRING) /\ inputPtr \in Nat
    /\ compileMode \in BOOLEAN
    /\ ptrStack \in Seq(Nat)
    /\ loopStack \in Seq(LoopStates)
    /\ skippedThenCount \in Nat
    /\ calls \in Seq(Frames)
    /\ runs \in 1 .. MaxRuns

\* Whatever the program, every do_ on Go's stack has its own entry on
\* loopStack, and nothing else has: LOOP, +LOOP and -LOOP never find it empty
\* (builtins.go:641), although LEAVE and errors of the program can take the
\* words of a loop out of order.
DoFrames == {i \in DOMAIN calls : calls[i] = "do"}
LoopStackMatchesCalls ==
    status \in {"running", "done"} => Len(loopStack) = Cardinality(DoFrames)

\* In its first run the interpreter only ever goes to, and remembers,
\* positions of the input it was given, so that nextWord, the searches for a
\* delimiter and fatalErrorf never slice or index the string out of range.
PositionsAreInInput ==
    runs = 1 =>
        /\ inputPtr <= Len(input)
        /\ \A w \in DOMAIN dict : dict[w].kind = "user" => dict[w].ptr <= Len(input)
        /\ \A i \in DOMAIN ptrStack : ptrStack[i] <= Len(input)
        /\ \A i \in DOMAIN loopStack : loopStack[i].startPtr <= Len(input)

\* While a definition is being read nothing is executed: an immediate word
\* may move the input pointer but leaves the data and the output alone
\* (builtins.go:182).
ReadingADefinitionIsSilent ==
    [][compileMode => UNCHANGED <<dataStack, returnStack, memory, memptr, dict, stdout,
                                 ptrStack, loopStack>>]_vars

=============================================================================
