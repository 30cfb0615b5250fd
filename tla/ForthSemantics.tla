--------------------------- MODULE ForthSemantics ---------------------------
(***************************************************************************)
(* What the control words of a Forth program promise, as the comments of   *)
(* builtins.go, the README and testdata describe them: IF ... ELSE ... THEN*)
(* and DO ... LOOP nest, a false condition selects the ELSE branch of its  *)
(* own IF, LEAVE continues after the LOOP of the innermost loop, a comment *)
(* and a string are not words.                                             *)
(*                                                                         *)
(* The machine has a program counter and jumps: where a jump goes is read  *)
(* off the structure of the program, not found by skipping words.  The     *)
(* data words are those of GoWords.                                        *)
(***************************************************************************)
EXTENDS GoWords, FiniteSets

CONSTANT Numbers  \* the words that are numbers, and their values

VARIABLES input,    \* the program
          pc,       \* the position of the last word executed
          loops,    \* the loops entered and not left, innermost last
          returns   \* where the words being executed return to

semanticVars == <<wordVars, input, pc, loops, returns>>

-----------------------------------------------------------------------------
(* The structure of a program.                                             *)

First(q, S) == q \in S /\ \A r \in S : q <= r
Least(S)    == CHOOSE q \in S : First(q, S)
WordsAfter(p) == {q \in p + 1 .. Len(input) : input[q] # "\n"}

\* The first position in S, or the last of all: what is not closed extends to
\* the end of the program.
FirstOf(S) == Least(S \cup {Len(input)})

\* The first position after p that holds the token.
Closing(p, token) == FirstOf({q \in p + 1 .. Len(input) : input[q] = token})

\* The last position of what the word at p takes from the input itself.
Extent(p) ==
    CASE input[p] = "("   -> Closing(p, ")")
      [] input[p] = "\\"  -> Closing(p, "\n")
      [] input[p] = ".\"" -> Closing(p, "\"")
      [] input[p] \in NamingWords \cup {":"} -> FirstOf(WordsAfter(p))
      [] OTHER -> p

\* The words of the program from position p on, comments left out.
CodeOf(p) ==
    LET from[q \in 0 .. Len(input)] ==
            LET after == WordsAfter(q)
                next  == IF after = {} THEN {} ELSE {Least(after)}
            IN  next \cup UNION {from[Extent(r)] : r \in next}
    IN  from[p]

\* The position of the word in ends that closes the construct position p is
\* in: those opened and closed in between are left out.
ClosedBy(p, opens, closes, ends) ==
    LET code == CodeOf(p)
        Number(r, W) == Cardinality({q \in code : q < r /\ input[q] \in W})
    IN  FirstOf({r \in code : input[r] \in ends /\ Number(r, opens) = Number(r, closes)})

LoopEnds        == {"LOOP", "+LOOP", "-LOOP"}
ThenAfter(p)    == ClosedBy(p, {"IF"}, {"THEN"}, {"THEN"})
BranchAfter(p)  == ClosedBy(p, {"IF"}, {"THEN"}, {"ELSE", "THEN"})
LoopEndAfter(p) == ClosedBy(p, {"DO", "?DO"}, LoopEnds, LoopEnds)
BodyEnd(p)      == ClosedBy(p, {}, {}, {";"})

-----------------------------------------------------------------------------
Goto(p) == pc' = p /\ UNCHANGED input

\* A word that works on the data alone.
Data(Act, p) == Act /\ Goto(p) /\ UNCHANGED <<loops, returns>>

\* An error.
Rejects == Fail /\ UNCHANGED <<input, pc, loops, returns>>

Pops(n, Act) ==
    \/ Depth >= n /\ Replace(n, <<>>) /\ Act
    \/ Depth < n /\ Rejects

If(p) ==
    Pops(1, /\ \/ Top # 0 /\ Goto(p)
               \/ Top = 0 /\ Goto(BranchAfter(p))
            /\ UNCHANGED <<loops, returns>>)

\* Reached at the end of a true branch.
Else(p) ==
    /\ Goto(ThenAfter(p))
    /\ UNCHANGED <<wordVars, loops, returns>>

Then(p) == Goto(p) /\ UNCHANGED <<wordVars, loops, returns>>

Do(word, p) ==
    Pops(2, \/ /\ word = "DO" \/ Top # Second
               /\ loops' = Append(loops, [index |-> Top, limit |-> Second, startPtr |-> p])
               /\ Goto(p)
               /\ UNCHANGED returns
            \/ /\ word = "?DO" /\ Top = Second
               /\ Goto(LoopEndAfter(p))
               /\ UNCHANGED <<loops, returns>>)

Innermost == loops[Len(loops)]
Outer     == SubSeq(loops, 1, Len(loops) - 1)

\* LOOP, +LOOP and -LOOP: n values are popped.
InLoop(Act) == \/ loops # <<>> /\ Act
               \/ loops = <<>> /\ Rejects
EndOfBody(p, n, index, done) ==
    InLoop(Pops(n, /\ \/ done /\ loops' = Outer /\ Goto(p)
                      \/ /\ ~ done
                         /\ loops' = Append(Outer, [Innermost EXCEPT !.index = index])
                         /\ Goto(Innermost.startPtr)
                   /\ UNCHANGED returns))
Moved(delta) == Wrap(Innermost.index + delta)
Loop(p) == EndOfBody(p, 0, Moved(1), Moved(1) >= Innermost.limit)
PlusLoop(p) ==
    EndOfBody(p, 1, Moved(Top), \/ Top < 0 /\ Moved(Top) <= Innermost.limit
                                \/ Top > 0 /\ Moved(Top) >= Innermost.limit)
MinusLoop(p) == EndOfBody(p, 1, Moved(-Top), Moved(-Top) <= Innermost.limit)

Leave(p) ==
    InLoop(/\ loops' = Outer
           /\ Goto(LoopEndAfter(p))
           /\ UNCHANGED <<wordVars, returns>>)

LoopIndex(p, depth) ==
    \/ Len(loops) > depth /\ Data(Push(loops[Len(loops) - depth].index), p)
    \/ Len(loops) <= depth /\ Rejects

Comment(p) == Goto(Extent(p)) /\ UNCHANGED <<wordVars, loops, returns>>

DotQuote(p) ==
    /\ Write(0, <<"text", SubSeq(input, p + 1, Extent(p) - 1)>>)
    /\ Goto(Extent(p))
    /\ UNCHANGED <<loops, returns>>

\* A word that takes the next one, which must exist.
WithName(p, Act) ==
    \/ WordsAfter(p) # {} /\ Act /\ UNCHANGED <<loops, returns>>
    \/ WordsAfter(p) = {} /\ Rejects

Naming(w, p) == WithName(p, NamingWord(w, input[Extent(p)]) /\ Goto(Extent(p)))

\* The whole definition, up to its ; and nothing if it is ": ;".
Colon(p) ==
    WithName(p,
        \/ input[Extent(p)] = ";" /\ Goto(Extent(p)) /\ UNCHANGED wordVars
        \/ /\ input[Extent(p)] # ";"
           /\ Define(input[Extent(p)], UserFunc(Extent(p)))
           /\ Goto(BodyEnd(Extent(p)))
           /\ UNCHANGED <<dataStack, returnStack, memory, memptr, stdout, status>>)

Semicolon ==
    \/ /\ returns # <<>>
       /\ Goto(returns[Len(returns)])
       /\ returns' = SubSeq(returns, 1, Len(returns) - 1)
       /\ UNCHANGED <<wordVars, loops>>
    \/ returns = <<>> /\ Rejects

Call(w, p) ==
    /\ Goto(dict[w].ptr)
    /\ returns' = Append(returns, p)
    /\ UNCHANGED <<wordVars, loops>>

Word(w, p) ==
    \/ w = "IF" /\ If(p)
    \/ w = "ELSE" /\ Else(p)
    \/ w = "THEN" /\ Then(p)
    \/ w \in {"DO", "?DO"} /\ Do(w, p)
    \/ w = "LOOP" /\ Loop(p)
    \/ w = "+LOOP" /\ PlusLoop(p)
    \/ w = "-LOOP" /\ MinusLoop(p)
    \/ w = "LEAVE" /\ Leave(p)
    \/ w = "I" /\ LoopIndex(p, 0)
    \/ w = "J" /\ LoopIndex(p, 1)
    \/ w = "K" /\ LoopIndex(p, 2)
    \/ w \in {"(", "\\"} /\ Comment(p)
    \/ w = ".\"" /\ DotQuote(p)
    \/ w = ":" /\ Colon(p)
    \/ w = ";" /\ Semicolon
    \/ w \in NamingWords /\ Naming(w, p)
    \/ w \in DataWords /\ Data(DataWord(w), p)
    \/ w \in DOMAIN Numbers /\ Data(Push(Numbers[w]), p)

Known == {"IF", "ELSE", "THEN", "DO", "?DO", "LEAVE", "I", "J", "K", "(", "\\", ".\"",
          ":", ";"} \cup LoopEnds \cup NamingWords \cup DataWords \cup DOMAIN Numbers

Init ==
    /\ WordsInit
    /\ input \in Seq(STRING)
    /\ pc = 0 /\ loops = <<>> /\ returns = <<>>

Next ==
    /\ status = "running"
    /\ \/ \E p \in WordsAfter(pc) :
            /\ First(p, WordsAfter(pc))
            /\ LET w == input[p] IN
               \/ w \notin DOMAIN dict /\ Word(w, p)
               \/ w \notin DOMAIN dict \cup Known /\ Rejects
               \/ w \in DOMAIN dict /\ dict[w].kind = "user" /\ Call(w, p)
               \/ /\ w \in DOMAIN dict /\ dict[w].kind = "value"
                  /\ Data(Push(dict[w].val), p)
       \/ /\ WordsAfter(pc) = {} /\ status' = "done"
          /\ UNCHANGED <<dataStack, returnStack, memory, memptr, dict, stdout,
                         input, pc, loops, returns>>

Spec == Init /\ [][Next]_semanticVars
=============================================================================
