---------------------------- MODULE CtilCompiler ----------------------------
(***************************************************************************)
(* Compiled code in ctil: the builtins that make it up and move pc, and    *)
(* those that compile counted loops.                                       *)
(*                                                                         *)
(* The compiled form of a word is a list of the addresses of entries, with *)
(* operands in between, that ends with -1.  The return stack holds the     *)
(* addresses to return to, the state of loops and the values of >R.        *)
(***************************************************************************)
EXTENDS CtilDictionary

CONSTANTS MaxLoops,    \* MAX_NESTED_LOOPS
          MaxPatches   \* MAX_COMPILE_BACKPATCHES

ASSUME CtilCompilerAssumption == MaxLoops \in Nat /\ MaxPatches \in Nat \ {0}

VARIABLES compiling,
          loops,      \* loop_compile_stack
          executing,  \* execute_toplevel_word is in its loop
          pc

runVars  == <<executing, pc>>
codeVars == <<dictVars, compiling, loops, runVars>>

\* A builtin moves pc by d.  The loop that executes compiled code moves it on
\* by another cell after every builtin; at top level nothing does.
Moves(d) ==
    /\ pc' = Wrap(pc + d + IF executing THEN CellSize ELSE 0)
    /\ UNCHANGED executing

\* The cell behind pc is read, if it is in memory.
Operand == CellAt(mem, pc + CellSize)
WithOperand(Act) ==
    \/ Holds(pc + CellSize, CellSize) /\ Act
    \/ ~ Holds(pc + CellSize, CellSize) /\ Undefined /\ UNCHANGED runVars

-----------------------------------------------------------------------------
(* Builtins that are compiled into words.                                  *)

Litnumber == WithOperand(Push(Operand) /\ Moves(CellSize))

\* Mutation of Litstring: the address is that of the length.
LitstringAtLength ==
    WithOperand(Replace(0, <<Wrap(pc + CellSize), Operand>>)
                /\ Moves(CellSize + Operand))
Litstring ==
    WithOperand(Replace(0, <<Wrap(pc + 2 * CellSize), Operand>>)
                /\ Moves(CellSize + Operand))

\* The word at the offset, counted from the operand.
Jumps == Moves(Operand)

Branch  == WithOperand(UNCHANGED wordVars /\ Jumps)
Branch0 == WithOperand(/\ Replace(1, <<>>)
                       /\ \/ Depth = 0 /\ UNCHANGED runVars
                          \/ Depth > 0 /\ Top = 0 /\ Jumps
                          \/ Depth > 0 /\ Top # 0 /\ Moves(CellSize))

\* A limit and an index are moved to the return stack.
EntersLoop ==
    \/ /\ retstacktop + 1 \in Slot /\ retstacktop + 2 \in Slot
       /\ retstacktop' = retstacktop + 2
       /\ retstack' = [retstack EXCEPT ![retstacktop + 2] = Top, ![retstacktop + 1] = Second]
       /\ stack' = Rest(2)
       /\ UNCHANGED <<mem, here, output, status>>
    \/ ~ (retstacktop + 1 \in Slot /\ retstacktop + 2 \in Slot) /\ Undefined
DoImpl == Needs(2, EntersLoop) /\ Moves(0)
\* Mutation of DoQImpl: a loop that is not entered is left, state and all.
DoQImplLeaves ==
    \/ Depth < 2 /\ Aborts /\ UNCHANGED runVars
    \/ Depth >= 2 /\ Top # Second /\ WithOperand(EntersLoop /\ Moves(CellSize))
    \/ Depth >= 2 /\ Top = Second
       /\ WithOperand(/\ Jumps /\ stack' = Rest(2) /\ retstacktop' = retstacktop - 2
                       /\ UNCHANGED <<mem, here, retstack, output, status>>)
DoQImpl ==
    \/ Depth < 2 /\ Aborts /\ UNCHANGED runVars
    \/ Depth >= 2 /\ WithOperand(\/ Top = Second /\ Replace(2, <<>>) /\ Jumps
                                 \/ Top # Second /\ EntersLoop /\ Moves(CellSize))

Index == retstack[retstacktop]
Limit == retstack[retstacktop - 1]

\* The end of a body: n values are popped, the loop ends or the index moves.
EndOfBody(n, index, done) ==
    WithOperand(
        /\ stack' = Rest(n)
        /\ \/ done /\ retstacktop' = retstacktop - 2 /\ UNCHANGED retstack /\ Moves(CellSize)
           \/ /\ ~ done /\ UNCHANGED retstacktop
              /\ retstack' = [retstack EXCEPT ![retstacktop] = index] /\ Jumps
        /\ UNCHANGED <<mem, here, output, status>>)
InLoop(n, Act) ==
    \/ retstacktop >= 1 /\ Depth >= n /\ Act
    \/ (retstacktop < 1 \/ Depth < n) /\ Aborts /\ UNCHANGED runVars
Moved(delta) == Wrap(Index + delta)
LoopImpl == InLoop(0, EndOfBody(0, Moved(1), Moved(1) = Limit))
\* Mutation of PLoopImpl: the limit has to be passed.
PLoopImplPast ==
    InLoop(1, EndOfBody(1, Moved(Top), \/ Top < 0 /\ Moved(Top) < Limit
                                       \/ Top > 0 /\ Moved(Top) > Limit))
PLoopImpl ==
    InLoop(1, EndOfBody(1, Moved(Top), \/ Top < 0 /\ Moved(Top) <= Limit
                                       \/ Top > 0 /\ Moved(Top) >= Limit))

LeaveImpl ==
    WithOperand(/\ Jumps /\ retstacktop' = retstacktop - 2
                /\ UNCHANGED <<mem, here, stack, retstack, output, status>>)

ThreadedWords == {"LITNUMBER", "'", "LITSTRING", "BRANCH", "0BRANCH", "_DOIMPL", "_DOQIMPL",
                  "_LOOPIMPL", "_PLOOPIMPL", "_LEAVEIMPL"}
ThreadedWord(w) ==
    \/ (w \in {"LITNUMBER", "'"} /\ Litnumber)  \* tick is the same code
    \/ (w = "LITSTRING"  /\ Litstring)
    \/ (w = "BRANCH"     /\ Branch)     \/ (w = "0BRANCH"     /\ Branch0)
    \/ (w = "_DOIMPL"    /\ DoImpl)     \/ (w = "_DOQIMPL"    /\ DoQImpl)
    \/ (w = "_LOOPIMPL"  /\ LoopImpl)   \/ (w = "_PLOOPIMPL"  /\ PLoopImpl)
    \/ (w = "_LEAVEIMPL" /\ LeaveImpl)

-----------------------------------------------------------------------------
(* Builtins that compile loops.                                            *)

Compiles(d) == Becomes(d) /\ UNCHANGED stack

\* Mutation of OpensLoop: one loop too many is let in.
OpensLoopUnchecked(d, start, patches) ==
    \/ /\ d.status = "running" /\ Len(loops) < MaxLoops
       /\ Compiles(d) /\ loops' = Append(loops, [start |-> start, patches |-> patches])
    \/ d.status = "running" /\ Len(loops) = MaxLoops /\ Undefined /\ UNCHANGED <<latest, loops>>
    \/ d.status # "running" /\ Compiles(d) /\ UNCHANGED loops
\* Mutation of OpensLoop: the array is thought to be one longer.
OpensLoopOneMore(d, start, patches) ==
    \/ /\ d.status = "running" /\ Len(loops) <= MaxLoops
       /\ Compiles(d) /\ loops' = Append(loops, [start |-> start, patches |-> patches])
    \/ d.status = "running" /\ Len(loops) > MaxLoops /\ Aborts /\ UNCHANGED <<latest, loops>>
    \/ d.status # "running" /\ Compiles(d) /\ UNCHANGED loops
\* A loop whose body begins at start, and the operands to be patched with the
\* way to its end.
OpensLoop(d, start, patches) ==
    \/ /\ d.status = "running" /\ Len(loops) < MaxLoops
       /\ Compiles(d) /\ loops' = Append(loops, [start |-> start, patches |-> patches])
    \/ d.status = "running" /\ Len(loops) = MaxLoops /\ Aborts /\ UNCHANGED <<latest, loops>>
    \/ d.status # "running" /\ Compiles(d) /\ UNCHANGED loops

\* Room for an operand, which is left as it is.
Reserve(d) == IF d.status = "running" THEN [d EXCEPT !.here = d.here + CellSize] ELSE d

Do  == LET d == PlaceWord(Dict, "_DOIMPL") IN OpensLoop(d, d.here, <<>>)
DoQ == LET d == PlaceWord(Dict, "_DOQIMPL")
       IN  OpensLoop(Reserve(d), Reserve(d).here, <<d.here>>)

\* Mutation of Patched: the offsets are counted from the beginning of memory.
PatchedFromZero(d, patches) ==
    LET after[i \in 0 .. Len(patches)] ==
            IF i = 0 THEN d
            ELSE [after[i - 1] EXCEPT !.mem = PutCell(@, patches[i], Wrap(d.here))]
    IN  after[Len(patches)]
\* Mutation of Patched: the first one is forgotten.
PatchedButFirst(d, patches) ==
    LET after[i \in 0 .. Len(patches)] ==
            IF i <= 1 THEN d
            ELSE [after[i - 1] EXCEPT !.mem = PutCell(@, patches[i], Wrap(d.here - patches[i]))]
    IN  after[Len(patches)]

\* Mutation of Patch: the address is taken for that of the word before the operand.
PatchBefore(d, p) ==
    IF d.status # "running" THEN d
    ELSE [d EXCEPT !.mem = PutCell(d.mem, p - CellSize, Wrap(d.here - p))]
\* The way from each of the addresses to here.
Patch(d, p) ==
    CASE d.status # "running" -> d
      [] d.status = "running" /\ p \notin 0 .. d.here - 1 -> Failed(d, "fatal")
      [] d.status = "running" /\ p \in 0 .. d.here - 1 /\ ~ Holds(p, CellSize) ->
            Failed(d, "undefined")
      [] OTHER -> [d EXCEPT !.mem = PutCell(d.mem, p, Wrap(d.here - p))]
Patched(d, patches) ==
    LET after[i \in 0 .. Len(patches)] ==
            IF i = 0 THEN d ELSE Patch(after[i - 1], patches[i])
    IN  after[Len(patches)]

\* LOOP and +LOOP
ClosesLoop(impl) ==
    LET d    == PlaceWord(Dict, impl)
        loop == loops[Len(loops)]
        back == PlaceCell(d, Wrap(loop.start - d.here))
    IN  \/ d.status # "running" /\ Compiles(d) /\ UNCHANGED loops
        \/ d.status = "running" /\ loops = <<>> /\ Aborts /\ UNCHANGED <<latest, loops>>
        \/ /\ d.status = "running" /\ loops # <<>>
           /\ Compiles(Patched(back, loop.patches))
           /\ loops' = SubSeq(loops, 1, Len(loops) - 1)

\* LEAVE notes its operand in the innermost loop, which has room for MaxPatches.
Leave ==
    LET d    == PlaceWord(Dict, "_LEAVEIMPL")
        n    == Len(loops)
        room == Len(loops[n].patches) < MaxPatches
    IN  \/ n = 0 /\ Dies /\ UNCHANGED <<latest, loops>>
        \/ n > 0 /\ d.status # "running" /\ Compiles(d) /\ UNCHANGED loops
        \/ n > 0 /\ d.status = "running" /\ ~ room /\ Undefined /\ UNCHANGED <<latest, loops>>
        \/ /\ n > 0 /\ d.status = "running" /\ room
           /\ Compiles(Reserve(d))
           /\ loops' = [loops EXCEPT ![n].patches = Append(@, d.here)]

LoopWords == {"DO", "?DO", "LOOP", "+LOOP", "LEAVE"}
LoopWord(w) ==
    \/ ~ compiling /\ Dies /\ UNCHANGED <<latest, compiling, loops>>
    \/ /\ compiling /\ UNCHANGED compiling
       /\ \/ (w = "DO"    /\ Do) \/ (w = "?DO" /\ DoQ)
          \/ (w = "LOOP"  /\ ClosesLoop("_LOOPIMPL"))
          \/ (w = "+LOOP" /\ ClosesLoop("_PLOOPIMPL"))
          \/ (w = "LEAVE" /\ Leave)
=============================================================================
