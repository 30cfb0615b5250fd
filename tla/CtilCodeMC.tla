----------------------------- MODULE CtilCodeMC -----------------------------
(***************************************************************************)
(* CtilCode for TLC: the prelude, the programs of testdata/, and all       *)
(* definitions of a grammar in which the words of the prelude and the      *)
(* builtins that compile loops are mixed.                                  *)
(***************************************************************************)
EXTENDS CtilCode, CtilTestdata

MCCode    == AlphabetCode
MCNumbers == NumberValues
MCPrelude == PreludeText

Cat(bs, cs) == {p[1] \o p[2] : p \in bs \X cs}
In(open, bs, close) == {open \o b \o close : b \in bs}

Leaf == {<<>>, <<"7">>, <<"A">>, <<"'", "A">>, <<".\"", "a", "\"">>}
Structures(bs) ==
    In(<<"1", "IF">>, bs, <<"THEN">>)
      \cup In(<<"1", "IF">>, Cat(bs, {<<"ELSE">>}), <<"7", "THEN">>)
      \cup In(<<"1", "IF", "7", "ELSE">>, bs, <<"THEN">>)
      \cup In(<<"BEGIN">>, bs, <<"1", "UNTIL">>)
      \cup In(<<"BEGIN", "1", "WHILE">>, bs, <<"REPEAT">>)
      \cup In(<<"2", "0", "DO">>, Cat(bs, {<<>>, <<"LEAVE">>}), <<"LOOP">>)
      \cup In(<<"2", "0", "?DO">>, Cat({<<>>, <<"LEAVE">>}, bs), <<"2", "+LOOP">>)
Level1 == Structures(Leaf)
Leaves == Cat(In(<<"1", "IF">>, {<<"LEAVE">>, <<"7">>}, <<"THEN">>), {<<>>, <<"LEAVE">>})
Bodies == Level1 \cup Structures(Level1 \cup Leaves) \cup Cat(Structures({<<>>}), Structures({<<"A">>}))

\* LEAVE outside of a loop is an error.
Define(b) == <<":", "A">> \o b \o <<";", "CREATE", "C", ":", "B", "A", "C", ";">>

\* As many loops and LEAVEs as fit, and one more.
Times(n, w) == [i \in 1 .. n |-> w]
Full == {<<"2", "0", "DO">> \o Times(MaxPatches + i, "LEAVE") \o <<"LOOP">> : i \in 0 .. 1}
          \cup {Times(MaxLoops + i, "DO") \o Times(MaxLoops + i, "LOOP") : i \in 0 .. 1}

\* Input that ends where a word needs more of it.
Unfinished == {<<":">>, <<"CHAR">>, <<"(">>, <<".\"">>, <<":", "A", "[CHAR]">>}

\* All words that have an operand, for .D to show with those of the prelude.
Everything == <<"1", "IF", ".\"", "a", "\"", "ELSE", "'", "A", "THEN", "BEGIN", "1", "UNTIL",
                "2", "0", "DO", "LEAVE", "LOOP", "2", "0", "?DO", "LEAVE", "2", "+LOOP">>

MCPrograms == {Spaced(p[1]) : p \in Listed}
                \cup {Spaced(Define(b)) : b \in Bodies \cup Full}
                \cup {Spaced(Define(Everything) \o <<".D">>)}
                \cup {Spaced(p) : p \in Unfinished}

-----------------------------------------------------------------------------
AsCtil(item) == IF item[1] = "text" THEN <<"text", Name(item[2])>> ELSE item

\* The programs of testdata/ end with the output the test files list.
OutputIsAsListed ==
    status = "exited" =>
        \E p \in Listed : /\ input = Spaced(p[1])
                          /\ output = [i \in DOMAIN p[2] |-> AsCtil(p[2][i])]

\* main returns, exits or dies: execute_toplevel_word comes back from every word
\* these programs execute, the ones that compile among them, and interpret
\* reaches the end of stdin (state.c:196, builtins.c:474).
Terminates == <>(status # "running")

\* push_new_loop_entry asserts that loop_compile_stack has room (state.c:37),
\* pop_loop_entry that it is not empty; backpatch_addrs is written without a
\* check (builtins.c:634), and an access leaves it only when all of it is in use.
OnlyPatchesOverrun ==
    status = "undefined" =>
        /\ compiling /\ Len(loops) \in 1 .. MaxLoops
        /\ Len(loops[Len(loops)].patches) = MaxPatches

\* The words in the code of the definitions, and among them those that follow a
\* text and those that follow the operand of '.
Compiled == {a \in UNION {Instructions(e) : e \in {f \in Entries : ~ IsBuiltin(f)}} :
                CellAt(mem, a) # -1}
Behind(w, From(_)) == {From(a + CellSize) : a \in {b \in Compiled : IsCalled(CellAt(mem, b), {w})}}
BehindTexts  == Behind("LITSTRING", LAMBDA a : a + CellSize + CellAt(mem, a))
Quoted       == Behind("'", LAMBDA a : a)
BehindQuoted == Behind("'", LAMBDA a : a + CellSize)

\* .D should "show each word until we hit the end marker (-1)" (state.c:111).
DumpShowsEachWord ==
    \A i \in DOMAIN output : output[i][1] = "dump" => Compiled \subseteq output[i][2]

\* What .D takes for an instruction is one, or the operand of '; what it does not
\* show follows a text or such an operand.  Its list of the words that have an
\* operand (state.c:121) is kept by hand beside the builtins that move pc over
\* theirs, and has to find its way back to the instructions after each of them.
\* All of it lies in the bytes that debug_dump_mem shows afterwards (builtins.c:84).
DumpKeepsInStep ==
    \A i \in DOMAIN output : output[i][1] = "dump" =>
        /\ output[i][2] \subseteq Compiled \cup Quoted
        /\ Compiled \subseteq output[i][2] \cup BehindTexts \cup BehindQuoted
        /\ output[i][2] \subseteq output[i][3]

DumpedText == {Spaced(<<":", "A", ".\"", "a", "\"", ";", ".D">>)}
=============================================================================
