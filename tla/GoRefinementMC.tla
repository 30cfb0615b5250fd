--------------------------- MODULE GoRefinementMC ---------------------------
(***************************************************************************)
(* GoRefinement for TLC: all the programs of a grammar of nested loops,    *)
(* conditions and LEAVEs, kept to the shapes the skipping of goforth is    *)
(* able to handle.                                                         *)
(***************************************************************************)
EXTENDS GoRefinement, GoTestdata, TLC

MCFirstByte == [t \in {"C", "[CHAR]", "X", ".S", "VARIABLE", "W", "."} |->
                    IF t = "C" THEN 3 ELSE 2]
\* TLC evaluates a definition of its own once, and one given to a constant
\* at every use; @@ makes it tabulate the function.
Written == -1 .. 500
Values  == "0" :> 0 @@ [w \in {ToString(n) : n \in Written} |->
                           CHOOSE n \in Written : ToString(n) = w]
MCNumbers == Values

Has(b, w) == \E i \in DOMAIN b : b[i] = w

Conditions == {<<"0">>, <<"1">>, <<"I">>}
Print7 == <<"7", ".">>
Leaf   == {<<>>, Print7}

IfThen(c, b)        == c \o <<"IF">> \o b \o <<"THEN">>
IfThenElse(c, b, e) == c \o <<"IF">> \o b \o <<"ELSE">> \o e \o <<"THEN">>
DoLoop(b)           == <<"2", "0", "DO">> \o b \o <<"LOOP">>

\* A condition that may be false must not guard an ELSE of an inner IF: the
\* skip would stop there.
Guards(c, b) == c = <<"1">> \/ ~ Has(b, "ELSE")

\* No complete IF may follow a LEAVE on the way to the end of its loop.
Leaving(b, c) == ~ (Has(b, "LEAVE") /\ Has(c, "THEN"))

Ifs(bs) ==
    {IfThen(p[1], p[2]) : p \in {q \in Conditions \X bs : Guards(q[1], q[2])}}
\* LEAVE in a branch after ELSE is not seen by the loop of if_ that runs it.
IfElses(bs, es) ==
    {IfThenElse(p[1], p[2], p[3]) :
        p \in {q \in Conditions \X bs \X es : /\ Guards(q[1], q[2])
                                          /\ ~ Has(q[3], "LEAVE")
                                          /\ Leaving(q[2], q[3])}}
Pairs(bs, cs) ==
    {p[1] \o p[2] : p \in {q \in bs \X cs : Leaving(q[1], q[2])}}

\* The loops goforth can skip or end: LEAVE finds only LOOP and +LOOP, and
\* with +LOOP it takes a value too many; a loop that is not entered must not
\* hold a THEN.
Loops(bs) ==
    {DoLoop(b) : b \in bs}
      \cup UNION {{<<"2", "0", "?DO">> \o b \o <<"1", "+LOOP">>,
                  <<"0", "2", "DO">> \o b \o <<"-1", "+LOOP">>,
                  <<"0", "2", "DO">> \o b \o <<"1", "-LOOP">>} :
                    b \in {c \in bs : ~ Has(c, "LEAVE")}}
      \cup {<<"0", "0", "?DO">> \o b \o <<"LOOP">> : b \in {c \in bs : ~ Has(c, "THEN")}}

Level0 == Leaf \cup {<<"LEAVE">>}
Level1 == Ifs(Level0) \cup IfElses(Level0, Leaf)
Level2 == Ifs(Level1) \cup IfElses(Level1, Level1)
Bodies == Level2 \cup Pairs(Level1, Level1) \cup Pairs(Loops(Level1), {Print7})
Nested == {DoLoop(b) \o Print7 : b \in Bodies}
Called == {<<":", "W">> \o b \o <<";", "1", "W", "W">> : b \in Loops(Level1)}

\* Words that have no place in the grammar, and programs that are in error.
Others ==
    {<<"2", "0", "DO", "1", "0", "DO", "1", "0", "DO", "I", "J", "K", ".S", "LOOP", "LOOP", "LOOP">>,
     <<"3", "CONSTANT", "X", "X", "CHAR", "C", "[CHAR]", "X", ".S", "VARIABLE", "W", "W", ".">>,
     <<"0", "0", "DO", "J", "LOOP">>, <<"1", "DO">>, <<"IF">>, <<"LEAF">>, <<"DROP">>,
     <<"2", "0", "DO", "+LOOP">>, <<"1", "?DO", "LOOP">>, <<"I">>}

AllPrograms == Nested \cup Called \cup Others \cup Testdata
MCPrograms  == AllPrograms

\* The programs of testdata end with the output the test files list.
OutputIsAsListed ==
    status = "exited" => stdout = Expected(input)

-----------------------------------------------------------------------------
\* A condition that is false guards an IF with an ELSE.
NestedElse == {<<"0", "IF", "0", "IF", "1", ".", "ELSE", "2", ".", "THEN", "THEN">>}
=============================================================================
