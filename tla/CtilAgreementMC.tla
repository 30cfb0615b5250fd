-------------------------- MODULE CtilAgreementMC --------------------------
(***************************************************************************)
(* CtilAgreement for TLC: all programs of a grammar of nested loops,       *)
(* conditions and LEAVEs, the shapes that goforth is not able to handle    *)
(* among them.                                                             *)
(***************************************************************************)
EXTENDS CtilAgreement, CtilTestdata

MCCode    == AlphabetCode
MCNumbers == NumberValues
MCPrelude == PreludeText

Conditions == {<<"0">>, <<"1">>, <<"I">>}
Print7 == <<"7", ".">>
Level0 == {<<>>, Print7, <<"LEAVE">>}

IfThen(c, b)        == c \o <<"IF">> \o b \o <<"THEN">>
IfThenElse(c, b, e) == c \o <<"IF">> \o b \o <<"ELSE">> \o e \o <<"THEN">>
Ifs(cs, bs)         == {IfThen(p[1], p[2]) : p \in cs \X bs}
IfElses(cs, bs, es) == {IfThenElse(p[1], p[2], p[3]) : p \in cs \X bs \X es}

Loops(bs) ==
    UNION {{<<"2", "0", "DO">> \o b \o <<"LOOP">>,
            <<"3", "0", "?DO">> \o b \o <<"2", "+LOOP">>,
            <<"0", "0", "?DO">> \o b \o <<"LOOP">>,
            <<"0", "2", "DO">> \o b \o <<"-1", "+LOOP">>} : b \in bs}

Level1 == Ifs(Conditions, Level0) \cup IfElses(Conditions, Level0, Level0)
Level2 == Ifs({<<"0">>, <<"I">>}, Level1)
            \cup IfElses({<<"0">>, <<"I">>}, Level0, IfElses({<<"I">>}, Level0, Level0))
Bodies == Loops(Level1) \cup {<<"2", "0", "DO">> \o b \o <<"LOOP">> : b \in Level2}
Nested == {<<"2", "0", "DO">> \o b \o Print7 \o c \o <<"LOOP">> :
              b \in Loops(Level0), c \in Level0 \cup IfElses({<<"I">>}, Level0, {Print7})}
Called == {<<":", "W">> \o b \o <<";", "1", "W", "W">> : b \in Bodies \cup Nested}

\* Words that have no place in the grammar, and programs that are in error.
Body(b) == <<":", "W">> \o b \o <<";", "W">>
Others ==
    {Body(<<"2", "0", "DO", "1", "0", "DO", "1", "0", "DO", "I", "J", "K", ".S",
            "LOOP", "LOOP", "LOOP">>),
     Body(<<"1", "0", "DO", "J", "LOOP">>), Body(<<"1", "DO", "LOOP">>), Body(<<"IF", "THEN">>),
     <<"FOO">>, <<"DROP">>, <<":", "W", "DUP", "IF", "1", "-", "W", "THEN", ";", "2", "W">>,
     <<":", "B", "2", "0", "DO", "I", "X", "LOOP", ";", "B">>,
     Body(<<".\"", "a", "\"", "1", "IF", "(", "LEAVE", ")", "7", ".", "THEN", "BYE">>)}

AllPrograms == Called \cup Others
Texts       == {Spaced(p) : p \in AllPrograms}
MCPrograms  == Texts
\* TLC evaluates a definition of its own once, and one given to a constant at
\* every use.
Tokens      == <<>> :> <<>> @@ [t \in Texts |-> CHOOSE p \in AllPrograms : Spaced(p) = t]
MCTokensOf  == Tokens
=============================================================================
