---------------------------- MODULE CtilTestdata ----------------------------
(***************************************************************************)
(* Programs of testdata/ as ctil reads them, the output each file lists    *)
(* under OUT, and the codes of the characters they are made of.  The words *)
(* of GoTestdata are taken from there; ctil-*.4th are the tests of ctil    *)
(* alone.  Line comments are left out.                                     *)
(***************************************************************************)
EXTENDS GoTestdata, CtilPrelude, TLC

\* A character's code is its place here: words and texts are characters.
Alphabet == <<
    "\\", "(", ".", ".\"", ".S", ".D", "CLEARSTACK", "EMIT", "TYPE", "\n",
    "KEY", "DROP", "SWAP", "DUP", "OVER", "R>", ">R", "R@", "RDROP", "+",
    "-", "AND", "OR", "INVERT", "/MOD", "=", "<>", "<", ">", "IMMEDIATE",
    "'", " ", ",", "HERE", "LITNUMBER", "LITSTRING", "BRANCH", "0BRANCH",
    "DO", "?DO", "LOOP", "*", "+LOOP", "LEAVE", "_DOIMPL", "_DOQIMPL",
    "_LOOPIMPL", "_PLOOPIMPL", "_LEAVEIMPL", "I", "J", "K", "CHAR",
    "[CHAR]", "CREATE", "CONSTANT", "@", "!", "C@", "C!", "?", "ALLOT", ":",
    ";", "A", "B", "BYE", "'\\N'", "10", "BL", "32", "H", "CR", "SPACE",
    "/", "MOD", "1+", "1", "1-", "0=", "0", "2DUP", "2DROP", "CELLS", ")",
    "2", "CELL", "X", "CELL+", "CHARS", "CHAR+", "VARIABLE", "TUCK", "+!",
    "IF", "THEN", "ELSE", "BEGIN", "UNTIL", "WHILE", "REPEAT",
    "NESTEDIFTHENELSE", "outer if ok", "\"", "i", "9", "inner if ok",
    "inner else", "outer else", "-1", "and inner if too", "outer else 4",
    "outer if ok 5", "outer else 5", "?DUP", "GCD", "testing ?dup", "4",
    "testing gcd", "39", "18", "109", "28", "105", "20", "30", "5", "8",
    "6", "7", "NUMS", "3", "NUM@", "40", "ARR2", "100", "200", "300", "400",
    "500", "11", "DOLOOPS", "hop", "i=", "nested test", "43", "--",
    "using leave", "using leave in nested loop", "->", "+loop",
    "?do loop basic works", "hop?", "do enters on start=limit", "42",
    "ASTERISK", "BEGINLOOPS", "c=", "result is ", "three!! ", "KWA", "99",
    "KWA-IMM", "WORD1", "WORD2", "FOO", "BAR", "BOB", "value of bob: ",
    "MARK", "101", "value of mark ", "-59", "-404", "SEE", "I see ",
    "MORESEE", " cucumbers", "BUF", "FACT", "FIB-REC", "DOREC", "see ", "Y",
    "a", "b", "W", "C", "N", "this", "comment", "yea", "another", "line", "at", "end",
    "of", "cc", "\"\"", "tt", "nop", "nested", "ends", "with", "first" >>
Written == -404 .. 500
\* @@ makes TLC tabulate the function.
AlphabetCode == "(" :> 2 @@ [c \in {Alphabet[i] : i \in DOMAIN Alphabet} |-> CHOOSE i \in DOMAIN Alphabet : Alphabet[i] = c]
NumberValues == "0" :> 0 @@ [w \in {ToString(n) : n \in Written} |->
                                 CHOOSE n \in Written : ToString(n) = w]

\* ctil-begin-loops.4th
BeginLoops == <<
    "42", "CONSTANT", "ASTERISK", ":", "BEGINLOOPS", "5", "BEGIN", ".\"",
    "c=", "\"", "DUP", ".", "1-", "DUP", "0", "=", "UNTIL", "CR",
    "CLEARSTACK", "1", "7", "BEGIN", "1-", "DUP", "0", ">", "WHILE", "SWAP",
    "OVER", "*", "SWAP", "REPEAT", "DROP", ".\"", "result is ", "\"", ".",
    "CR", "CLEARSTACK", "5", "BEGIN", ".\"", "c=", "\"", "DUP", ".", "DUP",
    "3", "=", "IF", ".\"", "three!! ", "\"", "THEN", "1-", "DUP", "0", "=",
    "UNTIL", "CR", "5", "BEGIN", "DUP", "BEGIN", "ASTERISK", "EMIT", "1-",
    "DUP", "0", "=", "UNTIL", "DROP", "CR", "1-", "DUP", "0", "=", "UNTIL",
    ";", "BEGINLOOPS", "BYE" >>
BeginLoopsOut == <<
    Text("c="), Num(5), Text("c="), Num(4), Text("c="), Num(3), Text("c="), Num(2),
    Text("c="), Num(1), Newline, Text("result is "), Num(720), Newline,
    Text("c="), Num(5), Text("c="), Num(4), Text("c="), Num(3), Text("three!! "),
    Text("c="), Num(2), Text("c="), Num(1), Newline >>
  \o [i \in 1 .. 20 |-> IF i \in {6, 11, 15, 18, 20} THEN Newline ELSE <<"char", 42>>]
\* ctil-check-prelude.4th
CheckPrelude == <<
    "10", ".", "CR", "'\\N'", "DUP", "EMIT", "EMIT", "20", ".", "CR", "BYE" >>
CheckPreludeOut == <<
    Num(10), Newline, Newline, Newline, Num(20), Newline >>
\* ctil-here.4th, with the cell size of Cells
CheckHere == <<
    "HERE", "2", "CELLS", "ALLOT", "HERE", "-", ".", "CR", "BYE" >>
CheckHereOut == <<
    Num(-4), Newline >>
\* ctil-immediate-flag.4th
ImmediateFlag == <<
    ":", "KWA", "99", ";", ":", "KWA-IMM", "IMMEDIATE", "99", ";", ":",
    "WORD1", "KWA", ";", ".S", "CR", ":", "WORD2", "KWA-IMM", ";", ".S",
    "CR", "BYE" >>
ImmediateFlagOut == <<
    <<"stack", <<>>>>, Newline, <<"stack", <<99>>>>, Newline >>
\* ctil-tick-comma.4th
TickComma == <<
    ":", "FOO", "IMMEDIATE", "'", "+", ",", ";", ":", "BAR", "10", "20",
    "FOO", ";", "BAR", ".", "CR", "BYE" >>
TickCommaOut == <<
    Num(30), Newline >>
\* variable.4th
Variables == <<
    "VARIABLE", "BOB", "99", "BOB", "!", ".\"", "value of bob: ", "\"",
    "BOB", "?", "10", "EMIT", "VARIABLE", "MARK", "101", "MARK", "!", ".\"",
    "value of bob: ", "\"", "BOB", "?", "10", "EMIT", ".\"",
    "value of mark ", "\"", "MARK", "?", "10", "EMIT", "-59", "BOB", "!",
    "-404", "MARK", "!", ".\"", "value of bob: ", "\"", "BOB", "?", "10",
    "EMIT", ".\"", "value of mark ", "\"", "MARK", "?", "10", "EMIT", "200",
    "MARK", "+!", ".\"", "value of bob: ", "\"", "BOB", "?", "10", "EMIT",
    ".\"", "value of mark ", "\"", "MARK", "?", "10", "EMIT", "BYE" >>
VariablesOut == <<
    Text("value of bob: "), Num(99), Newline, Text("value of bob: "), Num(99), Newline,
    Text("value of mark "), Num(101), Newline, Text("value of bob: "), Num(-59), Newline,
    Text("value of mark "), Num(-404), Newline, Text("value of bob: "), Num(-59), Newline,
    Text("value of mark "), Num(-204), Newline >>
\* dotquote-in-word.4th
TextInWord == <<
    ":", "SEE", ".\"", "I", "see ", "\"", ".", ";", "9", "SEE", "10",
    "EMIT", ":", "MORESEE", ".\"", "I see ", "\"", ".", ".\"", " cucumbers",
    "\"", ";", "3", "MORESEE", "10", "EMIT", "BYE" >>
TextInWordOut == <<
    <<"text", <<"I", " ", "see ">>>>, Num(9), Newline, Text("I see "), Num(3),
    Text(" cucumbers"), Newline >>
\* charbuf.4th
Charbuf == <<
    "CREATE", "BUF", "10", "CHARS", "ALLOT", "BUF", "CHAR", "H", "OVER",
    "C!", "BUF", "CHAR+", "CHAR", "i", "OVER", "C!", "BUF", "C@", ".",
    "BUF", "CHAR+", "C@", "EMIT", "10", "EMIT", "BYE" >>
CharbufOut == <<
    Num(72), <<"char", 105>>, Newline >>
\* recursion.4th, the numbers that fit into a cell
Recursion == <<
    ":", "FACT", "DUP", "0", ">", "IF", "DUP", "1", "-", "FACT", "*",
    "ELSE", "DROP", "1", "THEN", ";", ":", "CR", "10", "EMIT", ";", "4",
    "FACT", ".", "CR", ":", "FIB-REC", "DUP", "2", "<", "IF", "ELSE", "1-",
    "DUP", "FIB-REC", "SWAP", "1-", "FIB-REC", "+", "THEN", ";", ":",
    "DOREC", "10", "1", "DO", "I", "FIB-REC", ".", "LOOP", "CR", ";",
    "DOREC", "BYE" >>
RecursionOut == <<
    Num(24), Newline, Num(1), Num(1), Num(2), Num(3), Num(5), Num(8), Num(13),
    Num(21), Num(34), Newline >>

\* Each program and its output.
Listed == {<<w, Expected(w)>> : w \in Testdata}
            \cup {<<BeginLoops, BeginLoopsOut>>, <<CheckPrelude, CheckPreludeOut>>,
                  <<CheckHere, CheckHereOut>>, <<ImmediateFlag, ImmediateFlagOut>>,
                  <<TickComma, TickCommaOut>>, <<Variables, VariablesOut>>,
                  <<TextInWord, TextInWordOut>>, <<Charbuf, CharbufOut>>,
                  <<Recursion, RecursionOut>>}
=============================================================================
