---------------------------- MODULE GoTestdata ----------------------------
(***************************************************************************)
(* Programs of testdata/, as goforth reads them, and the output each file  *)
(* lists under OUT.  A string is one token; line comments and newlines are *)
(* left out, except in Comments.                                           *)
(***************************************************************************)
EXTENDS Integers, Sequences

Num(n)  == <<"num", n>>
Text(s) == <<"text", <<s>>>>
Newline == <<"char", 10>>

\* nestedifthenelse.4th
NestedIf == <<
    ":", "CR", "10", "EMIT", ";", ":", "NESTEDIFTHENELSE", "1", "IF", ".\"",
    "outer if ok", "\"", "9", "IF", ".\"", "inner if ok", "\"", "THEN", "THEN",
    "CR", "1", "IF", ".\"", "outer if ok", "\"", "0", "IF", ".\"",
    "inner if ok", "\"", "ELSE", ".\"", "inner else", "\"", "THEN", "THEN",
    "CR", "0", "IF", ".\"", "outer if ok", "\"", "ELSE", ".\"", "outer else",
    "\"", "-1", "IF", ".\"", "inner if ok", "\"", "THEN", "THEN", "CR", "0",
    "IF", ".\"", "outer if ok", "\"", "1", "IF", ".\"", "and inner if too",
    "\"", "THEN", "ELSE", ".\"", "outer else 4", "\"", "THEN", "CR", "1", "IF",
    ".\"", "outer if ok 5", "\"", "1", "IF", ".\"", "and inner if too", "\"",
    "THEN", "ELSE", ".\"", "outer else 5", "\"", "THEN", "CR", ";",
    "NESTEDIFTHENELSE", "BYE" >>
NestedIfOut == <<
    Text("outer if ok"), Text("inner if ok"), Newline, Text("outer if ok"),
    Text("inner else"), Newline, Text("outer else"), Text("inner if ok"),
    Newline, Text("outer else 4"), Newline, Text("outer if ok 5"),
    Text("and inner if too"), Newline >>

\* gcd.4th
Gcd == <<
    ":", "CR", "10", "EMIT", ";", ":", "TUCK", "SWAP", "OVER", ";", ":", "?DUP",
    "DUP", "0", "<>", "IF", "DUP", "THEN", ";", ":", "GCD", "?DUP", "IF",
    "TUCK", "MOD", "GCD", "THEN", ";", ".\"", "testing ?dup", "\"", "CR", "4",
    "?DUP", ".S", "CR", "CLEARSTACK", "0", "?DUP", ".S", "CR", ".\"",
    "testing gcd", "\"", "CR", "39", "18", "GCD", ".", "CR", "109", "28", "GCD",
    ".", "CR", "105", "28", "GCD", ".", "CR", "BYE" >>
GcdOut == <<
    Text("testing ?dup"), Newline, <<"stack", <<4, 4>>>>, Newline,
    <<"stack", <<0>>>>, Newline, Text("testing gcd"), Newline, Num(3), Newline,
    Num(1), Newline, Num(7), Newline >>

\* retstack.4th
Retstack == <<
    "10", "20", "30", ">R", ".S", "10", "EMIT", "*", "DUP", ".", "10", "EMIT",
    "R>", "+", ".", "10", "EMIT", "5", "8", ">R", "R@", "R@", "R@", ".S", "10",
    "EMIT", "RDROP", "CLEARSTACK", "5", "6", "7", ">R", ">R", "RDROP", ".",
    "R>", ".", "10", "EMIT", "BYE" >>
RetstackOut == <<
    <<"stack", <<10, 20>>>>, Newline, Num(200), Newline, Num(230), Newline,
    <<"stack", <<5, 8, 8, 8>>>>, Newline, Num(5), Num(7), Newline >>

\* array-alloc.4th, with the cell size of Cells
ArrayAlloc == <<
    "CREATE", "NUMS", "3", "CELLS", "ALLOT", "10", "NUMS", "0", "CELLS", "+",
    "!", ":", "NUM@", "CELLS", "NUMS", "+", ";", "30", "1", "NUM@", "!", "40",
    "2", "NUM@", "!", "0", "NUM@", "?", "1", "NUM@", "?", "2", "NUM@", "?",
    "10", "EMIT", "CREATE", "ARR2", "100", ",", "200", ",", "300", ",", "400",
    ",", "500", ",", "1", "CELLS", "ARR2", "+", "?", "2", "CELLS", "ARR2", "+",
    "?", "4", "CELLS", "ARR2", "+", "?", "BYE" >>
ArrayAllocOut == <<
    Num(10), Num(30), Num(40), Newline, Num(200), Num(300), Num(500) >>

\* comments.4th
Comments == <<
    "5", "6", "\\", "this", "comment", "yea", "\n", "\n", "\\", "another",
    "line", "comment", "9", "9", "8", "\n", ".", ".", "\n", "\n", "7", ".", "(",
    "comment", "at", "end", "of", "line", ")", "\n", "(", "comment", ")", "\n",
    "9", "(", "comment", ")", ".", "(", "cc", "\"\"", "tt", ".\"", "nop", "9",
    ")", "10", ".", "\n", "\n", "11", "(", "nested", "(", "(", "(", "ends",
    "with", "first", ")", ".", "\n", "BYE" >>
CommentsOut == <<
    Num(6), Num(5), Num(7), Num(9), Num(10), Num(11) >>

\* doloop.4th, up to its last loop
DoLoops == <<
    ":", "CR", "10", "EMIT", ";", ":", "DOLOOPS", "4", "1", "DO", ".\"", "hop",
    "\"", "LOOP", "CR", "4", "1", "DO", ".\"", "i=", "\"", "I", ".", "LOOP",
    "CR", ".\"", "nested test", "\"", "CR", "2", "0", "DO", "43", "40", "DO",
    "J", ".", "I", ".", ".\"", "--", "\"", "LOOP", "LOOP", "CR", ".\"",
    "using leave", "\"", "CR", "8", "1", "DO", "I", ".", "I", "5", "=", "IF",
    "LEAVE", "THEN", "I", "2", "*", ".", "LOOP", "CR", ".\"",
    "using leave in nested loop", "\"", "CR", "4", "1", "DO", "I", ".", ".\"",
    "->", "\"", "6", "1", "DO", "I", "3", "=", "IF", "LEAVE", "THEN", "I", ".",
    "LOOP", "CR", "LOOP", ".\"", "+loop", "\"", "CR", "10", "1", "DO", "I", ".",
    "2", "+LOOP", "CR", ".\"", "?do loop basic works", "\"", "CR", "4", "1",
    "DO", ".\"", "hop?", "\"", "LOOP", "CR", ".\"", "do enters on start=limit",
    "\"", "CR", "5", "5", "DO", "I", ".", "I", "5", "=", "IF", "LEAVE", "THEN",
    "LOOP", "CR", ";", "DOLOOPS", "BYE" >>
DoLoopsOut == <<
    Text("hop"), Text("hop"), Text("hop"), Newline, Text("i="), Num(1),
    Text("i="), Num(2), Text("i="), Num(3), Newline, Text("nested test"),
    Newline, Num(0), Num(40), Text("--"), Num(0), Num(41), Text("--"), Num(0),
    Num(42), Text("--"), Num(1), Num(40), Text("--"), Num(1), Num(41),
    Text("--"), Num(1), Num(42), Text("--"), Newline, Text("using leave"),
    Newline, Num(1), Num(2), Num(2), Num(4), Num(3), Num(6), Num(4), Num(8),
    Num(5), Newline, Text("using leave in nested loop"), Newline, Num(1),
    Text("->"), Num(1), Num(2), Newline, Num(2), Text("->"), Num(1), Num(2),
    Newline, Num(3), Text("->"), Num(1), Num(2), Newline, Text("+loop"),
    Newline, Num(1), Num(3), Num(5), Num(7), Num(9), Newline,
    Text("?do loop basic works"), Newline, Text("hop?"), Text("hop?"),
    Text("hop?"), Newline, Text("do enters on start=limit"), Newline, Num(5),
    Newline >>

Testdata == {NestedIf, Gcd, Retstack, ArrayAlloc, Comments, DoLoops}
Expected(program) ==
    CASE program = NestedIf   -> NestedIfOut
      [] program = Gcd        -> GcdOut
      [] program = Retstack   -> RetstackOut
      [] program = ArrayAlloc -> ArrayAllocOut
      [] program = Comments   -> CommentsOut
      [] program = DoLoops    -> DoLoopsOut
=============================================================================
