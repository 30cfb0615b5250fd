---------------------------- MODULE CtilPrelude ----------------------------
(***************************************************************************)
(* prelude.4th, which the tests give to ctil with -i: conditions and BEGIN *)
(* loops, the words of one or two others.  Line comments are left out, and *)
(* all but two of the others; a cell is CellSize bytes.                    *)
(***************************************************************************)
EXTENDS SequencesExt

\* The characters of a text: a blank behind every word, none before the
\* closing quote.
Spaced(words) ==
    LET quoted(i) == i < Len(words) /\ words[i + 1] = "\""
    IN  FlattenSeq([i \in DOMAIN words |->
                       IF quoted(i) THEN <<words[i]>> ELSE <<words[i], " ">>])

PreludeWords == <<
    ":", "'\\N'", "10", ";",
    ":", "BL", "32", ";",
    ":", "CR", "'\\N'", "EMIT", ";",
    ":", "SPACE", "BL", "EMIT", ";",
    ":", "/", "/MOD", "SWAP", "DROP", ";",
    ":", "MOD", "/MOD", "DROP", ";",
    ":", "1+", "1", "+", ";",
    ":", "1-", "1", "-", ";",
    ":", "0=", "0", "=", ";",
    ":", "2DUP", "OVER", "OVER", ";",
    ":", "2DROP", "DROP", "DROP", ";",
    ":", "CELLS", "(", "N", "--", "N", ")", "2", "*", ";",
    ":", "CELL", "1", "CELLS", ";",
    ":", "CELL+", "1", "CELLS", "+", ";",
    ":", "CHARS", ";",
    ":", "CHAR+", "1", "CHARS", "+", ";",
    ":", "VARIABLE", "CREATE", "1", "CELLS", "ALLOT", ";",
    ":", "TUCK", "(", "X", "Y", "--", "Y", "X", "Y", ")", "SWAP", "OVER",
    ";",
    ":", "+!", "TUCK", "@", "+", "SWAP", "!", ";",
    ":", "IF", "IMMEDIATE", "'", "0BRANCH", ",", "HERE", "0", ",", ";",
    ":", "THEN", "IMMEDIATE", "DUP", "HERE", "SWAP", "-", "SWAP", "!", ";",
    ":", "ELSE", "IMMEDIATE", "'", "BRANCH", ",", "HERE", "0", ",", "SWAP",
    "DUP", "HERE", "SWAP", "-", "SWAP", "!", ";",
    ":", "BEGIN", "IMMEDIATE", "HERE", ";",
    ":", "UNTIL", "IMMEDIATE", "'", "0BRANCH", ",", "HERE", "-", ",", ";",
    ":", "WHILE", "IMMEDIATE", "'", "0BRANCH", ",", "HERE", "0", ",", ";",
    ":", "REPEAT", "IMMEDIATE", "'", "BRANCH", ",", "SWAP", "HERE", "-",
    ",", "DUP", "HERE", "SWAP", "-", "SWAP", "!", ";" >>
PreludeText == Spaced(PreludeWords)
=============================================================================
