----------------------------- MODULE GoInputMC -----------------------------
(***************************************************************************)
(* GoInput for TLC: every text of up to five characters, in or out of a    *)
(* definition; and what goforth is specified with instead of characters,   *)
(* the sequence of words of GoReading.                                     *)
(***************************************************************************)
EXTENDS GoInput, FiniteSets

\* The characters that are words of their own, and the words of a text.
Single == {"\n", ")", "\""}
Starts(s) ==
    {q \in DOMAIN s : \/ s[q] \in Single
                      \/ /\ s[q] \notin Whitespace
                         /\ q > 1 => s[q - 1] \in Whitespace \cup Single}
\* The number of words that begin in the first p characters of s.
Count(s, p) == Cardinality({q \in Starts(s) : q <= p})
Kind(char) == IF char \in Single THEN char ELSE "WORD"
Words(s) == [i \in 1 .. Count(s, Len(s)) |->
                Kind(s[CHOOSE q \in Starts(s) : Count(s, q) = i])]

\* A position in the characters, as one in the words.
Consumed(p) == Count(input, p)

Go == INSTANCE GoReading WITH input <- Words(input)

\* A word that is read as one: GoReading has no word to which a closing
\* character clings.
Alone(p, q) == q = p + 1 \/ \A i \in p + 1 .. q : input[i] \notin Single \ Whitespace

\* nextWord returns the next of the words, and "" if there are no more;
\* rewindWord undoes that ("rewinds the input pointer to the start of the
\* previous word", goforth.go:195), and is never refused.
ReadsWords ==
    [][LET p == Consumed(called)
           r == Consumed(inputPtr')
       IN  /\ function \in NextWords /\ function' = "none" =>
                 \/ word' = <<>> /\ Go!WordsAfter(p) = {}
                 \/ /\ word' # <<>>
                    /\ Alone(start, inputPtr') =>
                         Go!First(r, Go!WordsAfter(p))
           /\ function = "rewindWord" /\ function' = "none" =>
                 (Alone(inputPtr', called) => r = p - 1)
           /\ CallsRewind => status' = "running"]_inputVars

\* Comments and texts end where GoReading finds the word they end with, and
\* what is written is what lies between, but for one blank or newline.
SearchesWords ==
    [][LET p == Consumed(inputPtr)
           r == Consumed(inputPtr')
           quotes == {q \in p + 1 .. Len(Words(input)) : Words(input)[q] = Go!Quote}
           text == SubSeq(stdout', Len(stdout) + 1, Len(stdout'))
       IN  /\ \A c \in {Go!NL, ")"} : Comment(c) => Go!SkipsTo(c, p, r)
           /\ DotQuote =>
                CASE status' = "crash" -> p = Len(Words(input))
                  [] status' = "fatal" -> quotes = {}
                  [] OTHER -> /\ Go!First(r, quotes)
                              /\ compileMode \/ Words(text) \in
                                   {SubSeq(Words(input), q, r - 1) : q \in {p + 1, p + 2}}]_inputVars

\* nextWord and rewindWord return, on every input.
EveryCallReturns == function # "none" ~> function = "none"

-----------------------------------------------------------------------------
Characters == {"x", " ", "\n", ")", "\""}
MCUpper == [c \in Characters |-> IF c = "x" THEN "X" ELSE c]
MCTexts == UNION {[1 .. n -> Characters] : n \in 0 .. 5}
=============================================================================
