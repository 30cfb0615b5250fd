------------------------------ MODULE GoInput ------------------------------
(***************************************************************************)
(* How goforth reads its input, a character at a time: the loops of        *)
(* nextWord, nextWordCaseSensitive and rewindWord in goforth.go, and the   *)
(* searches of \ ( and ." in builtins.go.  inputPtr is the number of       *)
(* characters consumed.                                                    *)
(***************************************************************************)
EXTENDS Integers, Sequences

CONSTANTS Texts,  \* the inputs
          Upper   \* strings.ToUpper, on the characters of the inputs

VARIABLES input, inputPtr, compileMode, stdout, status,
          function,  \* the function that is reading, or "none"
          called,    \* inputPtr when it was called
          start,     \* where its word starts, or -1 before it is found
          word       \* the word that was read last, unless it was used

inputVars == <<input, inputPtr, compileMode, stdout, status,
               function, called, start, word>>
kept == <<input, compileMode, stdout, status>>

ASSUME GoInputAssumption == Texts \subseteq Seq(DOMAIN Upper)

Whitespace == {" ", "\n", "\t", "\r"}
NextWords  == {"nextWord", "nextWordCaseSensitive"}

EndOfInput   == inputPtr >= Len(input)
IsWhite(i)   == input[i + 1] \in Whitespace
InUpperCase(s) == [i \in DOMAIN s |-> Upper[s[i]]]

Init ==
    /\ input \in Texts /\ inputPtr = 0
    /\ compileMode \in BOOLEAN /\ stdout = <<>> /\ status = "running"
    /\ function = "none" /\ called = 0 /\ start = -1 /\ word = <<>>

-----------------------------------------------------------------------------
(* nextWord and nextWordCaseSensitive.                                     *)

\* A call by doRun, or by any of the words that read words.
Calls(f) ==
    /\ status = "running" /\ function = "none"
    /\ function' = f /\ called' = inputPtr /\ start' = -1 /\ word' = <<>>
    /\ UNCHANGED <<kept, inputPtr>>

SkipWhitespace ==
    /\ function \in NextWords /\ start = -1 /\ ~ EndOfInput /\ IsWhite(inputPtr)
    /\ inputPtr' = inputPtr + 1
    /\ UNCHANGED <<kept, function, called, start, word>>

StartsWord ==
    /\ function \in NextWords /\ start = -1 /\ ~ EndOfInput /\ ~ IsWhite(inputPtr)
    /\ start' = inputPtr
    /\ UNCHANGED <<kept, inputPtr, function, called, word>>

ReadsCharacter ==
    /\ function \in NextWords /\ start # -1 /\ ~ EndOfInput /\ ~ IsWhite(inputPtr)
    /\ inputPtr' = inputPtr + 1
    /\ UNCHANGED <<kept, function, called, start, word>>

\* Mutation of ReturnsWord: the end of the input is not looked for.
ReturnsAtWhitespace ==
    /\ function \in NextWords
    /\ ~ EndOfInput /\ start # -1 /\ IsWhite(inputPtr)
    /\ LET read == SubSeq(input, start + 1, inputPtr)
       IN  word' = IF function = "nextWord" THEN InUpperCase(read) ELSE read
    /\ function' = "none"
    /\ UNCHANGED <<kept, inputPtr, called, start>>

\* The word, or "" at the end of the input.
ReturnsWord ==
    /\ function \in NextWords
    /\ ~ EndOfInput => start # -1 /\ IsWhite(inputPtr)
    /\ LET read == IF start = -1 THEN <<>> ELSE SubSeq(input, start + 1, inputPtr)
       IN  word' = IF function = "nextWord" THEN InUpperCase(read) ELSE read
    /\ function' = "none"
    /\ UNCHANGED <<kept, inputPtr, called, start>>

-----------------------------------------------------------------------------
(* rewindWord, which skipLoop calls when it has read the LOOP.             *)

CallsRewind ==
    /\ status = "running" /\ function = "none" /\ word # <<>>
    /\ called' = inputPtr /\ start' = -1 /\ word' = <<>>
    /\ function' = IF inputPtr = 0 THEN "none" ELSE "rewindWord"
    /\ status'   = IF inputPtr = 0 THEN "fatal" ELSE status
    /\ UNCHANGED <<input, inputPtr, compileMode, stdout>>

\* First back over whitespace, then, from start on, to the front of the word.
RewindsWhitespace ==
    /\ function = "rewindWord" /\ start = -1
    /\ LET white == inputPtr > 0 /\ IsWhite(inputPtr - 1) IN
       /\ inputPtr' = IF white THEN inputPtr - 1 ELSE inputPtr
       /\ start'    = IF white THEN -1 ELSE inputPtr
    /\ UNCHANGED <<kept, function, called, word>>

AtFront == inputPtr > 0 => IsWhite(inputPtr - 1)
Rewinds ==
    /\ function = "rewindWord" /\ start # -1 /\ ~ AtFront
    /\ inputPtr' = inputPtr - 1
    /\ UNCHANGED <<kept, function, called, start, word>>

\* Mutation of ReturnsRewound: it ends before the whitespace, not behind it.
ReturnsTooFar ==
    /\ function = "rewindWord" /\ start # -1 /\ AtFront
    /\ inputPtr' = IF inputPtr > 0 THEN inputPtr - 1 ELSE inputPtr
    /\ function' = "none"
    /\ UNCHANGED <<kept, called, start, word>>
ReturnsRewound ==
    /\ function = "rewindWord" /\ start # -1 /\ AtFront
    /\ function' = "none"
    /\ UNCHANGED <<kept, inputPtr, called, start, word>>

-----------------------------------------------------------------------------
(* Words that search for a character, executed when they have been read.   *)

Executed ==
    /\ status = "running" /\ function = "none" /\ word # <<>>
    /\ word' = <<>> /\ called' = inputPtr
    /\ UNCHANGED <<input, compileMode, function, start>>

\* strings.Index(input[p:], c), as the position behind c
Found(p, c)   == {q \in p + 1 .. Len(input) : input[q] = c}
Behind(p, c)  == CHOOSE q \in Found(p, c) : \A r \in Found(p, c) : q <= r

\* backslash and paren
Comment(c) ==
    /\ Executed
    /\ inputPtr' = IF Found(inputPtr, c) = {} THEN Len(input) ELSE Behind(inputPtr, c)
    /\ UNCHANGED <<stdout, status>>

\* Mutation of DotQuote: the white space behind ." is looked for, not skipped.
DotQuoteTrims ==
    /\ Executed
    /\ \/ EndOfInput /\ status' = "crash" /\ UNCHANGED <<inputPtr, stdout>>
       \/ /\ ~ EndOfInput
          /\ LET p == IF inputPtr + 1 < Len(input) THEN inputPtr + 2 ELSE inputPtr IN
             \/ Found(p, "\"") = {} /\ status' = "fatal" /\ inputPtr' = p /\ UNCHANGED stdout
             \/ /\ Found(p, "\"") # {} /\ inputPtr' = Behind(p, "\"")
                /\ stdout' = IF compileMode THEN stdout
                             ELSE stdout \o SubSeq(input, p + 1, inputPtr' - 1)
                /\ UNCHANGED status

\* dotQuote looks at the character behind ." before it looks whether there is
\* one.
DotQuote ==
    /\ Executed
    /\ \/ EndOfInput /\ status' = "crash" /\ UNCHANGED <<inputPtr, stdout>>
       \/ /\ ~ EndOfInput
          /\ LET p == IF IsWhite(inputPtr) THEN inputPtr + 1 ELSE inputPtr IN
             \/ Found(p, "\"") = {} /\ status' = "fatal" /\ inputPtr' = p /\ UNCHANGED stdout
             \/ /\ Found(p, "\"") # {} /\ inputPtr' = Behind(p, "\"")
                /\ stdout' = IF compileMode THEN stdout
                             ELSE stdout \o SubSeq(input, p + 1, inputPtr' - 1)
                /\ UNCHANGED status

-----------------------------------------------------------------------------
Step == \/ SkipWhitespace \/ StartsWord \/ ReadsCharacter \/ ReturnsWord
        \/ RewindsWhitespace \/ Rewinds \/ ReturnsRewound
Next == \/ Step
        \/ \E f \in NextWords : Calls(f)
        \/ CallsRewind \/ DotQuote
        \/ \E c \in {"\n", ")"} : Comment(c)
Spec == Init /\ [][Next]_inputVars /\ WF_inputVars(Step)
=============================================================================
