----------------------------- MODULE CtilReader -----------------------------
(***************************************************************************)
(* The loops that read the input of ctil a character at a time: get_word   *)
(* of ctil/input.c, and those of \ ( and ." in ctil/builtins.c.  A step is *)
(* one call of fgetc, or a function's return.                              *)
(***************************************************************************)
EXTENDS CtilInput

CONSTANTS Texts,     \* what the stream may hold
          Upper      \* toupper

VARIABLES stream, pos,  \* the characters, and how many fgetc has returned
          function,     \* the function that is reading, or "none"
          start,        \* pos when it was called
          c,            \* what fgetc returned last
          out,          \* the characters in the buffer
          skipping      \* get_word is in its first loop

readerVars == <<stream, pos, function, start, c, out, skipping>>

EOF == "EOF"

ASSUME ReaderAssumption == Texts \subseteq Seq(DOMAIN Upper) /\ EOF \notin DOMAIN Upper

\* The functions other than get_word, and the character each reads up to.
Closers == [f \in {"backslash", "paren", "dotQuote"} |->
               CASE f = "backslash" -> "\n" [] f = "paren" -> ")" [] f = "dotQuote" -> Quote]

\* Mutation of Ended: ( and the others do not look for the end of the input.
EndedByCloser ==
    CASE function = "get_word" -> ~ skipping /\ (\/ c \in Blanks \cup {EOF}
                                                 \/ Len(out) >= BufSize - 1)
      [] function \in DOMAIN Closers -> c = Closers[function]
      [] OTHER -> FALSE

\* A function that has read its last character.
Ended ==
    CASE function = "get_word" -> ~ skipping /\ (\/ c \in Blanks \cup {EOF}
                                                 \/ Len(out) >= BufSize - 1)
      [] function \in DOMAIN Closers -> c \in {EOF, Closers[function]}
      [] OTHER -> FALSE

Fgetc ==
    /\ c' = IF pos < Len(stream) THEN stream[pos + 1] ELSE EOF
    /\ pos' = IF pos < Len(stream) THEN pos + 1 ELSE pos

Init ==
    /\ stream \in Texts /\ pos = 0
    /\ function = "none" /\ start = 0 /\ c = " " /\ out = <<>> /\ skipping = FALSE

\* A call, and the first character.
Calls(f) ==
    /\ function = "none" /\ c # EOF
    /\ function' = f /\ start' = pos /\ out' = <<>>
    /\ Fgetc /\ skipping' = (f = "get_word" /\ c' \in Blanks)
    /\ UNCHANGED stream

\* Leading blanks are passed over.
Skips ==
    /\ function = "get_word" /\ skipping
    /\ Fgetc /\ skipping' = (c' \in Blanks)
    /\ UNCHANGED <<stream, function, start, out>>

\* Mutation of Keeps: the last byte of buf is taken for a character.
KeepsOneMore ==
    /\ function = "get_word" /\ ~ skipping /\ c \notin Blanks \cup {EOF} /\ Len(out) < BufSize
    /\ out' = Append(out, Upper[c])
    /\ Fgetc /\ UNCHANGED <<stream, function, start, skipping>>

\* A character of the word, made upper case when the word is complete.
Keeps ==
    /\ function = "get_word" /\ ~ skipping /\ ~ Ended
    /\ out' = Append(out, Upper[c])
    /\ Fgetc /\ UNCHANGED <<stream, function, start, skipping>>

\* The others read on; ." keeps what fits into its buffer.
ReadsOn ==
    /\ function \in DOMAIN Closers /\ ~ Ended
    /\ \/ function = "dotQuote" /\ Len(out) < 4 * BufSize - 1 /\ out' = Append(out, c)
       \/ ~ (function = "dotQuote" /\ Len(out) < 4 * BufSize - 1) /\ UNCHANGED out
    /\ Fgetc /\ UNCHANGED <<stream, function, start, skipping>>

Returns ==
    /\ Ended /\ function' = "none"
    /\ UNCHANGED <<stream, pos, start, c, out, skipping>>

\* The end of the input has been seen.
AtEOF == function = "none" /\ c = EOF /\ UNCHANGED readerVars

Step == Skips \/ Keeps \/ ReadsOn \/ Returns
Next == Step \/ AtEOF \/ \E f \in {"get_word"} \cup DOMAIN Closers : Calls(f)
Spec == Init /\ [][Next]_readerVars /\ WF_readerVars(Step)

-----------------------------------------------------------------------------
InUpperCase(s) == [i \in DOMAIN s |-> Upper[s[i]]]

\* What a function leaves behind is what the interpreter is specified with:
\* the word, the text and the position that CtilInput reads off the whole
\* input ("Get the next whitespace-separated word", input.h:6).
LeavesWhatInputSays ==
    Ended =>
      CASE function = "get_word" ->
             out = InUpperCase(GetWord(stream, start)) /\ pos = AfterWord(stream, start)
        [] OTHER ->
             LET close == Closing(stream, start, Closers[function])
             IN  /\ pos = IF close = 0 THEN Len(stream) ELSE close
                 /\ c = EOF <=> close = 0
                 /\ function = "dotQuote" /\ close # 0 => out = TextFrom(stream, start)

\* Every call returns: at the end of the input at the latest.
EveryCallReturns == function # "none" ~> function = "none"
=============================================================================
