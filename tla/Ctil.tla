-------------------------------- MODULE Ctil --------------------------------
(***************************************************************************)
(* ctil: main, the interpreter that reads words and executes or compiles   *)
(* them (ctil/state.c), and the builtins that read the input.  A step is   *)
(* the handling of one word that was read, or of one cell of compiled code.*)
(***************************************************************************)
EXTENDS CtilCompiler, CtilInput

CONSTANTS Numbers,   \* the characters that are numbers, and their values
          Prelude,   \* the file of -i
          Programs   \* what stdin may hold

VARIABLES stream,    \* what is being read
          input, at  \* its characters, and how many have been consumed

readVars == <<stream, input, at>>
vars == <<codeVars, readVars>>

-----------------------------------------------------------------------------
(* The builtins.                                                           *)

\* register_builtins
Builtins == <<
    "\\", "(", ".", ".\"", ".S", ".D", "CLEARSTACK", "EMIT", "TYPE", "KEY", "DROP",
    "SWAP", "DUP", "OVER", "R>", ">R", "R@", "RDROP", "+", "-", "*", "AND", "OR",
    "INVERT", "/MOD", "=", "<>", "<", ">", "IMMEDIATE", "'", ",", "HERE", "LITNUMBER",
    "LITSTRING", "BRANCH", "0BRANCH", "DO", "?DO", "LOOP", "+LOOP", "LEAVE", "_DOIMPL",
    "_DOQIMPL", "_LOOPIMPL", "_PLOOPIMPL", "_LEAVEIMPL", "I", "J", "K", "CHAR",
    "[CHAR]", "CREATE", "CONSTANT", ",", "@", "!", "C@", "C!", "?", "ALLOT", ":", ";",
    "BYE" >>
ImmediateBuiltins == {"\\", "(", ".\"", "IMMEDIATE", "DO", "?DO", "LOOP", "+LOOP",
                      "LEAVE", "[CHAR]", ";"}

ASSUME CtilAssumption ==
    /\ Builtins \in Seq(DOMAIN Code) /\ DOMAIN Builtins \subseteq Cell
    /\ Prelude \in Seq(DOMAIN Code) /\ Programs \subseteq Seq(DOMAIN Code)
    /\ \A c \in DOMAIN Numbers : Numbers[c] \in Cell
    /\ F_BUILTIN + F_IMMEDIATE \in Byte

\* create_state, and main before it registers the builtins: they are taken for
\* what is read first.
Init ==
    /\ WordsInit /\ latest = -1
    /\ stream = "builtins" /\ input = Builtins /\ at = 0
    /\ compiling = FALSE /\ loops = <<>>
    /\ executing = FALSE /\ pc = 0

-----------------------------------------------------------------------------
(* Builtins that read the input, from position p on.                       *)

Reads(p) == at' = p /\ UNCHANGED <<stream, input>>
KeepsCode == UNCHANGED <<latest, compiling, loops>>

\* What is read ends at q and is wanted by Act, or was not found up to the end.
Wanted(found, q, Act) == \/ found /\ Act /\ Reads(q)
                         \/ ~ found /\ Dies /\ KeepsCode /\ Reads(Len(input))

ToNewline(p) == LET q == Closing(input, p, "\n") IN IF q = 0 THEN Len(input) ELSE q
Backslash(p) == Reads(ToNewline(p)) /\ KeepsCode /\ UNCHANGED wordVars

Paren(p) == LET q == Closing(input, p, ")")
            IN  Wanted(q # 0, q, KeepsCode /\ UNCHANGED wordVars)

\* LITSTRING, the padded length, the text and TYPE.  The text is not ended by
\* a zero: the byte that follows is what memory holds there.
PlaceText(text) ==
    LET d == PlaceCell(PlaceWord(Dict, "LITSTRING"), AlignNameLen(Len(text)))
    IN  PlaceWord(Extends(d, Len(text),
                     [d EXCEPT !.mem  = PlaceBytes(d.mem, d.here, text),
                               !.here = d.here + AlignNameLen(Len(text))]), "TYPE")

DotQuote(p) ==
    LET q    == Closing(input, p, "\"")
        text == Name(TextFrom(input, p))
    IN  Wanted(q # 0, q, /\ \/ compiling /\ Compiles(PlaceText(text)) /\ UNCHANGED <<compiling, loops>>
                            \/ ~ compiling /\ Writes(0, <<"text", text>>) /\ KeepsCode)

Key(p) ==
    \/ p < Len(input) /\ Push(Code[input[p + 1]]) /\ Reads(p + 1) /\ KeepsCode
    \/ p = Len(input) /\ Stops("exited") /\ Reads(p) /\ KeepsCode

\* A word is read, its name or its first character is used.
WithWord(p, Act(_)) ==
    LET name == Name(GetWord(input, p))
    IN  Wanted(name # <<>>, AfterWord(input, p), Act(name))

Char(p) == WithWord(p, LAMBDA name : Push(SignedByte(name[1])) /\ KeepsCode)

\* The next character, whatever it is, in the first byte of a cell.
PlaceChar(c) ==
    LET d == PlaceWord(Dict, "LITNUMBER")
    IN  Extends(d, 1, [d EXCEPT !.mem = PlaceBytes(d.mem, d.here, <<c>>),
                                !.here = d.here + CellSize])
CompChar(p) ==
    \/ compiling /\ Wanted(p < Len(input), p + 1,
                           Compiles(PlaceChar(Code[input[p + 1]])) /\ UNCHANGED <<compiling, loops>>)
    \/ ~ compiling /\ Dies /\ KeepsCode /\ Reads(p)

\* : ; defines nothing.
DefinesWord(name) ==
    \/ name # WordName(";") /\ Colon(name) /\ compiling' = TRUE /\ UNCHANGED loops
    \/ name = WordName(";") /\ UNCHANGED wordVars /\ KeepsCode

ReadingWords == {"\\", "(", ".\"", "KEY", "CHAR", "[CHAR]", "CREATE", "CONSTANT", ":"}
ReadingWord(w, p) ==
    \/ (w = "\\"    /\ Backslash(p))  \/ (w = "("      /\ Paren(p))
    \/ (w = ".\""   /\ DotQuote(p))   \/ (w = "KEY"    /\ Key(p))
    \/ (w = "CHAR"  /\ Char(p))       \/ (w = "[CHAR]" /\ CompChar(p))
    \/ (w = "CREATE"   /\ WithWord(p, LAMBDA n : Create(n) /\ UNCHANGED <<compiling, loops>>))
    \/ (w = "CONSTANT" /\ WithWord(p, LAMBDA n : Constant(n) /\ UNCHANGED <<compiling, loops>>))
    \/ (w = ":"        /\ WithWord(p, DefinesWord))

-----------------------------------------------------------------------------
(* .D shows the code of the words that are not builtins.                   *)

Is(c, w) == NameIs(mem, c, WordName(w))
\* Mutation of HasOperand: a word is missing in the list.
HasOperandButLeave(c) == \E w \in {"LITNUMBER", "BRANCH", "0BRANCH", "_DOQIMPL",
                                    "_LOOPIMPL", "_PLOOPIMPL"} : Is(c, w)
HasOperand(c) == \E w \in {"LITNUMBER", "BRANCH", "0BRANCH", "_DOQIMPL", "_LEAVEIMPL",
                            "_LOOPIMPL", "_PLOOPIMPL"} : Is(c, w)

\* Where debug_dump_dict is: at an entry, or at a cell of the code of the one before.
DumpStates == [phase : {"entry", "code", "done", "undefined"},
               entry : Int, cell : Int, shown : SUBSET Int]
ShowsString(a)  == a \in Address /\ Ends(a) # {}
ShowsText(a, n) == (n >= 0 /\ Holds(a, n)) \/ ShowsString(a)

DumpEntry(s) ==
    LET e == s.entry IN
    CASE e = -1 -> [s EXCEPT !.phase = "done"]
      [] e # -1 /\ ~ (Holds(e, HeaderSize) /\ ShowsString(NameAddr(e))) ->
            [s EXCEPT !.phase = "undefined"]
      [] OTHER -> [s EXCEPT !.entry = CellAt(mem, e), !.cell = CodeAddr(e),
                            !.phase = IF IsBuiltin(e) THEN "entry" ELSE "code"]

\* The word in cell a; behind a text one is skipped.
DumpWord(s, c) ==
    LET a     == s.cell
        Then(n) == [s EXCEPT !.shown = @ \cup {a}, !.cell = a + n]
    IN  CASE Is(c, "LITSTRING") ->
               LET n == CellAt(mem, a + CellSize) IN
               IF Holds(a + CellSize, CellSize) /\ ShowsText(a + 2 * CellSize, n)
               THEN Then(3 * CellSize + n) ELSE [s EXCEPT !.phase = "undefined"]
          [] ~ Is(c, "LITSTRING") /\ HasOperand(c) -> Then(2 * CellSize)
          [] OTHER -> Then(CellSize)
DumpCell(s) ==
    LET c == CellAt(mem, s.cell) IN
    CASE ~ Holds(s.cell, CellSize) -> [s EXCEPT !.phase = "undefined"]
      [] Holds(s.cell, CellSize) /\ c = -1 -> [s EXCEPT !.phase = "entry"]
      [] OTHER -> IF ShowsString(NameAddr(c)) THEN DumpWord(s, c)
                  ELSE [s EXCEPT !.phase = "undefined"]

\* debug_dump_dict: after more steps than there are pairs of an entry and a cell
\* it goes round in circles.
Dumped ==
    LET dump[steps \in Nat] ==
            [s \in DumpStates |->
               CASE s.phase \in {"done", "undefined"} \/ steps = 0 -> s
                 [] steps # 0 /\ s.phase = "entry" -> dump[steps - 1][DumpEntry(s)]
                 [] OTHER -> dump[steps - 1][DumpCell(s)]]
    IN  dump[(MemSize + 1) * (MemSize + 1)]
            [[phase |-> "entry", entry |-> latest, cell |-> 0, shown |-> {}]]

\* debug_dump_mem(s, 0, here): the bytes it shows, which need not be in memory.
DumpedMem == 0 .. here - 1

DotD ==
    \/ Dumped.phase = "done" /\ Holds(0, here) /\ Writes(0, <<"dump", Dumped.shown, DumpedMem>>)
    \/ Dumped.phase = "done" /\ ~ Holds(0, here) /\ Undefined
    \/ Dumped.phase = "undefined" /\ Undefined
    \/ Dumped.phase \in {"entry", "code"} /\ Stops("hangs")

-----------------------------------------------------------------------------
(* interpret and execute_toplevel_word.                                    *)

\* A builtin, which reads the input from p on.
Run(w, p) ==
    \/ w \in DataWords /\ DataWord(w) /\ Moves(0) /\ Reads(p) /\ KeepsCode
    \/ w = ".D" /\ DotD /\ Moves(0) /\ Reads(p) /\ KeepsCode
    \/ w \in ThreadedWords /\ ThreadedWord(w) /\ Reads(p) /\ KeepsCode
    \/ w \in LoopWords /\ LoopWord(w) /\ Moves(0) /\ Reads(p)
    \/ w = "IMMEDIATE" /\ Immediate /\ Moves(0) /\ Reads(p) /\ UNCHANGED <<compiling, loops>>
    \/ w = ";" /\ Semicolon /\ compiling' = FALSE /\ Moves(0) /\ Reads(p) /\ UNCHANGED loops
    \/ w \in ReadingWords /\ ReadingWord(w, p) /\ Moves(0)

Gives(s, p) == Stops(s) /\ Reads(p) /\ KeepsCode /\ UNCHANGED runVars

\* entry_get_builtin_func: the function of a builtin entry, if there is one.
Func(e) == CellAt(mem, CodeAddr(e))
RunEntry(e, p) ==
    LET real == Holds(CodeAddr(e), CellSize) /\ Func(e) \in DOMAIN Builtins
    IN  \/ real /\ Run(Builtins[Func(e)], p)
        \/ ~ real /\ Gives("undefined", p)

\* A word of the program that is executed at top level, or compiled.
Execute(e, p) ==
    \/ IsBuiltin(e) /\ RunEntry(e, p)
    \/ /\ ~ IsBuiltin(e)
       /\ executing' = TRUE /\ pc' = CodeAddr(e)
       /\ Reads(p) /\ KeepsCode /\ UNCHANGED wordVars

Knows(e, p) ==
    \/ compiling /\ ~ IsImmediate(e) /\ Compile(e) /\ Reads(p)
       /\ UNCHANGED <<compiling, loops, runVars>>
    \/ (~ compiling \/ IsImmediate(e)) /\ Execute(e, p)

Number(n, p) ==
    /\ \/ compiling /\ Compiles(PlaceCell(PlaceWord(Dict, "LITNUMBER"), n))
       \/ ~ compiling /\ Push(n) /\ UNCHANGED latest
    /\ Reads(p) /\ UNCHANGED <<compiling, loops, runVars>>

\* register_builtin: the function of a builtin is its number in the list.
Registers ==
    LET flags == IF input[at + 1] \in ImmediateBuiltins THEN F_IMMEDIATE ELSE 0
    IN  /\ status = "running" /\ stream = "builtins" /\ at < Len(input)
        /\ Compiles(Register(Dict, WordName(input[at + 1]), flags, at + 1))
        /\ Reads(at + 1) /\ UNCHANGED <<compiling, loops, runVars>>

\* main: the file of -i, if it is given and can be opened, then stdin.
Reading(s, text) == stream' = s /\ input' = text /\ at' = 0
OpensFile ==
    /\ status = "running" /\ stream = "builtins" /\ at = Len(input)
    /\ \/ Reading("file", Prelude) /\ UNCHANGED wordVars
       \/ (\E text \in Programs : Reading("stdin", text)) /\ UNCHANGED wordVars
       \/ Dies /\ UNCHANGED readVars
    /\ KeepsCode /\ UNCHANGED runVars

EndOfInput ==
    /\ \/ /\ stream = "file" /\ \E text \in Programs : Reading("stdin", text)
          /\ UNCHANGED wordVars
       \/ stream = "stdin" /\ Stops("done") /\ UNCHANGED readVars
    /\ KeepsCode /\ UNCHANGED runVars

IsNumber(word) == Len(word) = 1 /\ word[1] \in DOMAIN Numbers

Interpret ==
    /\ status = "running" /\ stream # "builtins" /\ ~ executing
    /\ \E word \in {GetWord(input, at)}, p \in {AfterWord(input, at)} :
          \/ word = <<>> /\ EndOfInput
          \/ word # <<>> /\ \E e \in {Find(Name(word))} :
                \/ e \in Address /\ Knows(e, p)
                \/ e = NotFound /\ IsNumber(word) /\ Number(Numbers[word[1]], p)
                \/ e = NotFound /\ ~ IsNumber(word) /\ Gives("fatal", p)
                \/ e = Endless /\ Gives("hangs", p)
                \/ e = Outside /\ Gives("undefined", p)

\* The end of a word: the return stack says where to go on, or holds nothing.
Return ==
    \/ retstacktop < 0 /\ executing' = FALSE /\ UNCHANGED <<wordVars, pc>>
    \/ /\ retstacktop >= 0
       /\ pc' = retstack[retstacktop] /\ retstacktop' = retstacktop - 1
       /\ UNCHANGED <<mem, here, stack, retstack, output, status, executing>>

\* Mutation of Call: the address to return to is that of the call.
CallAgain(e) ==
    \/ /\ retstacktop + 1 \in Slot
       /\ retstacktop' = retstacktop + 1
       /\ retstack' = [retstack EXCEPT ![retstacktop + 1] = pc]
       /\ pc' = CodeAddr(e)
       /\ UNCHANGED <<mem, here, stack, output, status, executing>>
    \/ retstacktop + 1 \notin Slot /\ Undefined /\ UNCHANGED runVars
Call(e) ==
    \/ /\ retstacktop + 1 \in Slot
       /\ retstacktop' = retstacktop + 1
       /\ retstack' = [retstack EXCEPT ![retstacktop + 1] = Wrap(pc + CellSize)]
       /\ pc' = CodeAddr(e)
       /\ UNCHANGED <<mem, here, stack, output, status, executing>>
    \/ retstacktop + 1 \notin Slot /\ Undefined /\ UNCHANGED runVars

\* One cell of compiled code.
Cycle ==
    LET c    == CellAt(mem, pc)
        real == Holds(pc, CellSize) /\ (c = -1 \/ Holds(c, HeaderSize))
    IN  /\ status = "running" /\ executing
        /\ \/ ~ real /\ Gives("undefined", at)
           \/ real /\ c = -1 /\ Return /\ KeepsCode /\ Reads(at)
           \/ real /\ c # -1 /\ IsBuiltin(c) /\ RunEntry(c, at)
           \/ real /\ c # -1 /\ ~ IsBuiltin(c) /\ Call(c) /\ KeepsCode /\ Reads(at)

Terminated == status # "running" /\ UNCHANGED vars

Step == Registers \/ OpensFile \/ Interpret \/ Cycle
Next == Step \/ Terminated

\* A BRANCH that leads to itself changes nothing.
Spins == /\ executing /\ Holds(pc, 2 * CellSize)
         /\ Is(CellAt(mem, pc), "BRANCH") /\ Operand = -CellSize

\* ctil goes on as long as it runs.  A step that changes something is possible
\* then, but for Spins, so this is WF_vars(Step) with ENABLED spelt out, which
\* TLC takes very long to evaluate.
Fairness == []<>(status # "running" \/ Spins) \/ []<><<Step>>_vars
Spec == Init /\ [][Next]_vars /\ Fairness

-----------------------------------------------------------------------------
\* Type invariant: the header of the newest entry lies in memory, and so do the
\* operands of open loops, of which loop_compile_stack has room for all.
MachineTypeOK ==
    /\ WordsTypeOK /\ LatestIs(latest)
    /\ compiling \in BOOLEAN /\ executing \in BOOLEAN /\ pc \in Int
    /\ loops \in Seq([start : 0 .. MemSize + CellSize, patches : Seq(0 .. MemSize)])
    /\ Len(loops) <= MaxLoops /\ \A i \in DOMAIN loops : Len(loops[i].patches) <= MaxPatches
    /\ stream \in {"builtins", "file", "stdin"}
    /\ input \in Seq(DOMAIN Code) /\ at \in 0 .. Len(input)
=============================================================================
