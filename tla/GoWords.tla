------------------------------ MODULE GoWords ------------------------------
(***************************************************************************)
(* The data words of goforth: the part of the Interpreter that computes,   *)
(* apart from the control words that move the input pointer (see GoForth). *)
(* Each action is one builtin of builtins.go, or a parsing word given the  *)
(* name that follows it in the input.                                      *)
(*                                                                         *)
(* A word that calls fatalErrorf panics: the process ends with status      *)
(* "fatal" and nothing it did before the panic is visible any more.  Where *)
(* the Go runtime itself panics (a slice or an index out of range) the     *)
(* status is "crash".                                                      *)
(***************************************************************************)
EXTENDS Cells, Sequences

CONSTANTS MemSize,   \* bytes of memory: 64 * 1024 in the code
          FirstByte  \* the first character of a token, for CHAR

ASSUME GoWordsAssumption ==
    /\ MemSize \in Nat
    /\ MemSize >= CellSize
    /\ MemSize + CellSize <= MaxInt

VARIABLES dataStack, returnStack,
          memory, memptr,
          dict,    \* the entries a program has added or replaced
          stdout,  \* what has been written, one item per write
          status

wordVars == <<dataStack, returnStack, memory, memptr, dict, stdout, status>>

Address == 0 .. MemSize - 1

\* dictentry.go: a name is bound to a position in the input or to a value.
UserFunc(p) == [kind |-> "user", ptr |-> p]
Value(v)    == [kind |-> "value", val |-> v]
Entry       == [kind : {"user"}, ptr : Nat] \cup [kind : {"value"}, val : Cell]

Output == ({"num", "char"} \X Cell) \cup ({"text"} \X Seq(STRING))
            \cup ({"stack"} \X Seq(Cell))

WordsInit ==
    /\ dataStack = <<>> /\ returnStack = <<>>
    /\ memory = [a \in Address |-> 0] /\ memptr = 0
    /\ dict = [w \in {} |-> 0]
    /\ stdout = <<>>
    /\ status = "running"

-----------------------------------------------------------------------------
(* The ways a word can end.                                                *)

\* fatalErrorf, and a panic of the Go runtime
Stops(s) ==
    /\ status' = s
    /\ UNCHANGED <<dataStack, returnStack, memory, memptr, dict, stdout>>
Fail  == Stops("fatal")
Crash == Stops("crash")

Depth   == Len(dataStack)
Top     == dataStack[Depth]
Second  == dataStack[Depth - 1]
Rest(n) == SubSeq(dataStack, 1, Depth - n)

\* A word that pops n values first, as popDataStack does.
Needs(n, Act) == \/ Depth >= n /\ Act
                 \/ Depth < n /\ Fail

\* Pops n values and pushes the values of vals.
Replace(n, vals) ==
    Needs(n, /\ dataStack' = Rest(n) \o vals
             /\ UNCHANGED <<returnStack, memory, memptr, dict, stdout, status>>)
Push(v) == Replace(0, <<v>>)

\* Pops n values and writes an item to stdout.
Write(n, item) ==
    /\ dataStack' = Rest(n)
    /\ stdout' = Append(stdout, item)
    /\ UNCHANGED <<returnStack, memory, memptr, dict, status>>

-----------------------------------------------------------------------------
(* Stack words.                                                            *)

Drop  == Replace(1, <<>>)
Drop2 == Replace(2, <<>>)
Dup   == Replace(1, <<Top, Top>>)
Dup2  == Replace(2, <<Second, Top, Second, Top>>)
Swap  == Replace(2, <<Top, Second>>)
Over  == Replace(2, <<Second, Top, Second>>)
Clearstack == Replace(Depth, <<>>)

ToR == Needs(1, /\ dataStack' = Rest(1)
                /\ returnStack' = Append(returnStack, Top)
                /\ UNCHANGED <<memory, memptr, dict, stdout, status>>)

RTop  == returnStack[Len(returnStack)]
RRest == SubSeq(returnStack, 1, Len(returnStack) - 1)

FromR ==
    \/ /\ returnStack # <<>>
       /\ returnStack' = RRest
       /\ dataStack' = Append(dataStack, RTop)
       /\ UNCHANGED <<memory, memptr, dict, stdout, status>>
    \/ returnStack = <<>> /\ Fail
CopyFromR ==
    \/ returnStack # <<>> /\ Push(RTop)
    \/ returnStack = <<>> /\ Fail
DropR ==
    \/ /\ returnStack # <<>>
       /\ returnStack' = RRest
       /\ UNCHANGED <<dataStack, memory, memptr, dict, stdout, status>>
    \/ returnStack = <<>> /\ Fail

-----------------------------------------------------------------------------
(* Arithmetic.                                                             *)

UnopWords  == {"1+", "1-", "INVERT", "0="}
BinopWords == {"+", "-", "*", "MOD", "/", "=", "<>", "<", ">", "OR", "AND"}

UnopResult(op, v) ==
    CASE op = "1+"     -> Wrap(v + 1)
      [] op = "1-"     -> Wrap(v - 1)
      [] op = "INVERT" -> -v - 1
      [] op = "0="     -> Flag(v = 0)
Unop(op) == Replace(1, <<UnopResult(op, Top)>>)

\* The one cell that results, as a set.
BinopResults(op, v1, v2) ==
    CASE op = "+"   -> {Wrap(v1 + v2)}
      [] op = "-"   -> {Wrap(v1 - v2)}
      [] op = "*"   -> {Wrap(v1 * v2)}
      [] op = "MOD" -> {Wrap(Remainder(v1, v2))}
      [] op = "/"   -> {Wrap(Quotient(v1, v2))}
      [] op = "="   -> {Flag(v1 = v2)}
      [] op = "<>"  -> {Flag(v1 # v2)}
      [] op = "<"   -> {Flag(v1 < v2)}
      [] op = ">"   -> {Flag(v1 > v2)}
      [] op = "OR"  -> Ors(v1, v2)
      [] op = "AND" -> Ands(v1, v2)
Binop(op) ==
    Needs(2, \/ op \in {"MOD", "/"} /\ Top = 0 /\ Fail
             \/ /\ ~ (op \in {"MOD", "/"} /\ Top = 0)
                /\ \E r \in BinopResults(op, Second, Top) : Replace(2, <<r>>))

CellWord  == Push(CellSize)
CellPlus  == Replace(1, <<Wrap(Top + CellSize)>>)
CellsWord == Replace(1, <<Wrap(Top * CellSize)>>)
CharPlus  == Replace(1, <<Wrap(Top + 1)>>)
Chars     == Replace(1, <<Top>>)

-----------------------------------------------------------------------------
(* Memory.  An address is accepted when it is below memptr; how many bytes *)
(* the access then covers is not looked at, except by the Go runtime.      *)

CellAt(a) == FromBytes(memory[a], memory[a + 1])
PutCell(a, v) ==
    memory' = [b \in Address |-> IF b \in a .. a + CellSize - 1
                                 THEN ByteOf(v, b - a) ELSE memory[b]]

\* Mutation of Access: the address is not compared with memptr.
AccessUnchecked(n, size, Act) ==
    Needs(n, \/ Top < 0 /\ Fail
             \/ Top >= 0 /\ Top + size > MemSize /\ Crash
             \/ Top >= 0 /\ Top + size <= MemSize /\ Act)

\* n values are popped, the address first; size bytes are accessed by Act.
Access(n, size, Act) ==
    Needs(n, \/ Top \notin 0 .. memptr - 1 /\ Fail
             \/ Top \in 0 .. memptr - 1 /\ Top + size > MemSize /\ Crash
             \/ Top \in 0 .. memptr - 1 /\ Top + size <= MemSize /\ Act)

Stores(a, v) ==
    /\ PutCell(a, v)
    /\ dataStack' = Rest(2)
    /\ UNCHANGED <<returnStack, memptr, dict, stdout, status>>

Exclamation     == Access(2, CellSize, Stores(Top, Second))
PlusExclamation == Access(2, CellSize, Stores(Top, Wrap(CellAt(Top) + Second)))
At       == Access(1, CellSize, Replace(1, <<CellAt(Top)>>))
Question == Access(1, CellSize, Write(1, <<"num", CellAt(Top)>>))
CAt      == Access(1, 1, Replace(1, <<memory[Top]>>))
\* Mutation of CExclamation: the value is not cut down to a byte.
CExclamationWhole ==
    Access(2, 1, /\ memory' = [memory EXCEPT ![Top] = Second]
                 /\ dataStack' = Rest(2)
                 /\ UNCHANGED <<returnStack, memptr, dict, stdout, status>>)

CExclamation ==
    Access(2, 1, /\ memory' = [memory EXCEPT ![Top] = Second % ByteBase]
                 /\ dataStack' = Rest(2)
                 /\ UNCHANGED <<returnStack, memptr, dict, stdout, status>>)

Here == Push(memptr)

\* Mutation of Allot: a negative count is not rejected.
AllotSigned ==
    Needs(1, \/ Wrap(memptr + Top) > MemSize /\ Fail
             \/ /\ Wrap(memptr + Top) <= MemSize
                /\ memptr' = Wrap(memptr + Top)
                /\ dataStack' = Rest(1)
                /\ UNCHANGED <<returnStack, memory, dict, stdout, status>>)

\* The sum is an int and wraps around before it is compared.
Allot ==
    Needs(1, \/ (Top < 0 \/ Wrap(memptr + Top) > MemSize) /\ Fail
             \/ /\ Top >= 0 /\ Wrap(memptr + Top) <= MemSize
                /\ memptr' = Wrap(memptr + Top)
                /\ dataStack' = Rest(1)
                /\ UNCHANGED <<returnStack, memory, dict, stdout, status>>)

\* Mutation of Comma: memptr is not moved on.
CommaInPlace ==
    Needs(1, \/ Wrap(memptr + CellSize) > MemSize /\ Fail
             \/ Wrap(memptr + CellSize) <= MemSize /\ memptr \notin Address /\ Crash
             \/ /\ Wrap(memptr + CellSize) <= MemSize /\ memptr \in Address
                /\ PutCell(memptr, Top)
                /\ dataStack' = Rest(1)
                /\ UNCHANGED <<returnStack, memptr, dict, stdout, status>>)

Comma ==
    Needs(1, \/ Wrap(memptr + CellSize) > MemSize /\ Fail
             \/ Wrap(memptr + CellSize) <= MemSize /\ memptr \notin Address /\ Crash
             \/ /\ Wrap(memptr + CellSize) <= MemSize /\ memptr \in Address
                /\ PutCell(memptr, Top)
                /\ memptr' = Wrap(memptr + CellSize)
                /\ dataStack' = Rest(1)
                /\ UNCHANGED <<returnStack, dict, stdout, status>>)

-----------------------------------------------------------------------------
(* Defining words, given the name read from the input, and output.         *)

Define(name, entry) ==
    dict' = [w \in DOMAIN dict \cup {name} |-> IF w = name THEN entry ELSE dict[w]]

Constant(name) ==
    Needs(1, /\ Define(name, Value(Top))
             /\ dataStack' = Rest(1)
             /\ UNCHANGED <<returnStack, memory, memptr, stdout, status>>)
Create(name) ==
    /\ Define(name, Value(memptr))
    /\ UNCHANGED <<dataStack, returnStack, memory, memptr, stdout, status>>
Variable(name) ==
    /\ Define(name, Value(memptr))
    /\ memptr' = Wrap(memptr + CellSize)
    /\ UNCHANGED <<dataStack, returnStack, memory, stdout, status>>
Char(token) == Push(FirstByte[token])

Dot  == Needs(1, Write(1, <<"num", Top>>))
DotS == Write(0, <<"stack", dataStack>>)
Emit == Needs(1, \/ Top \notin Byte /\ Fail
                 \/ Top \in Byte /\ Write(1, <<"char", Top>>))
Bye  == Stops("exited")

-----------------------------------------------------------------------------
PlainWords ==
    {".", ".S", "ALLOT", ",", "!", "+!", "?", "@", "C!", "C@", "CELL", "CELL+",
     "CELLS", "CHAR+", "CHARS", "CLEARSTACK", "DROP", "2DROP", "DUP", "2DUP",
     "EMIT", "HERE", "OVER", "SWAP", "R>", ">R", "R@", "RDROP", "BYE"}
NamingWords == {"CONSTANT", "CREATE", "VARIABLE", "CHAR", "[CHAR]"}

\* The builtins of setupBuiltins that take nothing from the input.
PlainWord(w) ==
    \/ (w = "."         /\ Dot)             \/ (w = ".S"        /\ DotS)
    \/ (w = "EMIT"      /\ Emit)            \/ (w = "DROP"      /\ Drop)
    \/ (w = "2DROP"     /\ Drop2)           \/ (w = "DUP"       /\ Dup)
    \/ (w = "2DUP"      /\ Dup2)            \/ (w = "OVER"      /\ Over)
    \/ (w = "SWAP"      /\ Swap)            \/ (w = "CLEARSTACK" /\ Clearstack)
    \/ (w = "R>"        /\ FromR)           \/ (w = ">R"        /\ ToR)
    \/ (w = "R@"        /\ CopyFromR)       \/ (w = "RDROP"     /\ DropR)
    \/ (w = "CELL"      /\ CellWord)        \/ (w = "CELL+"     /\ CellPlus)
    \/ (w = "CELLS"     /\ CellsWord)       \/ (w = "CHAR+"     /\ CharPlus)
    \/ (w = "CHARS"     /\ Chars)           \/ (w = "HERE"      /\ Here)
    \/ (w = "!"         /\ Exclamation)     \/ (w = "+!"        /\ PlusExclamation)
    \/ (w = "@"         /\ At)              \/ (w = "?"         /\ Question)
    \/ (w = "C!"        /\ CExclamation)    \/ (w = "C@"        /\ CAt)
    \/ (w = "ALLOT"     /\ Allot)           \/ (w = ","         /\ Comma)
    \/ (w = "BYE"       /\ Bye)

DataWord(w) == \/ PlainWord(w)
               \/ w \in UnopWords /\ Unop(w)
               \/ w \in BinopWords /\ Binop(w)
DataWords == PlainWords \cup UnopWords \cup BinopWords

NamingWord(w, name) ==
    \/ w = "CONSTANT" /\ Constant(name)
    \/ w = "CREATE"   /\ Create(name)
    \/ w = "VARIABLE" /\ Variable(name)
    \/ w \in {"CHAR", "[CHAR]"} /\ Char(name)

-----------------------------------------------------------------------------
(* Any sequence of numbers and data words, until one of them ends it.      *)

CONSTANTS Literals, Names

ASSUME LiteralsAssumption ==
    /\ Literals \subseteq Cell
    /\ Names \subseteq DOMAIN FirstByte
    /\ \A t \in DOMAIN FirstByte : t \in STRING /\ FirstByte[t] \in Byte

WordsNext ==
    /\ status = "running"
    /\ \/ \E v \in Literals : Push(v)
       \/ \E w \in DataWords : DataWord(w)
       \/ \E w \in NamingWords, name \in Names : NamingWord(w, name)
       \/ \E name \in DOMAIN dict :
             dict[name].kind = "value" /\ Push(dict[name].val)

WordsSpec == WordsInit /\ [][WordsNext]_wordVars

-----------------------------------------------------------------------------
Statuses == {"running", "done", "fatal", "crash", "exited"}

\* Type invariant: every value on a stack or in a dictionary entry is an
\* int64, memory holds bytes, memptr is an int (not necessarily an address).
WordsTypeOK ==
    /\ dataStack \in Seq(Cell) /\ returnStack \in Seq(Cell)
    /\ memory \in [Address -> Byte] /\ memptr \in Cell
    /\ DOMAIN dict \subseteq STRING
    /\ dict = [w \in DOMAIN dict |-> dict[w]]
    /\ \A w \in DOMAIN dict : dict[w] \in Entry
    /\ stdout \in Seq(Output)
    /\ status \in Statuses

\* The bounds checks of the memory words look at the first byte of an access
\* only (builtins.go:394), and cells are not aligned: a store may spill past
\* the bytes a program has allotted, but never by a whole cell.
SpillBounded ==
    [][\A a \in Address : memory'[a] # memory[a] => a < memptr' + CellSize - 1]_wordVars

\* The Go runtime panics in a memory word only when less than a cell of
\* memory is left above memptr, or once memptr has wrapped around: in every
\* other state the word's own check reports the bad address first.
CrashOnlyAtTheEdge ==
    status = "crash" => memptr \notin 0 .. MemSize - CellSize + 1

\* ALLOT rejects a negative count (builtins.go:289), so allotted bytes are
\* given back only if the addition in ALLOT or VARIABLE wraps around, and
\* then HERE is negative.
AllottedBytesAreKept == [][memptr' < memptr => memptr' < 0]_wordVars

=============================================================================
