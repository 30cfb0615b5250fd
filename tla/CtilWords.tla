----------------------------- MODULE CtilWords -----------------------------
(***************************************************************************)
(* The data words of ctil: the builtins of ctil/builtins.c that work on    *)
(* the stacks and on memory and neither read the input nor move pc.        *)
(*                                                                         *)
(* A failed assert ends the process with status "abort", die with "fatal", *)
(* an arithmetic trap with "crash".  An access outside an array of state_t *)
(* is undefined in C; it ends the behaviour with status "undefined", and   *)
(* nothing is said about what the process does from there on.              *)
(***************************************************************************)
EXTENDS Cells, Sequences

CONSTANTS MemSize,   \* MEM_SIZE
          StackSize  \* STACK_SIZE, of the data stack and the return stack

ASSUME CtilWordsAssumption ==
    /\ MemSize \in Nat
    /\ MemSize >= CellSize /\ MemSize + 3 * CellSize <= MaxInt
    /\ StackSize \in Nat \ {0}

VARIABLES mem, here,
          stack,                  \* stack[0 .. stacktop]
          retstack, retstacktop,  \* the top can be moved below -1
          output, status

wordVars == <<mem, here, stack, retstack, retstacktop, output, status>>

Address == 0 .. MemSize - 1
Slot    == 0 .. StackSize - 1  \* the indices of a stack

Items == ({"num", "char"} \X Cell) \cup ({"text"} \X Seq(Byte))
           \cup ({"stack"} \X Seq(Cell)) \cup ({"dump"} \X (SUBSET Int) \X (SUBSET Int))

\* create_state
WordsInit ==
    /\ mem = [a \in Address |-> 0] /\ here = 0
    /\ stack = <<>>
    /\ retstack = [i \in Slot |-> 0] /\ retstacktop = -1
    /\ output = <<>> /\ status = "running"

-----------------------------------------------------------------------------
(* Bytes and cells of memory.                                              *)

\* Whether n bytes from a on lie in memory.
Holds(a, n) == a >= 0 /\ a + n <= MemSize

CellAt(m, a)     == FromBytes(m[a], m[a + 1])
PutCell(m, a, v) == [m EXCEPT ![a] = ByteOf(v, 0), ![a + 1] = ByteOf(v, 1)]

\* A char is signed.
SignedByte(b) == IF b >= ByteBase \div 2 THEN b - ByteBase ELSE b

-----------------------------------------------------------------------------
(* The ways a word can end.                                                *)

Stops(s) ==
    /\ status' = s
    /\ UNCHANGED <<mem, here, stack, retstack, retstacktop, output>>
Aborts    == Stops("abort")
Dies      == Stops("fatal")
Undefined == Stops("undefined")

Depth   == Len(stack)
Top     == stack[Depth]
Second  == stack[Depth - 1]
Rest(n) == SubSeq(stack, 1, Depth - n)

\* A word that pops n values, or asserts that they are there.
Needs(n, Act) == \/ Depth >= n /\ Act
                 \/ Depth < n /\ Aborts

\* n values are replaced by vals; push_data_stack asserts that there is room.
Replace(n, vals) ==
    Needs(n, \/ /\ Depth - n + Len(vals) <= StackSize
                /\ stack' = Rest(n) \o vals
                /\ UNCHANGED <<mem, here, retstack, retstacktop, output, status>>
             \/ Depth - n + Len(vals) > StackSize /\ Aborts)
Push(v) == Replace(0, <<v>>)

Writes(n, item) ==
    Needs(n, /\ stack' = Rest(n)
             /\ output' = Append(output, item)
             /\ UNCHANGED <<mem, here, retstack, retstacktop, status>>)

-----------------------------------------------------------------------------
(* Stack and arithmetic words.                                             *)

Clearstack == Replace(Depth, <<>>)
Drop == Replace(1, <<>>)
Swap == Replace(2, <<Top, Second>>)

\* DUP and OVER move stacktop themselves, without the assert of a push.
Copies(n, v) ==
    Needs(n, \/ Depth < StackSize /\ Push(v)
             \/ Depth = StackSize /\ Undefined)
Dup  == Copies(1, Top)
Over == Copies(2, Second)

BinopWords == {"+", "-", "*", "AND", "OR", "=", "<>", "<", ">"}

\* The one cell that results from b and a, as a set.
BinopResults(op, b, a) ==
    CASE op = "+"   -> {Wrap(b + a)}
      [] op = "-"   -> {Wrap(b - a)}
      [] op = "*"   -> {Wrap(b * a)}
      [] op = "AND" -> Ands(b, a)
      [] op = "OR"  -> Ors(b, a)
      [] op = "="   -> {Flag(b = a)}
      [] op = "<>"  -> {Flag(b # a)}
      [] op = "<"   -> {Flag(b < a)}
      [] op = ">"   -> {Flag(b > a)}
\* Mutation of Binop: the operands are taken in the order they are popped.
BinopSwapped(op) ==
    Needs(2, \E r \in BinopResults(op, Top, Second) : Replace(2, <<r>>))
Binop(op) == Needs(2, \E r \in BinopResults(op, Second, Top) : Replace(2, <<r>>))
Invert    == Replace(1, <<-Top - 1>>)

\* The quotient of the least number and -1 traps.
Divmod ==
    Needs(2, \/ Top = 0 /\ Aborts
             \/ Top = -1 /\ Second = MinInt /\ Stops("crash")
             \/ /\ Top # 0 /\ ~ (Top = -1 /\ Second = MinInt)
                /\ Replace(2, <<Remainder(Second, Top), Quotient(Second, Top)>>))

-----------------------------------------------------------------------------
(* The return stack, on which loops keep their index above their limit.    *)

ToR ==
    Needs(1, \/ /\ retstacktop + 1 \in Slot
                /\ retstacktop' = retstacktop + 1
                /\ retstack' = [retstack EXCEPT ![retstacktop + 1] = Top]
                /\ stack' = Rest(1)
                /\ UNCHANGED <<mem, here, output, status>>
             \/ retstacktop + 1 \notin Slot /\ Undefined)
\* Mutation of FromR: the return stack is not asserted to hold a value.
FromRUnasserted ==
    \/ /\ retstacktop >= 0 /\ Depth < StackSize
       /\ stack' = Append(stack, retstack[retstacktop])
       /\ retstacktop' = retstacktop - 1
       /\ UNCHANGED <<mem, here, retstack, output, status>>
    \/ retstacktop < 0 /\ Undefined
FromR ==
    \/ /\ retstacktop >= 0 /\ Depth < StackSize
       /\ stack' = Append(stack, retstack[retstacktop])
       /\ retstacktop' = retstacktop - 1
       /\ UNCHANGED <<mem, here, retstack, output, status>>
    \/ (retstacktop < 0 \/ Depth = StackSize) /\ Aborts
DropR ==
    \/ /\ retstacktop >= 0
       /\ retstacktop' = retstacktop - 1
       /\ UNCHANGED <<mem, here, stack, retstack, output, status>>
    \/ retstacktop < 0 /\ Aborts

\* R@, I, J and K copy the value d below the top; at least least values are
\* asserted to be there.
Peek(d, least) ==
    \/ retstacktop >= least - 1 /\ Push(retstack[retstacktop - d])
    \/ retstacktop < least - 1 /\ Aborts

-----------------------------------------------------------------------------
(* Memory words.  addr >= sizeof(s->mem) - sizeof(int64_t) is refused, the *)
(* last cell of memory with it.                                            *)

CellInBounds(a) == a \in 0 .. MemSize - CellSize - 1

\* n values are popped, the address first.
Access(n, inBounds, Act) ==
    Needs(n, \/ inBounds /\ Act
             \/ ~ inBounds /\ Dies)

At       == Access(1, CellInBounds(Top), Replace(1, <<CellAt(mem, Top)>>))
Question == Access(1, CellInBounds(Top), Writes(1, <<"num", CellAt(mem, Top)>>))
CAt      == Access(1, Top \in Address, Replace(1, <<SignedByte(mem[Top])>>))

Stores(m) ==
    /\ mem' = m /\ stack' = Rest(2)
    /\ UNCHANGED <<here, retstack, retstacktop, output, status>>
Exclamation  == Access(2, CellInBounds(Top), Stores(PutCell(mem, Top, Second)))
\* Mutation of CExclamation: the value is not cut down to a byte.
CExclamationWhole ==
    Access(2, Top \in Address, Stores([mem EXCEPT ![Top] = Second]))
CExclamation ==
    Access(2, Top \in Address, Stores([mem EXCEPT ![Top] = Second % ByteBase]))

Here == Push(here)

\* , writes at here, wherever that is.
Comma ==
    Needs(1, \/ /\ Holds(here, CellSize)
                /\ mem' = PutCell(mem, here, Top) /\ here' = here + CellSize
                /\ stack' = Rest(1)
                /\ UNCHANGED <<retstack, retstacktop, output, status>>
             \/ ~ Holds(here, CellSize) /\ Undefined)

\* The sum wraps around and is compared as an unsigned number, which refuses
\* a negative one; a negative size moves here back.
Allot ==
    Needs(1, \/ /\ Wrap(here + Top) \in 0 .. MemSize
                /\ here' = Wrap(here + Top) /\ stack' = Rest(1)
                /\ UNCHANGED <<mem, retstack, retstacktop, output, status>>
             \/ Wrap(here + Top) \notin 0 .. MemSize /\ Dies)

-----------------------------------------------------------------------------
(* Output.                                                                 *)

Dot  == Writes(1, <<"num", Top>>)
DotS == Writes(0, <<"stack", stack>>)
Emit == Writes(1, <<"char", Top % ByteBase>>)

\* The bytes from a on, up to the first zero: what %s prints.
Ends(a) == {b \in Address : b >= a /\ mem[b] = 0}
TextAt(a) == LET end == CHOOSE e \in Ends(a) : \A b \in Ends(a) : e <= b
             IN  [i \in 1 .. end - a |-> mem[a + i - 1]]
Type ==
    Needs(2, LET found == Second \in Address /\ Ends(Second) # {}
             IN  \/ found /\ Writes(2, <<"text", TextAt(Second)>>)
                 \/ ~ found /\ Undefined)
Bye == Stops("exited")

-----------------------------------------------------------------------------
PlainWords ==
    {".", ".S", "CLEARSTACK", "EMIT", "TYPE", "DROP", "SWAP", "DUP", "OVER",
     "R>", ">R", "R@", "RDROP", "INVERT", "/MOD", ",", "HERE", "I", "J", "K",
     "@", "!", "C@", "C!", "?", "ALLOT", "BYE"}
DataWords == PlainWords \cup BinopWords

DataWord(w) ==
    \/ w \in BinopWords /\ Binop(w)
    \/ (w = "."    /\ Dot)      \/ (w = ".S"   /\ DotS)
    \/ (w = "EMIT" /\ Emit)     \/ (w = "TYPE" /\ Type)
    \/ (w = "DROP" /\ Drop)     \/ (w = "CLEARSTACK" /\ Clearstack)
    \/ (w = "SWAP" /\ Swap)     \/ (w = "DUP"  /\ Dup)
    \/ (w = "OVER" /\ Over)     \/ (w = "INVERT" /\ Invert)
    \/ (w = "/MOD" /\ Divmod)   \/ (w = ">R"   /\ ToR)
    \/ (w = "R>"   /\ FromR)    \/ (w = "RDROP" /\ DropR)
    \/ (w = "R@"   /\ Peek(0, 1)) \/ (w = "I"  /\ Peek(0, 2))
    \/ (w = "J"    /\ Peek(2, 4)) \/ (w = "K"  /\ Peek(4, 6))
    \/ (w = "@"    /\ At)       \/ (w = "!"    /\ Exclamation)
    \/ (w = "C@"   /\ CAt)      \/ (w = "C!"   /\ CExclamation)
    \/ (w = "?"    /\ Question) \/ (w = ","    /\ Comma)
    \/ (w = "HERE" /\ Here)     \/ (w = "ALLOT" /\ Allot)
    \/ (w = "BYE"  /\ Bye)

-----------------------------------------------------------------------------
Statuses == {"running", "done", "exited", "fatal", "abort", "crash", "hangs", "undefined"}

\* Type invariant: here is at most a cell beyond memory, stacks hold
\* int64 values and memory bytes.
WordsTypeOK ==
    /\ mem \in [Address -> Byte] /\ here \in 0 .. MemSize + CellSize
    /\ stack \in Seq(Cell) /\ Depth <= StackSize
    /\ retstack \in [Slot -> Cell]
    /\ retstacktop \in Int /\ retstacktop < StackSize
    /\ output \in Seq(Items)
    /\ status \in Statuses
=============================================================================
