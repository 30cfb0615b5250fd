----------------------------- MODULE CtilTyped -----------------------------
(***************************************************************************)
(* Every data word of ctil keeps the types of the state, whatever runs it, *)
(* and what extending the dictionary does to the memory it lives in,       *)
(* whoever extends it.                                                     *)
(***************************************************************************)
EXTENDS CtilDictionary, CellsProofs, SequenceTheorems

-----------------------------------------------------------------------------
(* Numbers.                                                                *)

LEMMA SmallCells ==
    /\ CellSize \in Cell /\ 0 \in Cell /\ -1 \in Cell
    /\ Byte \subseteq Cell /\ CellSize = 2
    /\ MaxInt \in Nat /\ MinInt \in Int /\ MinInt = -MaxInt - 1
    /\ ByteBase \in Nat /\ ByteBase > 0 /\ 0 \in Byte
    /\ MemSize \in Nat /\ MemSize >= 2 /\ MemSize + 6 <= MaxInt
    /\ StackSize \in Nat /\ StackSize > 0
  <1>1. PICK h \in Nat : /\ CellBase = 2 * h /\ MinInt = -h /\ MaxInt = h - 1
                         /\ h >= ByteBase /\ ByteBase >= 2
    BY CellRange
  <1>2. /\ ByteBase \in Nat /\ MemSize \in Nat /\ MemSize >= 2
        /\ MemSize + 6 <= MaxInt /\ StackSize \in Nat /\ StackSize > 0
    BY CellsAssumption, CtilWordsAssumption DEF CellSize
  <1> QED BY <1>1, <1>2 DEF Cell, Byte, CellSize

LEMMA Division ==
    ASSUME NEW m \in Nat, NEW n \in Nat, n > 0
    PROVE  m \div n \in Nat /\ n * (m \div n) <= m
  <1>1. n * (m \div n) <= m
    OBVIOUS
  <1>2. m < n * (m \div n) + n
    OBVIOUS
  <1> DEFINE q == m \div n
  <1>3. q \in Int
    OBVIOUS
  <1> HIDE DEF q
  <1>4. ASSUME q < 0 PROVE FALSE
    <2>1. n * (q + 1) <= 0
      BY <1>3, <1>4
    <2>2. n * (q + 1) = n * q + n
      BY <1>3
    <2> QED BY <1>2, <1>3, <2>1, <2>2 DEF q
  <1> QED BY <1>1, <1>3, <1>4 DEF q

\* The result of a division, truncated toward zero, is no larger than what
\* is divided; the least number divided by -1 is the one that does not fit.
LEMMA DivmodIsCell ==
    ASSUME NEW x \in Cell, NEW y \in Cell, y # 0, ~ (y = -1 /\ x = MinInt)
    PROVE  Remainder(x, y) \in Cell /\ Quotient(x, y) \in Cell
  <1>1. /\ x \in Int /\ y \in Int /\ x >= MinInt /\ x <= MaxInt
        /\ MinInt = -MaxInt - 1 /\ MaxInt \in Nat
    BY SmallCells DEF Cell
  <1> DEFINE a == Magnitude(x)
             b == Magnitude(y)
             q == a \div b
  <1>2. /\ a \in Nat /\ b \in Nat /\ b > 0 /\ a <= MaxInt + 1
        /\ x < 0 => x = -a
        /\ x >= 0 => x = a /\ a <= MaxInt
        /\ y < 0 => y = -b
        /\ y >= 0 => y = b
    BY <1>1 DEF Magnitude
  <1>3. q \in Nat /\ b * q <= a /\ b * q >= 0
    <2> HIDE DEF a, b
    <2>1. a \div b \in Nat /\ b * (a \div b) <= a
      BY <1>2, Division
    <2>2. b * (a \div b) \in Nat
      BY <1>2, <2>1
    <2> QED BY <2>1, <2>2
  <1>4. q <= a /\ (b > 1 => 2 * q <= a)
    <2> HIDE DEF a, b, q
    <2>1. b > 1 => b * q >= 2 * q
      BY <1>2, <1>3
    <2>2. b = 1 => b * q = q
      BY <1>3
    <2> QED BY <1>2, <1>3, <2>1, <2>2
  <1>5. Quotient(x, y) = IF (x < 0) = (y < 0) THEN q ELSE -q
    BY DEF Quotient
  <1>6. /\ (x < 0) = (y < 0) <=> (x < 0 <=> y < 0)
        /\ y * q = IF y < 0 THEN -(b * q) ELSE b * q
        /\ y * (-q) = IF y < 0 THEN b * q ELSE -(b * q)
    <2> HIDE DEF a, b, q
    <2> QED BY <1>1, <1>2, <1>3
  <1>7. y * Quotient(x, y) = IF x < 0 THEN -(b * q) ELSE b * q
    <2> HIDE DEF a, b, q
    <2> QED BY <1>1, <1>5, <1>6
  <1>8. Remainder(x, y) \in Cell
    <2> DEFINE p == b * q
    <2>1. Remainder(x, y) = IF x < 0 THEN -a + p ELSE a - p
      <3>1. p \in Int
        BY <1>2, <1>3
      <3> HIDE DEF a, b, q
      <3> QED BY <1>1, <1>2, <1>7, <3>1 DEF Remainder
    <2>2. p \in Int /\ p <= a /\ p >= 0
      BY <1>2, <1>3
    <2> HIDE DEF a, b, q, p
    <2> QED BY <1>1, <1>2, <2>1, <2>2 DEF Cell
  <1>9. Quotient(x, y) \in Cell
    <2>1. q <= MaxInt \/ q = MaxInt + 1
      BY <1>1, <1>2, <1>3, <1>4
    <2>2. q = MaxInt + 1 => x = MinInt /\ y = 1
      <3> HIDE DEF a, b, q
      <3> QED BY <1>1, <1>2, <1>3, <1>4
    <2> HIDE DEF a, b, q
    <2> QED BY <1>1, <1>3, <1>5, <1>6, <2>1, <2>2 DEF Cell
  <1> QED BY <1>8, <1>9

LEMMA SignedByteIsCell == ASSUME NEW b \in Byte PROVE SignedByte(b) \in Cell
  <1>1. PICK h \in Nat : /\ CellBase = 2 * h /\ MinInt = -h /\ MaxInt = h - 1
                         /\ h >= ByteBase /\ ByteBase >= 2
    BY CellRange
  <1> QED BY <1>1, CellsAssumption DEF SignedByte, Byte, Cell

LEMMA BinopResultsAreCells ==
    ASSUME NEW op \in BinopWords, NEW b \in Cell, NEW a \in Cell
    PROVE  BinopResults(op, b, a) \subseteq Cell
  <1>1. b \in Int /\ a \in Int
    BY SmallCells DEF Cell
  <1>2. b + a \in Int /\ b - a \in Int /\ b * a \in Int
    BY <1>1
  <1>3. Wrap(b + a) \in Cell /\ Wrap(b - a) \in Cell /\ Wrap(b * a) \in Cell
    BY <1>2, WrapIsCell
  <1>4. Ands(b, a) \subseteq Cell /\ Ors(b, a) \subseteq Cell
    BY FromBytesIsCell DEF Ands, Ors, AndBytes, OrBytes
  <1>5. /\ Flag(b = a) \in Cell /\ Flag(b # a) \in Cell
        /\ Flag(b < a) \in Cell /\ Flag(b > a) \in Cell
    BY SmallCells DEF Flag
  <1> QED BY <1>3, <1>4, <1>5 DEF BinopResults, BinopWords

-----------------------------------------------------------------------------
(* The stacks.                                                             *)

LEMMA ConcatIsSeq ==
    ASSUME NEW S, NEW s \in Seq(S), NEW t \in Seq(S)
    PROVE  s \o t \in Seq(S) /\ Len(s \o t) = Len(s) + Len(t)
  OBVIOUS

\* The top values of the stack are cells, and so is what is left of it.
LEMMA TopsAreCells ==
    ASSUME WordsTypeOK
    PROVE  /\ Depth \in Nat /\ Depth <= StackSize
           /\ Depth >= 1 => Top \in Cell /\ Top \in Int
           /\ Depth >= 2 => Second \in Cell /\ Second \in Int
           /\ \A n \in Nat : n <= Depth => /\ Rest(n) \in Seq(Cell)
                                           /\ Len(Rest(n)) = Depth - n
  <1>1. stack \in Seq(Cell) /\ Depth <= StackSize /\ Cell \subseteq Int
    BY SmallCells DEF WordsTypeOK, Cell
  <1>2. ASSUME NEW n \in Nat, n <= Depth
        PROVE  Rest(n) \in Seq(Cell) /\ Len(Rest(n)) = Depth - n
    BY <1>1, <1>2 DEF Depth, Rest
  <1>3. Depth \in Nat /\ Depth <= StackSize
    BY <1>1 DEF Depth
  <1>4. /\ Depth >= 1 => Top \in Cell
        /\ Depth >= 2 => Second \in Cell
    BY <1>1 DEF Depth, Top, Second
  <1> QED BY <1>1, <1>2, <1>3, <1>4

LEMMA PopTyped ==
    ASSUME WordsTypeOK, NEW n \in Nat, Depth >= n
    PROVE  Rest(n) \in Seq(Cell) /\ Len(Rest(n)) <= StackSize
  <1>1. /\ Rest(n) \in Seq(Cell) /\ Len(Rest(n)) = Depth - n
        /\ Depth \in Nat /\ Depth <= StackSize /\ StackSize \in Nat
    BY TopsAreCells, SmallCells DEF WordsTypeOK
  <1> QED BY <1>1

LEMMA StopsTyped ==
    ASSUME WordsTypeOK, NEW s \in Statuses, Stops(s)
    PROVE  WordsTypeOK'
  BY DEF Stops, WordsTypeOK, Depth

LEMMA FailuresTyped ==
    ASSUME WordsTypeOK, Aborts \/ Dies \/ Undefined \/ Bye \/ Stops("crash")
    PROVE  WordsTypeOK'
  BY StopsTyped DEF Aborts, Dies, Undefined, Bye, Statuses

LEMMA ReplaceTyped ==
    ASSUME WordsTypeOK, NEW n \in Nat, NEW vals,
           Depth >= n => vals \in Seq(Cell), Replace(n, vals)
    PROVE  WordsTypeOK'
  <1>1. CASE Aborts
    BY <1>1, FailuresTyped
  <1>2. CASE /\ Depth >= n /\ Depth - n + Len(vals) <= StackSize
             /\ stack' = Rest(n) \o vals
             /\ UNCHANGED <<mem, here, retstack, retstacktop, output, status>>
    <2>1. Rest(n) \in Seq(Cell) /\ Len(Rest(n)) = Depth - n /\ vals \in Seq(Cell)
      BY <1>2, TopsAreCells DEF WordsTypeOK
    <2>2. stack' \in Seq(Cell) /\ Len(stack') = Depth - n + Len(vals)
      <3> DEFINE rest == Rest(n)
      <3>1. rest \in Seq(Cell) /\ Len(rest) = Depth - n /\ stack' = rest \o vals
        BY <1>2, <2>1
      <3> HIDE DEF rest
      <3>2. stack' \in Seq(Cell) /\ Len(stack') = Len(rest) + Len(vals)
        BY <2>1, <3>1, ConcatIsSeq
      <3>3. Depth \in Nat
        BY TopsAreCells DEF WordsTypeOK
      <3> QED BY <2>1, <3>1, <3>2, <3>3
    <2> QED BY <1>2, <2>2 DEF WordsTypeOK, Depth
  <1> QED BY <1>1, <1>2 DEF Replace, Needs

LEMMA PushTyped ==
    ASSUME WordsTypeOK, NEW v \in Cell, Push(v)
    PROVE  WordsTypeOK'
  <1>1. <<v>> \in Seq(Cell)
    OBVIOUS
  <1> QED BY <1>1, ReplaceTyped DEF Push

LEMMA WritesTyped ==
    ASSUME WordsTypeOK, NEW n \in Nat, NEW item, Depth >= n => item \in Items, Writes(n, item)
    PROVE  WordsTypeOK'
  <1>1. CASE Aborts
    BY <1>1, FailuresTyped
  <1>2. CASE /\ Depth >= n /\ stack' = Rest(n) /\ output' = Append(output, item)
             /\ UNCHANGED <<mem, here, retstack, retstacktop, status>>
    <2>1. stack' \in Seq(Cell) /\ Len(stack') <= StackSize
      BY <1>2, PopTyped
    <2>2. output' \in Seq(Items)
      BY <1>2 DEF WordsTypeOK
    <2> QED BY <1>2, <2>1, <2>2 DEF WordsTypeOK, Depth
  <1> QED BY <1>1, <1>2 DEF Writes, Needs

LEMMA CopiesTyped ==
    ASSUME WordsTypeOK, NEW n \in Nat, NEW v, Depth >= n => v \in Cell, Copies(n, v)
    PROVE  WordsTypeOK'
  BY FailuresTyped, PushTyped DEF Copies, Needs

-----------------------------------------------------------------------------
(* The groups of words.                                                    *)

LEMMA StackWordsTyped ==
    ASSUME WordsTypeOK, Clearstack \/ Drop \/ Swap \/ Dup \/ Over \/ Invert \/ Divmod
                  \/ \E op \in BinopWords : Binop(op)
    PROVE  WordsTypeOK'
  <1> USE TopsAreCells DEF WordsTypeOK
  <1>0. <<>> \in Seq(Cell)
    OBVIOUS
  <1>1. CASE Clearstack \/ Drop
    BY <1>0, <1>1, ReplaceTyped DEF Clearstack, Drop
  <1>2. CASE Swap
    <2>1. Depth >= 2 => <<Top, Second>> \in Seq(Cell) OBVIOUS
    <2> QED BY <1>2, <2>1, ReplaceTyped DEF Swap
  <1>3. CASE Dup \/ Over
    BY <1>3, CopiesTyped DEF Dup, Over
  <1>4. CASE Invert
    <2>1. Depth >= 1 => -Top - 1 \in Cell
      BY SmallCells DEF Cell
    <2>2. Depth >= 1 => <<-Top - 1>> \in Seq(Cell)
      BY <2>1
    <2> QED BY <1>4, <2>2, ReplaceTyped DEF Invert
  <1>5. CASE Divmod
    <2>1. CASE Aborts \/ Stops("crash")
      BY <2>1, FailuresTyped
    <2>2. CASE /\ Depth >= 2 /\ Top # 0 /\ ~ (Top = -1 /\ Second = MinInt)
               /\ Replace(2, <<Remainder(Second, Top), Quotient(Second, Top)>>)
      <3>1. Remainder(Second, Top) \in Cell /\ Quotient(Second, Top) \in Cell
        BY <2>2, DivmodIsCell
      <3>2. <<Remainder(Second, Top), Quotient(Second, Top)>> \in Seq(Cell)
        BY <3>1
      <3> QED BY <2>2, <3>2, ReplaceTyped
    <2> QED BY <1>5, <2>1, <2>2 DEF Divmod, Needs
  <1>6. ASSUME NEW op \in BinopWords, Binop(op) PROVE WordsTypeOK'
    <2>1. CASE Aborts
      BY <2>1, FailuresTyped
    <2>2. ASSUME Depth >= 2, NEW r \in BinopResults(op, Second, Top), Replace(2, <<r>>)
          PROVE  WordsTypeOK'
      <3>1. <<r>> \in Seq(Cell)
        BY <2>2, BinopResultsAreCells
      <3> QED BY <2>2, <3>1, ReplaceTyped
    <2> QED BY <1>6, <2>1, <2>2 DEF Binop, Needs
  <1> QED BY <1>1, <1>2, <1>3, <1>4, <1>5, <1>6

LEMMA ReturnStackTyped ==
    ASSUME WordsTypeOK, ToR \/ FromR \/ DropR \/ Peek(0, 1) \/ Peek(0, 2) \/ Peek(2, 4) \/ Peek(4, 6)
    PROVE  WordsTypeOK'
  <1>0. /\ retstack \in [Slot -> Cell] /\ retstacktop \in Int
        /\ retstacktop < StackSize /\ StackSize \in Nat
    BY SmallCells DEF WordsTypeOK
  <1>1. CASE Aborts \/ Undefined
    BY <1>1, FailuresTyped
  <1>2. CASE ToR
    <2>1. CASE /\ Depth >= 1 /\ retstacktop + 1 \in Slot
               /\ retstacktop' = retstacktop + 1
               /\ retstack' = [retstack EXCEPT ![retstacktop + 1] = Top]
               /\ stack' = Rest(1)
               /\ UNCHANGED <<mem, here, output, status>>
      <3>1. /\ Top \in Cell /\ stack' \in Seq(Cell) /\ Len(stack') <= StackSize
        BY <2>1, PopTyped, TopsAreCells DEF WordsTypeOK
      <3>2. retstack' \in [Slot -> Cell]
        BY <1>0, <2>1, <3>1
      <3>3. retstacktop' \in Int /\ retstacktop' < StackSize
        BY <1>0, <2>1 DEF Slot
      <3> QED BY <2>1, <3>1, <3>2, <3>3 DEF WordsTypeOK, Depth
    <2> QED BY <1>1, <1>2, <2>1 DEF ToR, Needs
  <1>3. CASE FromR
    <2>1. CASE /\ retstacktop >= 0 /\ Depth < StackSize
               /\ stack' = Append(stack, retstack[retstacktop])
               /\ retstacktop' = retstacktop - 1
               /\ UNCHANGED <<mem, here, retstack, output, status>>
      <3>1. retstack[retstacktop] \in Cell
        BY <1>0, <2>1 DEF Slot
      <3>2. stack' \in Seq(Cell) /\ Len(stack') <= StackSize
        BY <1>0, <2>1, <3>1 DEF WordsTypeOK, Depth
      <3> QED BY <1>0, <2>1, <3>2 DEF WordsTypeOK, Depth
    <2> QED BY <1>1, <1>3, <2>1 DEF FromR
  <1>4. CASE DropR
    BY <1>0, <1>1, <1>4 DEF DropR, WordsTypeOK, Depth
  <1>5. ASSUME NEW d \in Nat, NEW least \in Nat, d < least, Peek(d, least)
        PROVE  WordsTypeOK'
    <2>1. CASE retstacktop >= least - 1 /\ Push(retstack[retstacktop - d])
      <3>1. retstacktop - d \in Slot
        BY <1>0, <1>5, <2>1 DEF Slot
      <3>2. retstack[retstacktop - d] \in Cell
        BY <1>0, <3>1
      <3> QED BY <2>1, <3>2, PushTyped
    <2> QED BY <1>1, <1>5, <2>1 DEF Peek
  <1> QED BY <1>2, <1>3, <1>4, <1>5

-----------------------------------------------------------------------------
(* Memory and output.                                                      *)

\* The cell at an address that leaves room for it.
LEMMA CellAtIsCell ==
    ASSUME WordsTypeOK, NEW a \in Int, CellInBounds(a)
    PROVE  CellAt(mem, a) \in Cell
  <1>1. a \in Address /\ a + 1 \in Address
    BY SmallCells DEF CellInBounds, Address
  <1>2. mem[a] \in Byte /\ mem[a + 1] \in Byte
    BY <1>1 DEF WordsTypeOK
  <1> QED BY <1>2, FromBytesIsCell DEF CellAt

LEMMA PutCellTyped ==
    ASSUME WordsTypeOK, NEW a \in Int, NEW v \in Cell, Holds(a, CellSize)
    PROVE  PutCell(mem, a, v) \in [Address -> Byte]
  <1>1. a \in Address /\ a + 1 \in Address
    BY SmallCells DEF Holds, Address
  <1>2. ByteOf(v, 0) \in Byte /\ ByteOf(v, 1) \in Byte
    BY ByteOfIsByte
  <1>3. mem \in [Address -> Byte]
    BY DEF WordsTypeOK
  <1> QED BY <1>1, <1>2, <1>3 DEF PutCell

LEMMA StoresTyped ==
    ASSUME WordsTypeOK, NEW m \in [Address -> Byte], Depth >= 2, Stores(m)
    PROVE  WordsTypeOK'
  <1>1. stack' \in Seq(Cell) /\ Len(stack') <= StackSize
    BY PopTyped DEF Stores
  <1> QED BY <1>1 DEF Stores, WordsTypeOK, Depth

LEMMA MemoryWordsTyped ==
    ASSUME WordsTypeOK, At \/ Question \/ CAt \/ Exclamation \/ CExclamation \/ Here \/ Comma \/ Allot
    PROVE  WordsTypeOK'
  <1>0. /\ mem \in [Address -> Byte] /\ here \in Int /\ here >= 0 /\ here <= MemSize + 2
        /\ Depth \in Nat
        /\ Depth >= 1 => Top \in Cell /\ Top \in Int
        /\ Depth >= 2 => Second \in Cell /\ Second \in Int
    BY TopsAreCells, SmallCells DEF WordsTypeOK
  <1>1. CASE Aborts \/ Dies \/ Undefined
    BY <1>1, FailuresTyped
  <1>2. CASE At
    <2>1. CASE Depth >= 1 /\ CellInBounds(Top) /\ Replace(1, <<CellAt(mem, Top)>>)
      <3>1. <<CellAt(mem, Top)>> \in Seq(Cell)
        BY <1>0, <2>1, CellAtIsCell
      <3> QED BY <2>1, <3>1, ReplaceTyped
    <2> QED BY <1>1, <1>2, <2>1 DEF At, Access, Needs
  <1>3. CASE Question
    <2>1. CASE Depth >= 1 /\ CellInBounds(Top) /\ Writes(1, <<"num", CellAt(mem, Top)>>)
      <3>1. <<"num", CellAt(mem, Top)>> \in Items
        BY <1>0, <2>1, CellAtIsCell DEF Items
      <3> QED BY <2>1, <3>1, WritesTyped
    <2> QED BY <1>1, <1>3, <2>1 DEF Question, Access, Needs
  <1>4. CASE CAt
    <2>1. CASE Depth >= 1 /\ Top \in Address /\ Replace(1, <<SignedByte(mem[Top])>>)
      <3>1. SignedByte(mem[Top]) \in Cell
        BY <1>0, <2>1, SignedByteIsCell
      <3>2. <<SignedByte(mem[Top])>> \in Seq(Cell)
        BY <3>1
      <3> QED BY <2>1, <3>2, ReplaceTyped
    <2> QED BY <1>1, <1>4, <2>1 DEF CAt, Access, Needs
  <1>5. CASE Exclamation
    <2>1. CASE Depth >= 2 /\ CellInBounds(Top) /\ Stores(PutCell(mem, Top, Second))
      <3>1. Holds(Top, CellSize)
        BY <1>0, <2>1, SmallCells DEF CellInBounds, Holds
      <3>2. PutCell(mem, Top, Second) \in [Address -> Byte]
        BY <1>0, <2>1, <3>1, PutCellTyped
      <3> QED BY <2>1, <3>2, StoresTyped
    <2> QED BY <1>1, <1>5, <2>1 DEF Exclamation, Access, Needs
  <1>6. CASE CExclamation
    <2>1. CASE /\ Depth >= 2 /\ Top \in Address
               /\ Stores([mem EXCEPT ![Top] = Second % ByteBase])
      <3>1. Second % ByteBase \in Byte
        BY <1>0, <2>1, SmallCells DEF Byte
      <3>2. [mem EXCEPT ![Top] = Second % ByteBase] \in [Address -> Byte]
        BY <1>0, <2>1, <3>1
      <3> QED BY <2>1, <3>2, StoresTyped
    <2> QED BY <1>1, <1>6, <2>1 DEF CExclamation, Access, Needs
  <1>7. CASE Here
    <2>1. here \in Cell
      BY <1>0, SmallCells DEF Cell
    <2> QED BY <1>7, <2>1, PushTyped DEF Here
  <1>8. CASE Comma
    <2>1. CASE /\ Depth >= 1 /\ Holds(here, CellSize)
               /\ mem' = PutCell(mem, here, Top) /\ here' = here + CellSize
               /\ stack' = Rest(1)
               /\ UNCHANGED <<retstack, retstacktop, output, status>>
      <3>1. mem' \in [Address -> Byte]
        BY <1>0, <2>1, PutCellTyped
      <3>2. here' \in 0 .. MemSize + CellSize
        BY <1>0, <2>1, SmallCells DEF Holds
      <3>3. stack' \in Seq(Cell) /\ Len(stack') <= StackSize
        BY <2>1, PopTyped
      <3> QED BY <2>1, <3>1, <3>2, <3>3 DEF WordsTypeOK, Depth
    <2> QED BY <1>1, <1>8, <2>1 DEF Comma, Needs
  <1>9. CASE Allot
    <2>1. CASE /\ Depth >= 1 /\ Wrap(here + Top) \in 0 .. MemSize
               /\ here' = Wrap(here + Top) /\ stack' = Rest(1)
               /\ UNCHANGED <<mem, retstack, retstacktop, output, status>>
      <3>1. here' \in 0 .. MemSize + CellSize
        BY <2>1, SmallCells
      <3>2. stack' \in Seq(Cell) /\ Len(stack') <= StackSize
        BY <2>1, PopTyped
      <3> QED BY <2>1, <3>1, <3>2 DEF WordsTypeOK, Depth
    <2> QED BY <1>1, <1>9, <2>1 DEF Allot, Needs
  <1> QED BY <1>2, <1>3, <1>4, <1>5, <1>6, <1>7, <1>8, <1>9

\* A string that ends within memory.
LEMMA TextAtIsText ==
    ASSUME WordsTypeOK, NEW a \in Address, Ends(a) # {}
    PROVE  TextAt(a) \in Seq(Byte)
  <1> DEFINE ends == Ends(a)
             least == CHOOSE e \in ends : \A b \in ends : e <= b
  <1>1. ends \in SUBSET Nat
    BY SmallCells DEF Ends, Address
  <1>2. least \in ends
    <2> HIDE DEF ends
    <2>1. \E e \in ends : \A b \in ends : e <= b
      BY <1>1, LeastExists DEF ends
    <2> QED BY <2>1
  <1>3. least \in Address /\ least >= a /\ least \in Nat /\ a \in Nat
    BY <1>2, SmallCells DEF Ends, Address
  <1> HIDE DEF ends, least
  <1>4. TextAt(a) = [i \in 1 .. least - a |-> mem[a + i - 1]]
    BY DEF TextAt, least, ends
  <1>5. least - a \in Nat
    BY <1>3
  <1>6. \A i \in 1 .. least - a : mem[a + i - 1] \in Byte
    <2>1. \A i \in 1 .. least - a : a + i - 1 \in Address
      BY <1>3, SmallCells DEF Address
    <2> QED BY <2>1 DEF WordsTypeOK
  <1> QED BY <1>4, <1>5, <1>6

LEMMA OutputWordsTyped ==
    ASSUME WordsTypeOK, Dot \/ DotS \/ Emit \/ Type \/ Bye
    PROVE  WordsTypeOK'
  <1>0. /\ Depth >= 1 => Top \in Cell /\ Top \in Int
        /\ stack \in Seq(Cell)
    BY TopsAreCells DEF WordsTypeOK
  <1>1. CASE Dot
    <2>1. Depth >= 1 => <<"num", Top>> \in Items
      BY <1>0 DEF Items
    <2> QED BY <1>1, <2>1, WritesTyped DEF Dot
  <1>2. CASE DotS
    <2>1. <<"stack", stack>> \in Items
      BY <1>0 DEF Items
    <2> QED BY <1>2, <2>1, WritesTyped DEF DotS
  <1>3. CASE Emit
    <2>1. Depth >= 1 => Top % ByteBase \in Cell
      BY <1>0, SmallCells DEF Byte
    <2>2. Depth >= 1 => <<"char", Top % ByteBase>> \in Items
      BY <2>1 DEF Items
    <2> QED BY <1>3, <2>2, WritesTyped DEF Emit
  <1>4. CASE Type
    <2>1. CASE Aborts \/ Undefined
      BY <2>1, FailuresTyped
    <2>2. CASE /\ Second \in Address /\ Ends(Second) # {}
               /\ Writes(2, <<"text", TextAt(Second)>>)
      <3>1. <<"text", TextAt(Second)>> \in Items
        BY <2>2, TextAtIsText DEF Items
      <3> QED BY <2>2, <3>1, WritesTyped
    <2> QED BY <1>4, <2>1, <2>2 DEF Type, Needs
  <1>5. CASE Bye
    BY <1>5, FailuresTyped
  <1> QED BY <1>1, <1>2, <1>3, <1>4, <1>5

LEMMA DataWordTyped ==
    ASSUME WordsTypeOK, NEW w, DataWord(w)
    PROVE  WordsTypeOK'
  <1>1. \/ Clearstack \/ Drop \/ Swap \/ Dup \/ Over \/ Invert \/ Divmod
           \/ \E op \in BinopWords : Binop(op)
        \/ ToR \/ FromR \/ DropR \/ Peek(0, 1) \/ Peek(0, 2) \/ Peek(2, 4) \/ Peek(4, 6)
        \/ At \/ Question \/ CAt \/ Exclamation \/ CExclamation \/ Here \/ Comma \/ Allot
        \/ Dot \/ DotS \/ Emit \/ Type \/ Bye
    BY DEF DataWord
  <1> QED BY <1>1, StackWordsTyped, ReturnStackTyped, MemoryWordsTyped, OutputWordsTyped

-----------------------------------------------------------------------------
(* Dictionaries, and what extending one does.                              *)

IsDict(d) ==
    /\ d \in [mem : [Address -> Byte], here : 0 .. MemSize + CellSize, latest : Int,
              status : Statuses]
    /\ LatestIs(d.latest)

\* What lies below here is left alone, and here does not go down.
Grows(d, e) ==
    IsDict(e) /\ e.here >= d.here /\ \A a \in Address : a < d.here => e.mem[a] = d.mem[a]

LEMMA Sizes ==
    /\ HeaderSize = 4 /\ CellSize = 2 /\ MemSize \in Nat /\ MemSize + 6 <= MaxInt /\ MaxInt \in Int
    /\ MinInt \in Int /\ MinInt <= -1 /\ ByteBase \in Nat /\ ByteBase > 1 /\ ByteBase % 2 = 0
    /\ \A e \in Int : e >= -1 /\ e <= MemSize + 6 => e \in Cell
    /\ {"running", "undefined", "abort", "hangs"} \subseteq Statuses
  <1>1. ByteBase > 1
    <2>1. ByteBase >= 2
      BY CellRange
    <2> QED BY <2>1, SmallCells
  <1> QED BY <1>1, SmallCells, CellsAssumption DEF HeaderSize, Cell, Statuses

LEMMA GrowsTwice ==
    ASSUME NEW d, NEW e, NEW f, IsDict(d), Grows(d, e), Grows(e, f)
    PROVE  Grows(d, f)
  <1>1. \A a \in Address : a \in Int
    BY SmallCells DEF Address
  <1>2. d.here \in Int /\ e.here \in Int /\ f.here \in Int
    BY SmallCells DEF IsDict, Grows
  <1> QED BY <1>1, <1>2 DEF Grows

LEMMA FailedGrows ==
    ASSUME NEW d, IsDict(d), NEW s \in {"undefined", "abort", "hangs"}
    PROVE  Grows(d, Failed(d, s))
  <1>1. /\ Failed(d, s) \in [mem : [Address -> Byte], here : 0 .. MemSize + CellSize, latest : Int,
                             status : Statuses]
        /\ Failed(d, s).mem = d.mem /\ Failed(d, s).here = d.here /\ Failed(d, s).latest = d.latest
    BY Sizes DEF IsDict, Failed
  <1>2. d.here \in Int
    BY Sizes DEF IsDict
  <1> QED BY <1>1, <1>2 DEF Grows, IsDict

LEMMA ExtendsGrows ==
    ASSUME NEW d, IsDict(d), NEW n \in Int, NEW next,
           Holds(d.here, n) => Grows(d, next)
    PROVE  Grows(d, Extends(d, n, next))
  <1>1. d.here \in Int /\ Grows(d, d)
    BY Sizes DEF IsDict, Grows
  <1> QED BY <1>1, FailedGrows DEF Extends

LEMMA PlaceCellGrows ==
    ASSUME NEW d, IsDict(d), NEW v \in Cell
    PROVE  Grows(d, PlaceCell(d, v))
  <1> DEFINE next == [d EXCEPT !.mem = PutCell(d.mem, d.here, v), !.here = d.here + CellSize]
  <1>1. d.mem \in [Address -> Byte] /\ d.here \in Int /\ d.here >= 0
    BY Sizes DEF IsDict
  <1>2. ASSUME Holds(d.here, CellSize) PROVE Grows(d, next)
    <2>1. d.here \in Address /\ d.here + 1 \in Address /\ d.here + CellSize \in 0 .. MemSize + CellSize
      BY <1>1, <1>2, Sizes DEF Holds, Address
    <2>2. ByteOf(v, 0) \in Byte /\ ByteOf(v, 1) \in Byte
      BY ByteOfIsByte
    <2>3. /\ PutCell(d.mem, d.here, v) \in [Address -> Byte]
          /\ \A a \in Address : a < d.here => PutCell(d.mem, d.here, v)[a] = d.mem[a]
      BY <1>1, <2>1, <2>2 DEF PutCell
    <2>4. /\ next \in [mem : [Address -> Byte], here : 0 .. MemSize + CellSize, latest : Int,
                       status : Statuses]
          /\ next.mem = PutCell(d.mem, d.here, v) /\ next.here = d.here + CellSize
          /\ next.latest = d.latest
      BY <2>1, <2>3 DEF IsDict
    <2> HIDE DEF next
    <2> QED BY <1>1, <2>3, <2>4, Sizes DEF Grows, IsDict
  <1>3. Grows(d, Extends(d, CellSize, next))
    <2> HIDE DEF next
    <2> QED BY <1>2, ExtendsGrows, Sizes
  <1> QED BY <1>3 DEF PlaceCell

LEMMA PlaceWordGrows ==
    ASSUME NEW d, IsDict(d), NEW w
    PROVE  Grows(d, PlaceWord(d, w))
  <1> DEFINE e == FindIn(d, WordName(w))
  <1>1. Grows(d, d)
    BY Sizes DEF IsDict, Grows
  <1>2. ASSUME e \in Address PROVE Grows(d, PlaceCell(d, e))
    <2> HIDE DEF e
    <2>1. e \in Cell
      BY <1>2, Sizes DEF Address
    <2> QED BY <2>1, PlaceCellGrows
  <1>3. \/ PlaceWord(d, w) \in {d, Failed(d, "abort"), Failed(d, "hangs"), Failed(d, "undefined")}
        \/ e \in Address /\ PlaceWord(d, w) = PlaceCell(d, e)
    BY DEF PlaceWord
  <1> HIDE DEF e
  <1> QED BY <1>1, <1>2, <1>3, FailedGrows

\* A length of a name, in a byte.
LEMMA AlignedIs ==
    ASSUME NEW n \in Nat
    PROVE  AlignNameLen(n) \in Byte /\ AlignNameLen(n) <= n + 2
  <1> DEFINE m == (n + 1) % ByteBase
             p == m + ((2 - (m % 2)) % 2)
  <1>1. m \in Nat /\ m <= n + 1
    BY Sizes
  <1>2. p \in Nat /\ p <= m + 1
    <2> HIDE DEF m
    <2> QED BY <1>1
  <1>3. p % ByteBase \in Nat /\ p % ByteBase < ByteBase /\ p % ByteBase <= p
    <2> HIDE DEF p
    <2> QED BY <1>2, Sizes
  <1>4. AlignNameLen(n) = p % ByteBase
    BY Sizes DEF AlignNameLen, Padded
  <1> HIDE DEF m, p
  <1> QED BY <1>1, <1>2, <1>3, <1>4, Sizes DEF Byte

LEMMA HeaderGrows ==
    ASSUME NEW d, IsDict(d), NEW name \in Seq(Byte), NEW flags \in Byte,
           d.latest \in Cell
    PROVE  Grows(d, Header(d, name, flags))
  <1> DEFINE length == AlignNameLen(Len(name))
             front  == <<ByteOf(d.latest, 0), ByteOf(d.latest, 1), flags, length>>
             bytes  == front \o name \o <<0>>
             next   == [d EXCEPT !.mem    = PlaceBytes(d.mem, d.here, bytes),
                                 !.latest = d.here,
                                 !.here   = NameAddr(d.here) + length]
  <1>1. length \in Byte /\ length \in Nat /\ length <= Len(name) + 2 /\ Len(name) \in Nat
    BY AlignedIs, Sizes DEF Byte
  <1>2. bytes \in Seq(Byte) /\ Len(bytes) = Len(name) + 5
    <2>1. front \in Seq(Byte) /\ Len(front) = 4
      <3>1. ByteOf(d.latest, 0) \in Byte /\ ByteOf(d.latest, 1) \in Byte
        BY ByteOfIsByte
      <3> HIDE DEF length
      <3> QED BY <1>1, <3>1
    <2>2. <<0>> \in Seq(Byte) /\ Len(<<0>>) = 1
      BY SmallCells
    <2> DEFINE zero == <<0>>
               both == front \o name
    <2> HIDE DEF front, zero
    <2>3. both \in Seq(Byte) /\ Len(both) = Len(front) + Len(name)
      BY <2>1, ConcatIsSeq
    <2>4. zero \in Seq(Byte) /\ Len(zero) = 1
      BY <2>2 DEF zero
    <2> HIDE DEF both
    <2>5. both \o zero \in Seq(Byte) /\ Len(both \o zero) = Len(both) + Len(zero)
      BY <2>3, <2>4, ConcatIsSeq
    <2>6. bytes = both \o zero
      BY DEF both, zero
    <2> HIDE DEF bytes
    <2> QED BY <1>1, <2>1, <2>3, <2>4, <2>5, <2>6
  <1>3. d.mem \in [Address -> Byte] /\ d.here \in Int /\ d.here >= 0
    BY Sizes DEF IsDict
  <1>4. ASSUME Holds(d.here, Len(bytes)) PROVE Grows(d, next)
    <2> HIDE DEF bytes, length
    <2>1. /\ d.here + Len(bytes) <= MemSize
          /\ NameAddr(d.here) + length \in 0 .. MemSize + CellSize
          /\ NameAddr(d.here) + length >= d.here
          /\ LatestIs(d.here)
      BY <1>1, <1>2, <1>3, <1>4, Sizes DEF Holds, NameAddr, LatestIs
    <2>2. /\ PlaceBytes(d.mem, d.here, bytes) \in [Address -> Byte]
          /\ \A a \in Address : a < d.here => PlaceBytes(d.mem, d.here, bytes)[a] = d.mem[a]
      <3>1. DOMAIN d.mem = Address
        BY <1>3
      <3>2. ASSUME NEW b \in Address, b \in d.here .. d.here + Len(bytes) - 1
            PROVE  bytes[b - d.here + 1] \in Byte /\ b >= d.here
        <4>1. b - d.here + 1 \in 1 .. Len(bytes)
          BY <1>1, <1>2, <1>3, <3>2
        <4> QED BY <1>2, <1>3, <3>2, <4>1
      <3>3. \A a \in Address : a \in Int
        BY SmallCells DEF Address
      <3> QED BY <1>2, <1>3, <3>1, <3>2, <3>3 DEF PlaceBytes
    <2>3. /\ next \in [mem : [Address -> Byte], here : 0 .. MemSize + CellSize, latest : Int,
                       status : Statuses]
          /\ next.mem = PlaceBytes(d.mem, d.here, bytes) /\ next.here = NameAddr(d.here) + length
          /\ next.latest = d.here
      BY <1>3, <2>1, <2>2 DEF IsDict
    <2> HIDE DEF next
    <2> QED BY <2>1, <2>2, <2>3 DEF Grows, IsDict
  <1>5. Grows(d, Extends(d, Len(bytes), next))
    <2> HIDE DEF next, bytes
    <2>1. Len(bytes) \in Int
      BY <1>1, <1>2
    <2> QED BY <1>4, <2>1, ExtendsGrows
  <1> QED BY <1>5 DEF Header

LEMMA NewLiteralGrows ==
    ASSUME NEW d, IsDict(d), d.latest \in Cell, NEW name \in Seq(Byte), NEW w
    PROVE  Grows(d, PlaceWord(Header(d, name, 0), w))
  <1>1. Grows(d, Header(d, name, 0))
    BY HeaderGrows, SmallCells
  <1> DEFINE e == Header(d, name, 0)
  <1>2. IsDict(e)
    BY <1>1 DEF Grows
  <1> HIDE DEF e
  <1>3. Grows(e, PlaceWord(e, w))
    BY <1>2, PlaceWordGrows
  <1>4. Grows(d, e)
    BY <1>1 DEF e
  <1>5. Grows(d, PlaceWord(e, w))
    BY <1>3, <1>4, GrowsTwice
  <1> QED BY <1>5 DEF e

LEMMA PushingGrows ==
    ASSUME NEW d, IsDict(d), NEW v \in Cell
    PROVE  Grows(d, Pushing(d, v))
  <1> DEFINE e == PlaceCell(d, v)
  <1>1. Grows(d, e)
    BY PlaceCellGrows
  <1> HIDE DEF e
  <1>2. Grows(e, PlaceCell(e, -1))
    BY <1>1, PlaceCellGrows, SmallCells DEF Grows
  <1>3. Grows(d, PlaceCell(e, -1))
    BY <1>1, <1>2, GrowsTwice
  <1> QED BY <1>3 DEF Pushing, e

-----------------------------------------------------------------------------
(* find_word_in_dict.                                                      *)

LEMMA CellIn ==
    ASSUME NEW m \in [Address -> Byte], NEW e \in Int, Holds(e, CellSize)
    PROVE  CellAt(m, e) \in Cell /\ CellAt(m, e) \in Int
  <1>1. e \in Address /\ e + 1 \in Address
    BY Sizes DEF Holds, Address
  <1>2. m[e] \in Byte /\ m[e + 1] \in Byte
    BY <1>1
  <1> QED BY <1>2, FromBytesIsCell, Sizes DEF CellAt, Cell

\* How the search goes on from entry e, when found is what the rest of the list
\* gives.
Searches(m, name, e, more, found) ==
    CASE e = -1 -> NotFound
      [] e # -1 /\ (e < 0 \/ ComparesOutside(m, e, name)) -> Outside
      [] OTHER -> CASE NameIs(m, e, name) -> e
                    [] ~ NameIs(m, e, name) /\ ~ more -> Endless
                    [] OTHER -> found

\* An entry that is compared and goes on has a link.
LEMMA ComparedHolds ==
    ASSUME NEW m, NEW name \in Seq(Byte), NEW e \in Int, e >= 0, ~ ComparesOutside(m, e, name)
    PROVE  Holds(e, HeaderSize) /\ Holds(e, CellSize) /\ NameAddr(e) \in Address
  <1>1. 1 \in 1 .. Len(name) + 1 /\ 1 .. 1 - 1 = {}
    OBVIOUS
  <1>2. NameAddr(e) + 1 - 1 \in Address
    BY <1>1 DEF ComparesOutside
  <1> QED BY <1>2, Sizes DEF NameAddr, Address, Holds

\* f gives what is found from an entry on when so many links may be followed.
IsSearch(f, d, name) ==
    /\ FindIn(d, name) = f[MemSize][d.latest]
    /\ f \in [Nat -> [Int -> Int]]
    /\ \A links \in Nat, e \in Int :
          f[links][e] = Searches(d.mem, name, e, links # 0, f[links - 1][CellAt(d.mem, e)])

LEMMA SearchIs ==
    ASSUME NEW d, IsDict(d), NEW name, name \in Seq(Byte)
    PROVE  \E f : IsSearch(f, d, name)
  <1> DEFINE W     == [Int -> Int]
             Goes(e) == e >= 0 /\ ~ ComparesOutside(d.mem, e, name)
             first == [e \in Int |-> Searches(d.mem, name, e, FALSE, 0)]
             step  == [w \in W |->
                         [e \in Int |-> Searches(d.mem, name, e, TRUE, w[CellAt(d.mem, e)])]]
  <1>1. NotFound \in Int /\ Outside \in Int /\ Endless \in Int
    BY Sizes DEF NotFound, Outside, Endless
  <1>2. \A e \in Int : Goes(e) => CellAt(d.mem, e) \in Int
    BY ComparedHolds, CellIn DEF IsDict
  <1>3. first \in W
    BY <1>1 DEF Searches
  <1>4. ASSUME NEW w \in W, NEW e \in Int
        PROVE  Searches(d.mem, name, e, TRUE, w[CellAt(d.mem, e)]) \in Int
    <2>1. Goes(e) => w[CellAt(d.mem, e)] \in Int
      BY <1>2
    <2> QED BY <1>1, <2>1 DEF Searches
  <1>5. step \in [W -> W]
    BY <1>4
  <1>6. PICK f \in [Nat -> W] : f[0] = first /\ \A n \in Nat : f[n + 1] = step[f[n]]
    <2> HIDE DEF W, first, step
    <2>1. \E f \in [Nat -> W] : f[0] = first /\ \A n \in Nat : f[n + 1] = step[f[n]]
      BY ONLY <1>3, <1>5, Repeats, SMT
    <2> QED BY <2>1
  <1>7. ASSUME NEW links \in Nat, NEW e \in Int
        PROVE  f[links][e] = Searches(d.mem, name, e, links # 0, f[links - 1][CellAt(d.mem, e)])
    <2>1. CASE links = 0
      BY <1>6, <2>1 DEF Searches
    <2>2. CASE links # 0
      <3>1. links - 1 \in Nat /\ links - 1 + 1 = links
        BY <2>2
      <3>2. f[links] = step[f[links - 1]] /\ f[links - 1] \in W
        BY <1>6, <3>1
      <3> QED BY <2>2, <3>2
    <2> QED BY <2>1, <2>2
  <1> DEFINE Body(g) == [links \in Nat |->
               [e \in Int |->
                  CASE e = -1 -> NotFound
                    [] e # -1 /\ (e < 0 \/ ComparesOutside(d.mem, e, name)) -> Outside
                    [] OTHER -> CASE NameIs(d.mem, e, name) -> e
                                  [] ~ NameIs(d.mem, e, name) /\ links = 0 -> Endless
                                  [] OTHER -> g[links - 1][CellAt(d.mem, e)]]]
             search[links \in Nat] ==
               [e \in Int |->
                  CASE e = -1 -> NotFound
                    [] e # -1 /\ (e < 0 \/ ComparesOutside(d.mem, e, name)) -> Outside
                    [] OTHER -> CASE NameIs(d.mem, e, name) -> e
                                  [] ~ NameIs(d.mem, e, name) /\ links = 0 -> Endless
                                  [] OTHER -> search[links - 1][CellAt(d.mem, e)]]
  <1>8. f = Body(f)
    <2>1. ASSUME NEW links \in Nat, NEW e \in Int
          PROVE  f[links][e] = Body(f)[links][e]
      BY <1>7 DEF Searches
    <2>2. f \in [Nat -> [Int -> Int]]
      BY <1>6
    <2>3. \A links \in Nat : DOMAIN Body(f)[links] = Int /\ f[links] = Body(f)[links]
      BY <2>1, <2>2
    <2> QED BY <2>2, <2>3
  <1>9. search = Body(search)
    <2>1. search = CHOOSE g : g = Body(g)
      OBVIOUS
    <2> HIDE DEF search, Body
    <2> QED BY <1>8, <2>1
  <1>10. FindIn(d, name) = search[MemSize][d.latest]
    BY DEF FindIn
  <1>11. ASSUME NEW links \in Nat, NEW e \in Int
         PROVE  search[links][e] = Searches(d.mem, name, e, links # 0,
                                            search[links - 1][CellAt(d.mem, e)])
    <2> HIDE DEF search
    <2>1. Body(search)[links][e] = Searches(d.mem, name, e, links # 0,
                                            search[links - 1][CellAt(d.mem, e)])
      BY DEF Searches
    <2> HIDE DEF Body
    <2> QED BY <1>9, <2>1
  <1>12. \A links \in Nat : DOMAIN search[links] = Int /\ search[links] = [e \in Int |-> search[links][e]]
    <2> HIDE DEF search
    <2>1. \A links \in Nat : DOMAIN Body(search)[links] = Int
                            /\ Body(search)[links] = [e \in Int |-> Body(search)[links][e]]
      OBVIOUS
    <2> HIDE DEF Body
    <2> QED BY <1>9, <2>1
  <1>13. DOMAIN search = Nat /\ search = [links \in Nat |-> search[links]]
    <2> HIDE DEF search
    <2>1. DOMAIN Body(search) = Nat /\ Body(search) = [links \in Nat |-> Body(search)[links]]
      OBVIOUS
    <2> HIDE DEF Body
    <2> QED BY <1>9, <2>1
  <1> HIDE DEF search
  <1> DEFINE Ints == {n \in Nat : \A e \in Int : search[n][e] \in Int}
  <1>14. 0 \in Ints
    <2> SUFFICES ASSUME NEW e \in Int PROVE search[0][e] \in Int
      OBVIOUS
    <2>1. search[0][e] = Searches(d.mem, name, e, 0 # 0, search[0 - 1][CellAt(d.mem, e)])
      BY <1>11
    <2> QED BY ONLY <1>1, <2>1, e \in Int DEF Searches
  <1>15. ASSUME NEW n \in Nat, n \in Ints PROVE n + 1 \in Ints
    <2> SUFFICES ASSUME NEW e \in Int PROVE search[n + 1][e] \in Int
      OBVIOUS
    <2>1. search[n + 1][e] = Searches(d.mem, name, e, n + 1 # 0, search[n][CellAt(d.mem, e)])
      <3>1. n + 1 - 1 = n /\ n + 1 \in Nat
        OBVIOUS
      <3>2. search[n + 1][e] = Searches(d.mem, name, e, n + 1 # 0,
                                        search[n + 1 - 1][CellAt(d.mem, e)])
        BY ONLY <1>11, <3>1, e \in Int
      <3> QED BY <3>1, <3>2
    <2>2. Goes(e) => search[n][CellAt(d.mem, e)] \in Int
      BY <1>2, <1>15
    <2>3. Searches(d.mem, name, e, n + 1 # 0, search[n][CellAt(d.mem, e)]) \in Int
      BY ONLY <1>1, <2>2, e \in Int DEF Searches
    <2> QED BY <2>1, <2>3
  <1>16. \A n \in Nat : n \in Ints
    <2> HIDE DEF Ints
    <2> QED BY <1>14, <1>15, AllNumbers
  <1>17. search \in [Nat -> [Int -> Int]]
    BY <1>12, <1>13, <1>16
  <1>18. IsSearch(search, d, name)
    BY <1>10, <1>11, <1>17 DEF IsSearch
  <1> QED BY <1>18

\* The header of an entry that is found lies in memory.
LEMMA FoundHolds ==
    ASSUME NEW d, IsDict(d), NEW name, name \in Seq(Byte)
    PROVE  /\ FindIn(d, name) \in Int
           /\ FindIn(d, name) \in Address => Holds(FindIn(d, name), HeaderSize)
  <1>1. PICK f : IsSearch(f, d, name)
    BY SearchIs
  <1>2. d.mem \in [Address -> Byte] /\ d.latest \in Int /\ MemSize \in Nat
    BY Sizes DEF IsDict
  <1>3. f \in [Nat -> [Int -> Int]]
    BY <1>1 DEF IsSearch
  <1>4. NotFound \notin Address /\ Outside \notin Address /\ Endless \notin Address
    BY Sizes DEF NotFound, Outside, Endless, Address
  <1> DEFINE Good(x) == x \in Address => Holds(x, HeaderSize)
             Goods   == {n \in Nat : \A e \in Int : Good(f[n][e])}
  <1>5. ASSUME NEW n \in Nat, NEW e \in Int,
               n # 0 => \A x \in Int : Good(f[n - 1][x])
        PROVE  Good(f[n][e])
    <2> DEFINE next == f[n - 1][CellAt(d.mem, e)]
    <2>1. f[n][e] = Searches(d.mem, name, e, n # 0, next)
      BY <1>1 DEF IsSearch
    <2>2. CASE e = -1 \/ e < 0 \/ ComparesOutside(d.mem, e, name)
      <3>1. f[n][e] \in {NotFound, Outside}
        <4> HIDE DEF next
        <4> QED BY <2>1, <2>2 DEF Searches
      <3> QED BY <1>4, <3>1
    <2>3. CASE e >= 0 /\ ~ ComparesOutside(d.mem, e, name)
      <3>1. Holds(e, HeaderSize) /\ Holds(e, CellSize)
        BY <2>3, ComparedHolds
      <3>2. CellAt(d.mem, e) \in Int
        BY <1>2, <3>1, CellIn
      <3>3. n # 0 => Good(next)
        BY <1>5, <3>2
      <3>4. f[n][e] \in {e, Endless} \/ (n # 0 /\ f[n][e] = next)
        <4> HIDE DEF next
        <4> QED BY <2>1, <2>3 DEF Searches
      <3> HIDE DEF next
      <3> QED BY <1>4, <3>1, <3>3, <3>4
    <2> QED BY <2>2, <2>3
  <1>6. 0 \in Goods
    BY <1>5
  <1>7. ASSUME NEW n \in Nat, n \in Goods PROVE n + 1 \in Goods
    <2>1. n + 1 - 1 = n /\ n + 1 \in Nat /\ \A x \in Int : Good(f[n][x])
      BY <1>7
    <2> HIDE DEF Good
    <2>2. \A x \in Int : Good(f[n + 1 - 1][x])
      BY <2>1
    <2> QED BY <1>5, <2>1, <2>2
  <1>8. \A n \in Nat : n \in Goods
    <2> HIDE DEF Goods
    <2> QED BY <1>6, <1>7, AllNumbers
  <1>9. FindIn(d, name) = f[MemSize][d.latest]
    BY <1>1 DEF IsSearch
  <1> QED BY <1>2, <1>3, <1>8, <1>9

-----------------------------------------------------------------------------
(* The steps.                                                              *)

DictInv == WordsTypeOK /\ LatestIs(latest)

\* What lies below here is left alone.
Untouched == \A a \in Address : a < here => mem'[a] = mem[a]

LEMMA DictIsDict ==
    ASSUME DictInv
    PROVE  IsDict(Dict) /\ latest \in Cell /\ Dict.latest = latest /\ Dict.here = here
  <1>1. latest \in Int /\ latest >= -1 /\ latest <= MemSize + 6
    BY Sizes DEF DictInv, LatestIs
  <1>2. IsDict(Dict)
    BY <1>1 DEF DictInv, Dict, IsDict, WordsTypeOK
  <1> QED BY <1>1, <1>2, Sizes DEF Dict

\* The dictionary is extended, and at most values are popped.
LEMMA BecomesKeeps ==
    ASSUME DictInv, NEW d, Grows(Dict, d), Becomes(d),
           stack' \in Seq(Cell), Len(stack') <= StackSize
    PROVE  DictInv' /\ Untouched
  <1>1. /\ mem' = d.mem /\ here' = d.here /\ latest' = d.latest /\ status' = d.status
        /\ UNCHANGED <<retstack, retstacktop, output>>
    BY DEF Becomes
  <1>2. DictInv'
    BY <1>1 DEF DictInv, Grows, IsDict, WordsTypeOK, Depth
  <1>3. Untouched
    BY <1>1 DEF Grows, Dict, Untouched
  <1> QED BY <1>2, <1>3

LEMMA DefiningKeeps ==
    ASSUME DictInv, NEW name \in Seq(Byte),
           Create(name) \/ Constant(name) \/ Colon(name)
    PROVE  DictInv' /\ Untouched
  <1>1. IsDict(Dict) /\ Dict.latest \in Cell /\ latest \in Cell
    BY DictIsDict
  <1>2. stack \in Seq(Cell) /\ Len(stack) <= StackSize
    BY DEF DictInv, WordsTypeOK, Depth
  <1> DEFINE d == NewLiteral(name)
  <1>3. Grows(Dict, d)
    BY <1>1, NewLiteralGrows DEF NewLiteral
  <1>4. ASSUME NEW v \in Cell PROVE Grows(Dict, Pushing(d, v))
    <2> HIDE DEF d
    <2>1. Grows(d, Pushing(d, v))
      BY <1>3, PushingGrows DEF Grows
    <2> QED BY <1>1, <1>3, <2>1, GrowsTwice
  <1>5. CASE Create(name)
    <2>1. d.here + 2 * CellSize \in Cell
      <3> HIDE DEF d
      <3>1. d.here \in 0 .. MemSize + CellSize
        BY <1>3 DEF Grows, IsDict
      <3> QED BY <3>1, Sizes
    <2>2. Becomes(Pushing(d, d.here + 2 * CellSize)) /\ UNCHANGED stack
      BY <1>5 DEF Create
    <2> HIDE DEF d
    <2> QED BY <1>2, <1>4, <2>1, <2>2, BecomesKeeps
  <1>6. CASE Constant(name)
    <2>1. CASE Becomes(d) /\ UNCHANGED stack
      BY <1>2, <1>3, <2>1, BecomesKeeps
    <2>2. CASE Becomes(Failed(d, "abort")) /\ UNCHANGED stack
      <3> HIDE DEF d
      <3>1. Grows(d, Failed(d, "abort"))
        BY <1>3, FailedGrows DEF Grows
      <3>2. Grows(Dict, Failed(d, "abort"))
        BY <1>1, <1>3, <3>1, GrowsTwice
      <3> QED BY <1>2, <2>2, <3>2, BecomesKeeps
    <2>3. CASE Depth > 0 /\ Becomes(Pushing(d, Top)) /\ stack' = Rest(1)
      <3> HIDE DEF d
      <3>1. /\ Depth >= 1 /\ Top \in Cell
        <4>1. Depth \in Nat
          BY TopsAreCells DEF DictInv, WordsTypeOK
        <4> QED BY <2>3, <4>1, TopsAreCells DEF DictInv, WordsTypeOK
      <3>2. stack' \in Seq(Cell) /\ Len(stack') <= StackSize
        BY <2>3, <3>1, PopTyped DEF DictInv
      <3> QED BY <1>4, <2>3, <3>1, <3>2, BecomesKeeps
    <2> QED BY <1>6, <2>1, <2>2, <2>3 DEF Constant
  <1>7. CASE Colon(name)
    <2>1. Grows(Dict, Header(Dict, name, 0))
      BY <1>1, HeaderGrows, SmallCells
    <2> QED BY <1>2, <1>7, <2>1, BecomesKeeps DEF Colon
  <1> QED BY <1>5, <1>6, <1>7

LEMMA CompileKeeps ==
    ASSUME DictInv, NEW v \in Cell, Compile(v)
    PROVE  DictInv' /\ Untouched
  <1>1. IsDict(Dict) /\ stack \in Seq(Cell) /\ Len(stack) <= StackSize
    BY DictIsDict DEF DictInv, WordsTypeOK, Depth
  <1>2. Grows(Dict, PlaceCell(Dict, v))
    BY <1>1, PlaceCellGrows
  <1> QED BY <1>1, <1>2, BecomesKeeps DEF Compile

LEMMA RegisterKeeps ==
    ASSUME DictInv, NEW name \in Seq(Byte), NEW flags, F_BUILTIN + flags \in Byte,
           NEW func \in Cell, Becomes(Register(Dict, name, flags, func)), UNCHANGED stack
    PROVE  DictInv' /\ Untouched
  <1>1. IsDict(Dict) /\ Dict.latest \in Cell /\ stack \in Seq(Cell) /\ Len(stack) <= StackSize
    BY DictIsDict DEF DictInv, WordsTypeOK, Depth
  <1> DEFINE e == Header(Dict, name, F_BUILTIN + flags)
  <1>2. Grows(Dict, e)
    BY <1>1, HeaderGrows
  <1> HIDE DEF e
  <1>3. Grows(e, PlaceCell(e, func))
    BY <1>2, PlaceCellGrows DEF Grows
  <1>4. Grows(Dict, PlaceCell(e, func))
    BY <1>1, <1>2, <1>3, GrowsTwice
  <1>5. Register(Dict, name, flags, func) = PlaceCell(e, func)
    BY DEF Register, e
  <1> QED BY <1>1, <1>4, <1>5, BecomesKeeps

\* The only byte that IMMEDIATE changes is the flags of the latest entry.
LEMMA ImmediateKeeps ==
    ASSUME DictInv, Immediate
    PROVE  /\ DictInv'
           /\ \A a \in Address : mem'[a] # mem[a] =>
                 a = latest + CellSize /\ mem'[a] = mem[a] + F_IMMEDIATE
  <1>1. /\ latest + CellSize \in Address /\ mem \in [Address -> Byte]
    BY Sizes, SmallCells DEF DictInv, LatestIs, WordsTypeOK, Address
  <1>2. CASE UNCHANGED mem
    BY <1>2 DEF Immediate, DictInv, WordsTypeOK, Depth, LatestIs
  <1>3. CASE /\ ~ IsImmediate(latest)
             /\ mem' = [mem EXCEPT ![latest + CellSize] = mem[latest + CellSize] + F_IMMEDIATE]
    <2> DEFINE b == mem[latest + CellSize]
    <2>1. b \in Byte
      BY <1>1
    <2>2. b % 2 # 1
      <3>1. b \div 1 = b
        BY <2>1, Sizes DEF Byte
      <3> QED BY <1>3, <3>1 DEF IsImmediate, HasFlag, F_IMMEDIATE
    <2>3. b + 1 \in Byte
      <3> HIDE DEF b
      <3> QED BY <2>1, <2>2, Sizes DEF Byte
    <2>4. /\ mem' \in [Address -> Byte]
          /\ \A a \in Address : mem'[a] # mem[a] =>
                a = latest + CellSize /\ mem'[a] = mem[a] + F_IMMEDIATE
      BY <1>1, <1>3, <2>3 DEF F_IMMEDIATE
    <2> QED BY <2>4 DEF Immediate, DictInv, WordsTypeOK, Depth, LatestIs
  <1> QED BY <1>2, <1>3 DEF Immediate
=============================================================================
