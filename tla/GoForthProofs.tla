--------------------------- MODULE GoForthProofs ---------------------------
(***************************************************************************)
(* What goforth keeps and what it implements, in three parts.              *)
(*                                                                         *)
(* The data words, for every size of memory, width of a byte and set of    *)
(* literals and names.                                                     *)
(*                                                                         *)
(* The interpreter, for every set of inputs: the types of its variables,   *)
(* the agreement of its loop stack with Go's call stack, and the range of  *)
(* every position it remembers.  The three are proved together, as one     *)
(* inductive invariant: a word that is executed moves to a position found  *)
(* in the dictionary or on a stack, and the loop stack can be popped       *)
(* because it is as high as the number of do_ calls that have not          *)
(* returned.                                                               *)
(*                                                                         *)
(* The refinement, for every program, number of runs and set of numbers:   *)
(* goforth implements ForthSemantics but for the steps GoRefinement lists. *)
(* The searches of goforth count words between two positions; the machine  *)
(* with jumps counts those that are code.  Where no comment, text or name  *)
(* hides a word, the two counts are of the same set.  Then each word is    *)
(* shown to take the abstract machine from one position to the next.       *)
(***************************************************************************)
EXTENDS GoRefinement, CellsProofs, FiniteSetTheorems

-----------------------------------------------------------------------------
(* Sequences of cells.                                                     *)

LEMMA SmallCells ==
    /\ CellSize \in Cell /\ 0 \in Cell /\ 1 \in Cell /\ -1 \in Cell
    /\ Byte \subseteq Cell /\ CellSize = 2
    /\ MaxInt \in Nat /\ MinInt \in Int /\ CellBase \in Nat /\ CellBase > 0
    /\ CellBase = 2 * (MaxInt + 1) /\ MinInt = -MaxInt - 1
    /\ ByteBase \in Nat /\ ByteBase > 0
    /\ MemSize \in Nat /\ MemSize >= 2 /\ MemSize + 2 <= MaxInt
  <1>1. PICK h \in Nat : /\ CellBase = 2 * h /\ MinInt = -h /\ MaxInt = h - 1
                         /\ h >= ByteBase /\ ByteBase >= 2
    BY CellRange
  <1>2. /\ ByteBase \in Nat /\ MemSize \in Nat /\ MemSize >= 2
        /\ MemSize + 2 <= MaxInt
    BY CellsAssumption, GoWordsAssumption DEF CellSize
  <1> QED BY <1>1, <1>2 DEF Cell, Byte, CellSize

\* Popping n values off a stack leaves a stack of the same kind.
LEMMA PrefixOfSeq ==
    ASSUME NEW S, NEW s \in Seq(S), NEW n \in Nat, n <= Len(s)
    PROVE  SubSeq(s, 1, Len(s) - n) \in Seq(S)
  OBVIOUS

\* The top values of a stack of cells are cells.
LEMMA TopsAreCells ==
    ASSUME WordsTypeOK
    PROVE  /\ Depth \in Nat
           /\ Depth >= 1 => Top \in Cell
           /\ Depth >= 2 => Second \in Cell
           /\ returnStack # <<>> => /\ RTop \in Cell
                                    /\ RRest \in Seq(Cell)
           /\ \A n \in Nat : n <= Depth => Rest(n) \in Seq(Cell)
  <1>1. dataStack \in Seq(Cell) /\ returnStack \in Seq(Cell)
    BY DEF WordsTypeOK
  <1>2. \A n \in Nat : n <= Depth => Rest(n) \in Seq(Cell)
    BY <1>1, PrefixOfSeq DEF Depth, Rest
  <1>3. ASSUME returnStack # <<>>
        PROVE  RTop \in Cell /\ RRest \in Seq(Cell)
    <2>1. Len(returnStack) \in Nat /\ Len(returnStack) >= 1
      BY <1>1, <1>3
    <2> QED BY <1>1, <2>1, PrefixOfSeq DEF RTop, RRest
  <1> QED BY <1>1, <1>2, <1>3 DEF Depth, Top, Second

-----------------------------------------------------------------------------
(* The ways a word can end.                                                *)

LEMMA StopsTyped ==
    ASSUME WordsTypeOK, NEW s \in Statuses, Stops(s)
    PROVE  WordsTypeOK'
  BY DEF Stops, WordsTypeOK

LEMMA FailTyped == WordsTypeOK /\ (Fail \/ Crash \/ Bye) => WordsTypeOK'
  BY StopsTyped DEF Fail, Crash, Bye, Statuses

LEMMA ReplaceTyped ==
    ASSUME WordsTypeOK, NEW n \in Nat, NEW vals,
           Depth >= n => vals \in Seq(Cell), Replace(n, vals)
    PROVE  WordsTypeOK'
  <1>1. CASE Depth < n /\ Fail
    BY <1>1, FailTyped
  <1>2. CASE /\ Depth >= n
             /\ dataStack' = Rest(n) \o vals
             /\ UNCHANGED <<returnStack, memory, memptr, dict, stdout, status>>
    <2>1. Rest(n) \in Seq(Cell)
      BY <1>2, TopsAreCells
    <2>2. dataStack' \in Seq(Cell)
      BY <1>2, <2>1
    <2> QED BY <1>2, <2>2 DEF WordsTypeOK
  <1> QED BY <1>1, <1>2 DEF Replace, Needs

LEMMA PushTyped ==
    ASSUME WordsTypeOK, NEW v \in Cell, Push(v)
    PROVE  WordsTypeOK'
  <1>1. <<v>> \in Seq(Cell)
    OBVIOUS
  <1> QED BY <1>1, ReplaceTyped DEF Push

LEMMA WriteTyped ==
    ASSUME WordsTypeOK, NEW n \in Nat, n <= Depth, NEW item \in Output,
           Write(n, item)
    PROVE  WordsTypeOK'
  <1>1. dataStack' \in Seq(Cell)
    BY TopsAreCells DEF Write
  <1>2. stdout' \in Seq(Output)
    BY DEF Write, WordsTypeOK
  <1> QED BY <1>1, <1>2 DEF Write, WordsTypeOK

-----------------------------------------------------------------------------
(* The groups of words.                                                    *)

LEMMA StackWordsTyped ==
    ASSUME WordsTypeOK,
           \/ Drop \/ Drop2 \/ Dup \/ Dup2 \/ Swap \/ Over \/ Clearstack
           \/ ToR \/ FromR \/ CopyFromR \/ DropR
    PROVE  WordsTypeOK'
  <1> USE TopsAreCells
  <1>0. <<>> \in Seq(Cell)
    OBVIOUS
  <1>1. CASE Drop
    BY <1>0, <1>1, ReplaceTyped DEF Drop
  <1>2. CASE Drop2
    BY <1>0, <1>2, ReplaceTyped DEF Drop2
  <1>3. CASE Dup
    <2>1. Depth >= 1 => <<Top, Top>> \in Seq(Cell) OBVIOUS
    <2> QED BY <1>3, <2>1, ReplaceTyped DEF Dup
  <1>4. CASE Dup2
    <2>1. Depth >= 2 => <<Second, Top, Second, Top>> \in Seq(Cell) OBVIOUS
    <2> QED BY <1>4, <2>1, ReplaceTyped DEF Dup2
  <1>5. CASE Swap
    <2>1. Depth >= 2 => <<Top, Second>> \in Seq(Cell) OBVIOUS
    <2> QED BY <1>5, <2>1, ReplaceTyped DEF Swap
  <1>6. CASE Over
    <2>1. Depth >= 2 => <<Second, Top, Second>> \in Seq(Cell) OBVIOUS
    <2> QED BY <1>6, <2>1, ReplaceTyped DEF Over
  <1>7. CASE Clearstack
    BY <1>0, <1>7, ReplaceTyped DEF Clearstack
  <1>8. CASE ToR
    <2>1. CASE Depth < 1 /\ Fail
      BY <2>1, FailTyped
    <2>2. CASE /\ Depth >= 1
               /\ dataStack' = Rest(1)
               /\ returnStack' = Append(returnStack, Top)
               /\ UNCHANGED <<memory, memptr, dict, stdout, status>>
      <3>1. Rest(1) \in Seq(Cell) BY <2>2
      <3>2. Top \in Cell BY <2>2
      <3> QED BY <2>2, <3>1, <3>2 DEF WordsTypeOK
    <2> QED BY <1>8, <2>1, <2>2 DEF ToR, Needs
  <1>9. CASE FromR
    <2>1. CASE returnStack = <<>>
      BY <1>9, <2>1, FailTyped DEF FromR
    <2>2. CASE returnStack # <<>>
      <3>1. /\ returnStack' = RRest /\ dataStack' = Append(dataStack, RTop)
            /\ UNCHANGED <<memory, memptr, dict, stdout, status>>
        BY <1>9, <2>2 DEF FromR
      <3>2. Append(dataStack, RTop) \in Seq(Cell)
        BY <2>2 DEF WordsTypeOK
      <3> QED BY <2>2, <3>1, <3>2 DEF WordsTypeOK
    <2> QED BY <2>1, <2>2
  <1>10. CASE CopyFromR
    BY <1>10, FailTyped, PushTyped DEF CopyFromR
  <1>11. CASE DropR
    BY <1>11, FailTyped DEF DropR, WordsTypeOK
  <1> QED BY <1>1, <1>2, <1>3, <1>4, <1>5, <1>6, <1>7, <1>8, <1>9, <1>10, <1>11

LEMMA UnopResultIsCell ==
    ASSUME NEW op \in UnopWords, NEW v \in Cell
    PROVE  UnopResult(op, v) \in Cell
  <1>1. v \in Int /\ v + 1 \in Int /\ v - 1 \in Int
    BY SmallCells DEF Cell
  <1>2. -v - 1 \in Cell
    BY SmallCells DEF Cell
  <1>3. /\ Wrap(v + 1) \in Cell /\ Wrap(v - 1) \in Cell
    BY <1>1, WrapIsCell
  <1>4. Flag(v = 0) \in Cell
    BY SmallCells DEF Flag
  <1> QED BY <1>2, <1>3, <1>4 DEF UnopResult, UnopWords

LEMMA BinopResultsAreCells ==
    ASSUME NEW op \in BinopWords, NEW v1 \in Cell, NEW v2 \in Cell,
           ~ (op \in {"MOD", "/"} /\ v2 = 0)
    PROVE  BinopResults(op, v1, v2) \subseteq Cell
  <1>1. v1 \in Int /\ v2 \in Int
    BY SmallCells DEF Cell
  <1>2. v1 + v2 \in Int /\ v1 - v2 \in Int /\ v1 * v2 \in Int
    BY <1>1
  <1>3. v2 # 0 => Remainder(v1, v2) \in Int /\ Quotient(v1, v2) \in Int
    BY <1>1, QuotientIsInt
  <1>4. Ands(v1, v2) \subseteq Cell /\ Ors(v1, v2) \subseteq Cell
    BY FromBytesIsCell DEF Ands, Ors, AndBytes, OrBytes
  <1>5. /\ Wrap(v1 + v2) \in Cell /\ Wrap(v1 - v2) \in Cell
        /\ Wrap(v1 * v2) \in Cell
    BY <1>2, WrapIsCell
  <1>6. v2 # 0 => /\ Wrap(Remainder(v1, v2)) \in Cell
                  /\ Wrap(Quotient(v1, v2)) \in Cell
    BY <1>3, WrapIsCell
  <1>7. /\ Flag(v1 = v2) \in Cell /\ Flag(v1 # v2) \in Cell
        /\ Flag(v1 < v2) \in Cell /\ Flag(v1 > v2) \in Cell
    BY SmallCells DEF Flag
  <1> QED BY <1>4, <1>5, <1>6, <1>7 DEF BinopResults, BinopWords

LEMMA ArithmeticTyped ==
    ASSUME WordsTypeOK,
           \/ \E op \in UnopWords : Unop(op)
           \/ \E op \in BinopWords : Binop(op)
           \/ CellWord \/ CellPlus \/ CellsWord \/ CharPlus \/ Chars
    PROVE  WordsTypeOK'
  <1> USE TopsAreCells
  <1>0. Depth >= 1 => /\ Top + CellSize \in Int /\ Top * CellSize \in Int
                      /\ Top + 1 \in Int
    BY SmallCells DEF Cell
  <1>1. ASSUME NEW op \in UnopWords, Unop(op) PROVE WordsTypeOK'
    <2>1. Depth >= 1 => <<UnopResult(op, Top)>> \in Seq(Cell)
      BY UnopResultIsCell
    <2> QED BY <1>1, <2>1, ReplaceTyped DEF Unop
  <1>2. ASSUME NEW op \in BinopWords, Binop(op) PROVE WordsTypeOK'
    <2>1. CASE Fail
      BY <2>1, FailTyped
    <2>2. ASSUME Depth >= 2, ~ (op \in {"MOD", "/"} /\ Top = 0),
                 NEW r \in BinopResults(op, Second, Top), Replace(2, <<r>>)
          PROVE  WordsTypeOK'
      <3>1. r \in Cell
        BY <2>2, BinopResultsAreCells
      <3>2. <<r>> \in Seq(Cell)
        BY <3>1
      <3> QED BY <2>2, <3>2, ReplaceTyped
    <2> QED BY <1>2, <2>1, <2>2 DEF Binop, Needs
  <1>3. CASE CellWord
    BY <1>3, PushTyped, SmallCells DEF CellWord
  <1>4. CASE CellPlus
    <2>1. Depth >= 1 => <<Wrap(Top + CellSize)>> \in Seq(Cell)
      BY <1>0, WrapIsCell
    <2> QED BY <1>4, <2>1, ReplaceTyped DEF CellPlus
  <1>5. CASE CellsWord
    <2>1. Depth >= 1 => <<Wrap(Top * CellSize)>> \in Seq(Cell)
      BY <1>0, WrapIsCell
    <2> QED BY <1>5, <2>1, ReplaceTyped DEF CellsWord
  <1>6. CASE CharPlus
    <2>1. Depth >= 1 => <<Wrap(Top + 1)>> \in Seq(Cell)
      BY <1>0, WrapIsCell
    <2> QED BY <1>6, <2>1, ReplaceTyped DEF CharPlus
  <1>7. CASE Chars
    <2>1. Depth >= 1 => <<Top>> \in Seq(Cell)
      OBVIOUS
    <2> QED BY <1>7, <2>1, ReplaceTyped DEF Chars
  <1> QED BY <1>1, <1>2, <1>3, <1>4, <1>5, <1>6, <1>7

\* A cell of memory that ends within memory.
LEMMA CellAtIsCell ==
    ASSUME WordsTypeOK, NEW a \in Nat, a + CellSize <= MemSize
    PROVE  CellAt(a) \in Cell
  <1>1. a \in Address /\ a + 1 \in Address
    BY SmallCells DEF Address
  <1>2. memory[a] \in Byte /\ memory[a + 1] \in Byte
    BY <1>1 DEF WordsTypeOK
  <1> QED BY <1>2, FromBytesIsCell DEF CellAt

LEMMA PutCellTyped ==
    ASSUME WordsTypeOK, NEW a \in Nat, NEW v \in Cell, PutCell(a, v)
    PROVE  memory' \in [Address -> Byte]
  <1>1. \A b \in Address : b - a \in Int /\ ByteOf(v, b - a) \in Byte
    BY SmallCells, ByteOfIsByte DEF Address
  <1>2. \A b \in Address : memory[b] \in Byte
    BY DEF WordsTypeOK
  <1> QED BY <1>1, <1>2 DEF PutCell

LEMMA StoresTyped ==
    ASSUME WordsTypeOK, NEW a \in Nat, NEW v \in Cell, Depth >= 2, Stores(a, v)
    PROVE  WordsTypeOK'
  <1>1. memory' \in [Address -> Byte]
    BY PutCellTyped DEF Stores
  <1>2. dataStack' \in Seq(Cell)
    BY TopsAreCells DEF Stores
  <1> QED BY <1>1, <1>2 DEF Stores, WordsTypeOK

LEMMA MemoryAccessTyped ==
    ASSUME WordsTypeOK,
           \/ Exclamation \/ PlusExclamation \/ At \/ Question \/ CAt \/ CExclamation
    PROVE  WordsTypeOK'
  <1> USE TopsAreCells
  <1>0. memptr \in Int /\ (Top \in 0 .. memptr - 1 => Top \in Nat)
    BY SmallCells DEF WordsTypeOK, Cell
  <1>1. CASE Fail \/ Crash
    BY <1>1, FailTyped
  <1>2. CASE Exclamation
    <2>1. CASE Depth >= 2 /\ Top \in Nat /\ Stores(Top, Second)
      BY <2>1, StoresTyped
    <2> QED BY <1>0, <1>1, <1>2, <2>1 DEF Exclamation, Access, Needs
  <1>3. CASE PlusExclamation
    <2>1. CASE /\ Depth >= 2 /\ Top \in Nat /\ Top + CellSize <= MemSize
               /\ Stores(Top, Wrap(CellAt(Top) + Second))
      <3>1. CellAt(Top) \in Int /\ Second \in Int
        BY <2>1, CellAtIsCell, SmallCells DEF Cell
      <3>2. Wrap(CellAt(Top) + Second) \in Cell
        BY <3>1, WrapIsCell
      <3> QED BY <2>1, <3>2, StoresTyped
    <2> QED BY <1>0, <1>1, <1>3, <2>1 DEF PlusExclamation, Access, Needs
  <1>4. CASE At
    <2>1. CASE /\ Depth >= 1 /\ Top \in Nat /\ Top + CellSize <= MemSize
               /\ Replace(1, <<CellAt(Top)>>)
      <3>1. <<CellAt(Top)>> \in Seq(Cell)
        BY <2>1, CellAtIsCell
      <3> QED BY <2>1, <3>1, ReplaceTyped
    <2> QED BY <1>0, <1>1, <1>4, <2>1 DEF At, Access, Needs
  <1>5. CASE Question
    <2>1. CASE /\ Depth >= 1 /\ Top \in Nat /\ Top + CellSize <= MemSize
               /\ Write(1, <<"num", CellAt(Top)>>)
      <3>1. <<"num", CellAt(Top)>> \in Output
        BY <2>1, CellAtIsCell DEF Output
      <3> QED BY <2>1, <3>1, WriteTyped
    <2> QED BY <1>0, <1>1, <1>5, <2>1 DEF Question, Access, Needs
  <1>6. CASE CAt
    <2>1. CASE /\ Depth >= 1 /\ Top \in Nat /\ Top + 1 <= MemSize
               /\ Replace(1, <<memory[Top]>>)
      <3>1. memory[Top] \in Cell
        <4>1. Top \in Address BY <2>1, SmallCells DEF Address
        <4> QED BY <4>1, SmallCells DEF WordsTypeOK
      <3>2. <<memory[Top]>> \in Seq(Cell)
        BY <3>1
      <3> QED BY <2>1, <3>2, ReplaceTyped
    <2> QED BY <1>0, <1>1, <1>6, <2>1 DEF CAt, Access, Needs
  <1>7. CASE CExclamation
    <2>1. CASE /\ Depth >= 2
               /\ memory' = [memory EXCEPT ![Top] = Second % ByteBase]
               /\ dataStack' = Rest(2)
               /\ UNCHANGED <<returnStack, memptr, dict, stdout, status>>
      <3>1. Second % ByteBase \in Byte
        BY <2>1, SmallCells DEF Cell, Byte
      <3>2. memory' \in [Address -> Byte]
        BY <2>1, <3>1 DEF WordsTypeOK
      <3> QED BY <2>1, <3>2 DEF WordsTypeOK
    <2> QED BY <1>1, <1>7, <2>1 DEF CExclamation, Access, Needs
  <1> QED BY <1>2, <1>3, <1>4, <1>5, <1>6, <1>7

LEMMA AllotmentTyped ==
    ASSUME WordsTypeOK, Here \/ Allot \/ Comma
    PROVE  WordsTypeOK'
  <1> USE TopsAreCells
  <1>0. memptr \in Cell /\ memptr \in Int /\ (Depth >= 1 => Top \in Int)
    BY SmallCells DEF WordsTypeOK, Cell
  <1>1. CASE Fail \/ Crash
    BY <1>1, FailTyped
  <1>2. CASE Here
    BY <1>0, <1>2, PushTyped DEF Here
  <1>3. CASE Allot
    <2>1. CASE /\ Depth >= 1
               /\ memptr' = Wrap(memptr + Top)
               /\ dataStack' = Rest(1)
               /\ UNCHANGED <<returnStack, memory, dict, stdout, status>>
      <3>1. memptr' \in Cell
        BY <1>0, <2>1, WrapIsCell
      <3>2. dataStack' \in Seq(Cell)
        BY <2>1
      <3> QED BY <2>1, <3>1, <3>2 DEF WordsTypeOK
    <2> QED BY <1>1, <1>3, <2>1 DEF Allot, Needs
  <1>4. CASE Comma
    <2>1. CASE /\ Depth >= 1 /\ memptr \in Address
               /\ PutCell(memptr, Top)
               /\ memptr' = Wrap(memptr + CellSize)
               /\ dataStack' = Rest(1)
               /\ UNCHANGED <<returnStack, dict, stdout, status>>
      <3>1. memptr' \in Cell
        BY <1>0, <2>1, SmallCells, WrapIsCell
      <3>2. dataStack' \in Seq(Cell)
        BY <2>1
      <3>3. memory' \in [Address -> Byte]
        <4>1. memptr \in Nat /\ Top \in Cell
          BY <2>1, SmallCells DEF Address
        <4> QED BY <2>1, <4>1, PutCellTyped
      <3> QED BY <2>1, <3>1, <3>2, <3>3 DEF WordsTypeOK
    <2> QED BY <1>1, <1>4, <2>1 DEF Comma, Needs
  <1> QED BY <1>2, <1>3, <1>4

LEMMA DefineTyped ==
    ASSUME WordsTypeOK, NEW name \in STRING, NEW entry \in Entry, Define(name, entry)
    PROVE  /\ DOMAIN dict' \subseteq STRING
           /\ dict' = [w \in DOMAIN dict' |-> dict'[w]]
           /\ \A w \in DOMAIN dict' : dict'[w] \in Entry
  BY DEF WordsTypeOK, Define

LEMMA ValueIsEntry == \A v \in Cell : Value(v) \in Entry
  BY DEF Value, Entry

LEMMA NamingWordTyped ==
    ASSUME WordsTypeOK, NEW word, NEW name \in STRING, NamingWord(word, name),
           word \in {"CHAR", "[CHAR]"} => FirstByte[name] \in Byte
    PROVE  WordsTypeOK'
  <1> USE TopsAreCells
  <1>0. memptr \in Cell /\ memptr \in Int
    BY SmallCells DEF WordsTypeOK, Cell
  <1>1. CASE Constant(name)
    <2>1. CASE Depth < 1 /\ Fail
      BY <2>1, FailTyped
    <2>2. CASE /\ Depth >= 1 /\ Define(name, Value(Top)) /\ dataStack' = Rest(1)
               /\ UNCHANGED <<returnStack, memory, memptr, stdout, status>>
      <3>1. Value(Top) \in Entry
        BY <2>2, ValueIsEntry
      <3>2. /\ DOMAIN dict' \subseteq STRING
            /\ dict' = [w \in DOMAIN dict' |-> dict'[w]]
            /\ \A w \in DOMAIN dict' : dict'[w] \in Entry
        BY <2>2, <3>1, DefineTyped
      <3>3. dataStack' \in Seq(Cell)
        BY <2>2
      <3> QED BY <2>2, <3>2, <3>3 DEF WordsTypeOK
    <2> QED BY <1>1, <2>1, <2>2 DEF Constant, Needs
  <1>2. CASE Create(name) \/ Variable(name)
    <2>1. /\ Define(name, Value(memptr))
          /\ memptr' \in {memptr, Wrap(memptr + CellSize)}
          /\ UNCHANGED <<dataStack, returnStack, memory, stdout, status>>
      BY <1>2 DEF Create, Variable
    <2>2. Value(memptr) \in Entry
      BY <1>0, ValueIsEntry
    <2>3. /\ DOMAIN dict' \subseteq STRING
          /\ dict' = [w \in DOMAIN dict' |-> dict'[w]]
          /\ \A w \in DOMAIN dict' : dict'[w] \in Entry
      BY <2>1, <2>2, DefineTyped
    <2>4. memptr' \in Cell
      BY <1>0, <2>1, SmallCells, WrapIsCell
    <2> QED BY <2>1, <2>3, <2>4 DEF WordsTypeOK
  <1>3. CASE word \in {"CHAR", "[CHAR]"} /\ Char(name)
    BY <1>3, PushTyped, SmallCells DEF Char
  <1> QED BY <1>1, <1>2, <1>3 DEF NamingWord

LEMMA OutputWordsTyped ==
    ASSUME WordsTypeOK, Dot \/ DotS \/ Emit \/ Bye
    PROVE  WordsTypeOK'
  <1> USE TopsAreCells
  <1>1. CASE Fail \/ Bye
    BY <1>1, FailTyped
  <1>2. CASE Dot
    <2>1. Depth >= 1 => <<"num", Top>> \in Output
      BY DEF Output
    <2>2. CASE Depth >= 1 /\ Write(1, <<"num", Top>>)
      BY <2>1, <2>2, WriteTyped
    <2> QED BY <1>1, <1>2, <2>2 DEF Dot, Needs
  <1>3. CASE DotS
    <2>1. <<"stack", dataStack>> \in Output
      BY DEF Output, WordsTypeOK
    <2> QED BY <1>3, <2>1, WriteTyped DEF DotS
  <1>4. CASE Emit
    <2>1. Depth >= 1 => <<"char", Top>> \in Output
      BY DEF Output
    <2>2. CASE Depth >= 1 /\ Write(1, <<"char", Top>>)
      BY <2>1, <2>2, WriteTyped
    <2> QED BY <1>1, <1>4, <2>2 DEF Emit, Needs
  <1> QED BY <1>1, <1>2, <1>3, <1>4

LEMMA DataWordTyped ==
    ASSUME WordsTypeOK, NEW w, DataWord(w)
    PROVE  WordsTypeOK'
  <1>1. \/ \/ Drop \/ Drop2 \/ Dup \/ Dup2 \/ Swap \/ Over \/ Clearstack
           \/ ToR \/ FromR \/ CopyFromR \/ DropR
        \/ \/ \E op \in UnopWords : Unop(op)
           \/ \E op \in BinopWords : Binop(op)
           \/ CellWord \/ CellPlus \/ CellsWord \/ CharPlus \/ Chars
        \/ Exclamation \/ PlusExclamation \/ At \/ Question \/ CAt \/ CExclamation
        \/ Here \/ Allot \/ Comma
        \/ Dot \/ DotS \/ Emit \/ Bye
    BY DEF DataWord, PlainWord
  <1> QED BY <1>1, StackWordsTyped, ArithmeticTyped, MemoryAccessTyped,
             AllotmentTyped, OutputWordsTyped

-----------------------------------------------------------------------------
LEMMA WordsInitTyped == WordsInit => WordsTypeOK
  <1> SUFFICES ASSUME WordsInit PROVE WordsTypeOK
    OBVIOUS
  <1>1. memory \in [Address -> Byte]
    BY SmallCells DEF WordsInit, Byte
  <1>2. /\ dataStack \in Seq(Cell) /\ returnStack \in Seq(Cell)
        /\ stdout \in Seq(Output) /\ memptr \in Cell /\ status \in Statuses
    BY SmallCells DEF WordsInit, Statuses
  <1>3. DOMAIN dict = {} /\ dict = [w \in DOMAIN dict |-> dict[w]]
    BY DEF WordsInit
  <1> QED BY <1>1, <1>2, <1>3 DEF WordsTypeOK

LEMMA WordsStepTyped == WordsTypeOK /\ [WordsNext]_wordVars => WordsTypeOK'
  <1> SUFFICES ASSUME WordsTypeOK, [WordsNext]_wordVars PROVE WordsTypeOK'
    OBVIOUS
  <1>1. CASE UNCHANGED wordVars
    BY <1>1 DEF wordVars, WordsTypeOK
  <1>2. ASSUME NEW v \in Literals, Push(v) PROVE WordsTypeOK'
    BY <1>2, LiteralsAssumption, PushTyped
  <1>3. ASSUME NEW w \in DataWords, DataWord(w) PROVE WordsTypeOK'
    BY <1>3, DataWordTyped
  <1>4. ASSUME NEW w \in NamingWords, NEW name \in Names, NamingWord(w, name)
        PROVE  WordsTypeOK'
    <2>1. name \in STRING /\ FirstByte[name] \in Byte
      BY LiteralsAssumption
    <2> QED BY <1>4, <2>1, NamingWordTyped
  <1>5. ASSUME NEW name \in DOMAIN dict, dict[name].kind = "value",
               Push(dict[name].val)
        PROVE  WordsTypeOK'
    <2>1. dict[name].val \in Cell
      BY <1>5 DEF WordsTypeOK, Entry
    <2> QED BY <1>5, <2>1, PushTyped
  <1> QED BY <1>1, <1>2, <1>3, <1>4, <1>5 DEF WordsNext

\* Whatever sequence of data words is run, the stacks, the memory, the
\* dictionary and the output hold int64 cells and bytes, and memptr is an
\* int64: no operator of the interpreter leaves the type of its variables.
THEOREM WordsTypes == WordsSpec => []WordsTypeOK
  BY WordsInitTyped, WordsStepTyped, PTL DEF WordsSpec

-----------------------------------------------------------------------------
(* Memory and its bounds.                                                  *)

\* What becomes of memptr: it is moved by a number of bytes, and the sum
\* wraps around, or the word is not one that allots.
LEMMA OnlyThreeWordsAllot ==
    ASSUME WordsTypeOK, [WordsNext]_wordVars, memptr' # memptr
    PROVE  \E n \in Int : /\ n >= 0 /\ n <= MaxInt
                          /\ memptr' = Wrap(memptr + n)
  <1> USE TopsAreCells
  <1>0. CellSize \in Int /\ CellSize >= 0 /\ CellSize <= MaxInt
    BY SmallCells DEF Cell
  <1>1. CASE Allot
    <2>1. Depth >= 1 /\ Top >= 0 /\ memptr' = Wrap(memptr + Top)
      BY <1>1 DEF Allot, Needs, Fail, Stops
    <2>2. Top \in Int /\ Top <= MaxInt
      BY <2>1, SmallCells DEF Cell
    <2> QED BY <2>1, <2>2
  <1>2. CASE Comma
    BY <1>0, <1>2 DEF Comma, Needs, Fail, Crash, Stops
  <1>3. ASSUME NEW name, Variable(name)
        PROVE  memptr' = Wrap(memptr + CellSize)
    BY <1>3 DEF Variable
  <1>4. ~ Allot /\ ~ Comma /\ (\A name : ~ Variable(name)) => FALSE
    <2> SUFFICES ASSUME ~ Allot, ~ Comma, \A name : ~ Variable(name)
                 PROVE  memptr' = memptr
      OBVIOUS
    <2> USE DEF Replace, Needs, Fail, Crash, Stops, Write, Push
    <2>1. CASE UNCHANGED wordVars
      BY <2>1 DEF wordVars
    <2>2. ASSUME NEW v, Push(v) PROVE memptr' = memptr
      BY <2>2
    <2>3. ASSUME NEW w, DataWord(w) PROVE memptr' = memptr
      <3>1. CASE \/ Drop \/ Drop2 \/ Dup \/ Dup2 \/ Swap \/ Over \/ Clearstack
                 \/ ToR \/ FromR \/ CopyFromR \/ DropR
        BY <3>1 DEF Drop, Drop2, Dup, Dup2, Swap, Over, Clearstack,
                    ToR, FromR, CopyFromR, DropR
      <3>2. CASE \/ \E op \in UnopWords : Unop(op)
                 \/ \E op \in BinopWords : Binop(op)
                 \/ CellWord \/ CellPlus \/ CellsWord \/ CharPlus \/ Chars
        BY <3>2 DEF Unop, Binop, CellWord, CellPlus, CellsWord, CharPlus, Chars
      <3>3. CASE Exclamation \/ PlusExclamation \/ At \/ Question \/ CAt \/ CExclamation
        BY <3>3 DEF Exclamation, PlusExclamation, At, Question, CAt, CExclamation,
                    Access, Stores
      <3>4. CASE Here \/ Dot \/ DotS \/ Emit \/ Bye
        BY <3>4 DEF Here, Dot, DotS, Emit, Bye
      <3> QED BY <2>3, <3>1, <3>2, <3>3, <3>4 DEF DataWord, PlainWord
    <2>4. ASSUME NEW w, NEW name, NamingWord(w, name) PROVE memptr' = memptr
      BY <2>4 DEF NamingWord, Constant, Create, Char
    <2> QED BY <2>1, <2>2, <2>3, <2>4 DEF WordsNext
  <1> QED BY <1>0, <1>1, <1>2, <1>3, <1>4

\* HERE goes down only when the addition in ALLOT, VARIABLE or "," wraps
\* around (ALLOT rejects a negative count), and it is negative afterwards.
THEOREM AllottedBytes == WordsSpec => AllottedBytesAreKept
  <1>1. ASSUME WordsTypeOK, [WordsNext]_wordVars
        PROVE  [memptr' < memptr => memptr' < 0]_wordVars
    <2> SUFFICES ASSUME memptr' # memptr PROVE memptr' < memptr => memptr' < 0
      <3>1. memptr \in Int BY <1>1, SmallCells DEF WordsTypeOK, Cell
      <3> QED BY <3>1
    <2>1. PICK n \in Int : /\ n >= 0 /\ n <= MaxInt
                           /\ memptr' = Wrap(memptr + n)
      BY <1>1, OnlyThreeWordsAllot
    <2>2. memptr \in Int /\ memptr >= MinInt /\ memptr <= MaxInt
      BY <1>1, SmallCells DEF WordsTypeOK, Cell
    <2> DEFINE sum == memptr + n
    <2>3. /\ sum \in Int /\ sum >= MinInt /\ sum <= MaxInt + CellBase
          /\ sum >= memptr /\ sum <= MaxInt + MaxInt /\ memptr' = Wrap(sum)
      BY <2>1, <2>2, SmallCells
    <2> HIDE DEF sum
    <2>4. memptr' = IF sum <= MaxInt THEN sum ELSE sum - CellBase
      BY <2>3, WrapOnce
    <2> QED BY <2>2, <2>3, <2>4, SmallCells
  <1> QED BY <1>1, WordsTypes, PTL DEF WordsSpec, AllottedBytesAreKept

\* An access that is let through begins below memptr, so when the Go runtime
\* finds it out of range the last cell of memory is allotted; and "," has
\* compared memptr + CellSize with the size of memory, so when it is then out
\* of range memptr is negative.
LEMMA CrashStep ==
    ASSUME WordsTypeOK, WordsNext, status' = "crash"
    PROVE  memptr' \notin 0 .. MemSize - CellSize + 1
  <1> USE TopsAreCells
  <1>0. /\ memptr \in Int /\ status = "running"
        /\ Depth >= 1 => Top \in Int
    BY SmallCells DEF WordsTypeOK, Cell, WordsNext
  <1> DEFINE Past(size) == Top \in 0 .. memptr - 1 /\ Top + size > MemSize
  <1>1. ASSUME Depth >= 1, Past(1) \/ Past(2), Crash
        PROVE  memptr' \notin 0 .. MemSize - CellSize + 1
    <2>1. memptr' = memptr /\ memptr > Top /\ Top > MemSize - 2 /\ Top \in Int
      BY <1>0, <1>1, SmallCells DEF Crash, Stops
    <2> QED BY <1>0, <2>1, SmallCells
  <1>2. CASE Wrap(memptr + CellSize) <= MemSize /\ memptr \notin Address /\ Crash
    <2>1. memptr' = memptr
      BY <1>2 DEF Crash, Stops
    <2> QED BY <1>0, <1>2, <2>1, SmallCells DEF Address
  <1> USE DEF Replace, Needs, Fail, Stops, Write, Push
  <1>3. \/ Exclamation \/ PlusExclamation \/ At \/ Question \/ CAt \/ CExclamation
        \/ Comma
    <2> SUFFICES ASSUME ~ Exclamation, ~ PlusExclamation, ~ At, ~ Question, ~ CAt,
                        ~ CExclamation, ~ Comma
                 PROVE  status' # "crash"
      OBVIOUS
    <2>1. ASSUME NEW w, DataWord(w) PROVE status' # "crash"
      <3>1. CASE \/ Drop \/ Drop2 \/ Dup \/ Dup2 \/ Swap \/ Over \/ Clearstack
                 \/ ToR \/ FromR \/ CopyFromR \/ DropR
        BY <1>0, <3>1 DEF Drop, Drop2, Dup, Dup2, Swap, Over, Clearstack,
                    ToR, FromR, CopyFromR, DropR
      <3>2. CASE \/ \E op \in UnopWords : Unop(op)
                 \/ \E op \in BinopWords : Binop(op)
                 \/ CellWord \/ CellPlus \/ CellsWord \/ CharPlus \/ Chars
        BY <1>0, <3>2 DEF Unop, Binop, CellWord, CellPlus, CellsWord, CharPlus, Chars
      <3>3. CASE Here \/ Dot \/ DotS \/ Emit \/ Bye \/ Allot
        BY <1>0, <3>3 DEF Here, Dot, DotS, Emit, Bye, Allot
      <3> QED BY <2>1, <3>1, <3>2, <3>3 DEF DataWord, PlainWord
    <2>2. ASSUME NEW w, NEW name, NamingWord(w, name) PROVE status' # "crash"
      BY <1>0, <2>2 DEF NamingWord, Constant, Create, Variable, Char
    <2> QED BY <1>0, <2>1, <2>2 DEF WordsNext
  <1>4. CASE Comma
    BY <1>0, <1>2, <1>4 DEF Comma
  <1>5. CASE CAt \/ CExclamation
    <2>1. Depth >= 1 /\ Past(1) /\ Crash
      BY <1>0, <1>5 DEF CAt, CExclamation, Access
    <2> QED BY <1>1, <2>1
  <1>6. CASE Exclamation \/ PlusExclamation \/ At \/ Question
    <2>1. Depth >= 1 /\ Past(2) /\ Crash
      BY <1>0, <1>6, SmallCells DEF Exclamation, PlusExclamation, At, Question, Access, Stores
    <2> QED BY <1>1, <2>1
  <1> QED BY <1>3, <1>4, <1>5, <1>6

\* The Go runtime panics in a memory word only at the edge of memory, or once
\* memptr has wrapped around; elsewhere the word's own check comes first.
THEOREM CrashesAreAtTheEdge == WordsSpec => []CrashOnlyAtTheEdge
  <1>1. WordsInit => CrashOnlyAtTheEdge
    BY DEF WordsInit, CrashOnlyAtTheEdge
  <1>2. WordsTypeOK /\ CrashOnlyAtTheEdge /\ [WordsNext]_wordVars => CrashOnlyAtTheEdge'
    <2>1. CASE UNCHANGED wordVars
      BY <2>1 DEF wordVars, CrashOnlyAtTheEdge
    <2>2. CASE WordsNext
      BY <2>2, CrashStep DEF CrashOnlyAtTheEdge
    <2> QED BY <2>1, <2>2
  <1> QED BY <1>1, <1>2, WordsTypes, PTL DEF WordsSpec

\* A store at an address below memptr, or at memptr when it is then moved on,
\* changes no byte at memptr + CellSize - 1 or beyond.
LEMMA StoreSpill ==
    ASSUME NEW a \in Address, NEW b \in Int, NEW v, PutCell(b, v),
           memory'[a] # memory[a]
    PROVE  a <= b + CellSize - 1
  BY SmallCells DEF PutCell, Address

LEMMA MemoryStep ==
    ASSUME WordsTypeOK, WordsNext, NEW a \in Address, memory'[a] # memory[a]
    PROVE  a < memptr' + CellSize - 1
  <1> USE TopsAreCells
  <1>0. memptr \in Int /\ CellSize = 2 /\ a \in Int
    BY SmallCells DEF WordsTypeOK, Cell, Address
  <1> USE DEF Replace, Needs, Fail, Crash, Stops, Write, Push
  <1>1. Exclamation \/ PlusExclamation \/ CExclamation \/ Comma
    <2> SUFFICES ASSUME ~ Exclamation, ~ PlusExclamation, ~ CExclamation, ~ Comma
                 PROVE  memory' = memory
      OBVIOUS
    <2>1. ASSUME NEW w, DataWord(w) PROVE memory' = memory
      <3>1. CASE \/ Drop \/ Drop2 \/ Dup \/ Dup2 \/ Swap \/ Over \/ Clearstack
                 \/ ToR \/ FromR \/ CopyFromR \/ DropR
        BY <3>1 DEF Drop, Drop2, Dup, Dup2, Swap, Over, Clearstack,
                    ToR, FromR, CopyFromR, DropR
      <3>2. CASE \/ \E op \in UnopWords : Unop(op)
                 \/ \E op \in BinopWords : Binop(op)
                 \/ CellWord \/ CellPlus \/ CellsWord \/ CharPlus \/ Chars
        BY <3>2 DEF Unop, Binop, CellWord, CellPlus, CellsWord, CharPlus, Chars
      <3>3. CASE \/ Here \/ Dot \/ DotS \/ Emit \/ Bye \/ Allot
                 \/ At \/ Question \/ CAt
        BY <3>3 DEF Here, Dot, DotS, Emit, Bye, Allot, At, Question, CAt, Access
      <3> QED BY <2>1, <3>1, <3>2, <3>3 DEF DataWord, PlainWord
    <2>2. ASSUME NEW w, NEW name, NamingWord(w, name) PROVE memory' = memory
      BY <2>2 DEF NamingWord, Constant, Create, Variable, Char
    <2> QED BY <2>1, <2>2 DEF WordsNext
  <1>2. CASE Exclamation \/ PlusExclamation
    <2>1. PICK v : /\ Depth >= 2 /\ Top \in 0 .. memptr - 1
                   /\ PutCell(Top, v) /\ memptr' = memptr
      BY <1>2 DEF Exclamation, PlusExclamation, Access, Stores
    <2>2. Top \in Int /\ Top < memptr
      BY <1>0, <2>1
    <2>3. a <= Top + CellSize - 1
      BY <2>1, <2>2, StoreSpill
    <2> QED BY <1>0, <2>1, <2>2, <2>3
  <1>3. CASE CExclamation
    <2>1. /\ Depth >= 2 /\ Top \in 0 .. memptr - 1 /\ memptr' = memptr
          /\ memory' = [memory EXCEPT ![Top] = Second % ByteBase]
      BY <1>3 DEF CExclamation, Access
    <2>2. memory \in [Address -> Byte]
      BY DEF WordsTypeOK
    <2>3. a = Top
      BY <2>1, <2>2
    <2> QED BY <1>0, <2>1, <2>3
  <1>4. CASE Comma
    <2>1. /\ Depth >= 1 /\ memptr \in Address /\ PutCell(memptr, Top)
          /\ memptr' = Wrap(memptr + CellSize)
      BY <1>4 DEF Comma
    <2>2. a <= memptr + CellSize - 1
      BY <1>0, <2>1, StoreSpill
    <2> DEFINE sum == memptr + CellSize
    <2>3. /\ sum \in Int /\ sum = memptr + 2 /\ sum >= MinInt /\ sum <= MaxInt
          /\ sum <= MaxInt + CellBase
      BY <1>0, <2>1, SmallCells DEF Address
    <2>4. memptr' = sum
      <3>1. memptr' = Wrap(sum) BY <2>1
      <3> HIDE DEF sum
      <3> QED BY <2>3, <3>1, WrapOnce
    <2> QED BY <1>0, <2>2, <2>3, <2>4
  <1> QED BY <1>1, <1>2, <1>3, <1>4

\* A word's own check looks at the first byte of an access only; still no
\* store changes a byte that lies a whole cell past what is allotted.
THEOREM SpillIsBounded == WordsSpec => SpillBounded
  <1>1. ASSUME WordsTypeOK, [WordsNext]_wordVars
        PROVE  [\A a \in Address : memory'[a] # memory[a]
                                      => a < memptr' + CellSize - 1]_wordVars
    BY <1>1, MemoryStep
  <1> QED BY <1>1, WordsTypes, PTL DEF WordsSpec, SpillBounded

-----------------------------------------------------------------------------
(* The interpreter.                                                        *)

Does(c)  == {i \in DOMAIN c : c[i] = "do"}
Balanced == Len(loopStack) = Cardinality(DoFrames)
Typed    == TypeOK /\ input \in Programs \cup LaterPrograms
Inv      == Typed /\ Balanced /\ PositionsAreInInput

-----------------------------------------------------------------------------
(* Go's call stack.                                                        *)

LEMMA DoesFinite ==
    ASSUME NEW c \in Seq(Frames) PROVE IsFiniteSet(Does(c)) /\ Does(c) \subseteq 1 .. Len(c)
  <1>1. Does(c) \subseteq 1 .. Len(c)
    BY DEF Does
  <1>2. IsFiniteSet(1 .. Len(c))
    BY FS_Interval
  <1> QED BY <1>1, <1>2, FS_Subset

\* Returning from if_ loops leaves the do_ loops as they are.
LEMMA UnwindsFrames ==
    ASSUME NEW c \in Seq(Frames), NEW k \in Nat, Unwinds(c, k)
    PROVE  /\ calls' \in Seq(Frames) /\ skippedThenCount' \in Nat
           /\ DoFrames' = Does(c)
  <1>1. PICK n \in 0 .. Len(c) : /\ Returns(c, k, n)
                                 /\ calls' = SubSeq(c, 1, Len(c) - n)
                                 /\ skippedThenCount' = k - n
    BY DEF Unwinds
  <1>2. n <= k /\ \A i \in Len(c) - n + 1 .. Len(c) : c[i] = "if"
    BY <1>1 DEF Returns
  <1>3. calls' \in Seq(Frames) /\ skippedThenCount' \in Nat
    BY <1>1, <1>2, PrefixOfSeq
  <1>4. /\ Len(calls') = Len(c) - n
        /\ \A i \in 1 .. Len(c) - n : calls'[i] = c[i]
    BY <1>1
  <1>5. DoFrames' = {i \in 1 .. Len(c) - n : c[i] = "do"}
    BY <1>3, <1>4 DEF DoFrames
  <1>6. \A i \in 1 .. Len(c) : c[i] = "do" => i \in 1 .. Len(c) - n
    BY <1>2
  <1>7. DoFrames' = Does(c)
    BY <1>5, <1>6 DEF Does
  <1> QED BY <1>3, <1>7

LEMMA WordEndsFrames ==
    ASSUME NEW c \in Seq(Frames), WordEnds(c), skippedThenCount \in Nat
    PROVE  /\ calls' \in Seq(Frames) /\ skippedThenCount' \in Nat
           /\ DoFrames' = Does(c)
  BY UnwindsFrames DEF WordEnds

\* A loop of the three kinds is entered, or the innermost one is left.
LEMMA EntersFrames ==
    ASSUME calls \in Seq(Frames), NEW f \in Frames, Enters(f)
    PROVE  /\ calls' \in Seq(Frames) /\ skippedThenCount' = skippedThenCount
           /\ f # "do" => DoFrames' = DoFrames
           /\ f = "do" => Cardinality(DoFrames') = Cardinality(DoFrames) + 1
  <1> DEFINE n == Len(calls) + 1
  <1>1. calls' = Append(calls, f) /\ skippedThenCount' = skippedThenCount
    BY DEF Enters
  <1>2. /\ calls' \in Seq(Frames) /\ Len(calls') = n /\ calls'[n] = f
        /\ \A i \in 1 .. Len(calls) : calls'[i] = calls[i]
    BY <1>1
  <1>3. DoFrames' = DoFrames \cup (IF f = "do" THEN {n} ELSE {})
    BY <1>2 DEF DoFrames
  <1>4. DoFrames = Does(calls) /\ n \notin DoFrames
    BY DEF DoFrames, Does
  <1>5. IsFiniteSet(DoFrames)
    BY <1>4, DoesFinite
  <1>6. Cardinality(DoFrames \cup {n}) = Cardinality(DoFrames) + 1
    BY <1>4, <1>5, FS_AddElement
  <1> QED BY <1>1, <1>2, <1>3, <1>6

LEMMA CallerFrames ==
    ASSUME calls \in Seq(Frames), calls # <<>>
    PROVE  /\ Caller \in Seq(Frames) /\ Frame = calls[Len(calls)] /\ Frame \in Frames
           /\ Frame # "do" => Does(Caller) = DoFrames
           /\ Frame = "do" => Cardinality(Does(Caller)) = Cardinality(DoFrames) - 1
  <1>0. PICK n \in Nat : n = Len(calls)
    OBVIOUS
  <1>1. n >= 1 /\ Frame = calls[n] /\ Frame \in Frames
    BY <1>0 DEF Frame
  <1>2. Caller \in Seq(Frames)
    BY <1>0, <1>1, PrefixOfSeq DEF Caller
  <1>3. Len(Caller) = n - 1 /\ \A i \in 1 .. n - 1 : Caller[i] = calls[i]
    BY <1>0, <1>1 DEF Caller
  <1>4. Does(Caller) = {i \in 1 .. n - 1 : calls[i] = "do"}
    BY <1>2, <1>3 DEF Does
  <1>5. DoFrames = {i \in 1 .. n : calls[i] = "do"}
    BY <1>0 DEF DoFrames
  <1>6. CASE Frame # "do"
    <2>1. Does(Caller) = DoFrames
      BY <1>1, <1>4, <1>5, <1>6
    <2> QED BY <1>0, <1>1, <1>2, <1>6, <2>1
  <1>7. CASE Frame = "do"
    <2>1. DoFrames = Does(Caller) \cup {n} /\ n \notin Does(Caller)
      <3>1. calls[n] = "do" /\ \A i \in 1 .. n : i = n \/ i \in 1 .. n - 1
        BY <1>1, <1>7
      <3>2. n \notin 1 .. n - 1 /\ 1 .. n - 1 \subseteq 1 .. n /\ n \in 1 .. n
        BY <1>1
      <3> QED BY <1>4, <1>5, <3>1, <3>2
    <2>2. IsFiniteSet(Does(Caller))
      BY <1>2, DoesFinite
    <2>3. Cardinality(DoFrames) = Cardinality(Does(Caller)) + 1
      BY <2>1, <2>2, FS_AddElement
    <2>4. Cardinality(Does(Caller)) \in Nat
      BY <2>2, FS_CardinalityType
    <2>5. Cardinality(Does(Caller)) = Cardinality(DoFrames) - 1
      BY <2>3, <2>4
    <2> QED BY <1>0, <1>1, <1>2, <1>7, <2>5
  <1> QED BY <1>6, <1>7

LEMMA BetweenIsNat ==
    ASSUME NEW p \in Nat, NEW q \in Nat, NEW W PROVE Between(p, q, W) \in Nat
  <1> DEFINE S == {i \in p + 1 .. q - 1 : input[i] \in W}
  <1>1. S \subseteq p + 1 .. q - 1 /\ IsFiniteSet(p + 1 .. q - 1)
    BY FS_Interval
  <1>2. IsFiniteSet(S)
    BY <1>1, FS_Subset
  <1> QED BY <1>2, FS_CardinalityType DEF Between

-----------------------------------------------------------------------------
(* The parts of a step.                                                    *)

\* The positions a step may go to.
LEMMA WordPositions ==
    ASSUME Inv, NEW p \in Nat, NEW q \in WordsAfter(p)
    PROVE  q \in Nat /\ q <= Len(input) /\ q \in DOMAIN input /\ input[q] \in STRING
           /\ q > p
  <1>1. input \in Seq(STRING)
    BY GoForthAssumption DEF Inv, Typed, TypeOK
  <1> QED BY <1>1 DEF WordsAfter

LEMMA InputIsSeq == Inv => input \in Seq(STRING) /\ Len(input) \in Nat
  BY GoForthAssumption DEF Inv, Typed, TypeOK

\* An error leaves the interpreter as it is.
LEMMA FailKeeps ==
    ASSUME Inv, Fail \/ Crash, UNCHANGED controlVars
    PROVE  Inv'
  <1>1. WordsTypeOK'
    BY FailTyped DEF Inv, Typed, TypeOK
  <1>2. UNCHANGED <<dict, input, inputPtr, compileMode, ptrStack, loopStack,
                    skippedThenCount, calls, runs>>
    BY DEF Fail, Crash, Stops, controlVars
  <1>3. Typed'
    BY <1>1, <1>2 DEF Inv, Typed, TypeOK
  <1>4. Balanced'
    BY <1>2 DEF Inv, Balanced, DoFrames
  <1>5. PositionsAreInInput'
    BY <1>2 DEF Inv, PositionsAreInInput
  <1> QED BY <1>3, <1>4, <1>5 DEF Inv

LEMMA AbortsKeeps == ASSUME Inv, Aborts PROVE Inv'
  BY FailKeeps DEF Aborts

\* Every entry that leads into the input leads to a position of it.
EntriesInInput == \A w \in DOMAIN dict : dict[w].kind = "user" => dict[w].ptr <= Len(input)

\* A step that neither enters nor leaves a loop.
LEMMA CalmStep ==
    ASSUME Inv, UNCHANGED <<input, runs, loopStack>>,
           WordsTypeOK', runs = 1 => EntriesInInput',
           compileMode' \in BOOLEAN,
           inputPtr' \in Nat, runs = 1 => inputPtr' <= Len(input),
           ptrStack' \in Seq(Nat),
           runs = 1 => \A i \in DOMAIN ptrStack' : ptrStack'[i] <= Len(input),
           calls' \in Seq(Frames), skippedThenCount' \in Nat, DoFrames' = DoFrames
    PROVE  Inv'
  <1>1. Typed'
    BY DEF Inv, Typed, TypeOK
  <1>2. Balanced'
    BY DEF Inv, Balanced
  <1>3. PositionsAreInInput'
    BY DEF Inv, PositionsAreInInput, EntriesInInput
  <1> QED BY <1>1, <1>2, <1>3 DEF Inv

\* Such a step that only moves the input pointer and touches the data.
LEMMA DataStep ==
    ASSUME Inv, UNCHANGED <<input, compileMode, ptrStack, loopStack, runs>>,
           WordsTypeOK', runs = 1 => EntriesInInput',
           inputPtr' \in Nat, runs = 1 => inputPtr' <= Len(input),
           calls' \in Seq(Frames), skippedThenCount' \in Nat, DoFrames' = DoFrames
    PROVE  Inv'
  <1>1. /\ compileMode' \in BOOLEAN /\ ptrStack' \in Seq(Nat)
        /\ runs = 1 => \A i \in DOMAIN ptrStack' : ptrStack'[i] <= Len(input)
    BY DEF Inv, Typed, TypeOK, PositionsAreInInput
  <1> QED BY <1>1, CalmStep

LEMMA SameDict ==
    ASSUME Inv, UNCHANGED <<dict, input>> PROVE runs = 1 => EntriesInInput'
  BY DEF Inv, PositionsAreInInput, EntriesInInput

LEMMA SameWords == ASSUME Inv, UNCHANGED wordVars PROVE WordsTypeOK' /\ UNCHANGED dict
  BY DEF Inv, Typed, TypeOK, WordsTypeOK, wordVars

\* A word that has ended in the loop it was read by.
LEMMA EndsHere ==
    ASSUME Inv, WordEnds(calls)
    PROVE  calls' \in Seq(Frames) /\ skippedThenCount' \in Nat /\ DoFrames' = DoFrames
  <1>1. calls \in Seq(Frames) /\ skippedThenCount \in Nat
    BY DEF Inv, Typed, TypeOK
  <1>2. Does(calls) = DoFrames
    BY DEF Does, DoFrames
  <1> QED BY <1>1, <1>2, WordEndsFrames

LEMMA DataWordKeepsDict == ASSUME NEW w, DataWord(w) PROVE UNCHANGED dict
  <1> USE DEF Replace, Needs, Fail, Crash, Stops, Write, Push
  <1>1. CASE \/ Drop \/ Drop2 \/ Dup \/ Dup2 \/ Swap \/ Over \/ Clearstack
             \/ ToR \/ FromR \/ CopyFromR \/ DropR
    BY <1>1 DEF Drop, Drop2, Dup, Dup2, Swap, Over, Clearstack,
                ToR, FromR, CopyFromR, DropR
  <1>2. CASE \/ \E op \in UnopWords : Unop(op)
             \/ \E op \in BinopWords : Binop(op)
             \/ CellWord \/ CellPlus \/ CellsWord \/ CharPlus \/ Chars
    BY <1>2 DEF Unop, Binop, CellWord, CellPlus, CellsWord, CharPlus, Chars
  <1>3. CASE Exclamation \/ PlusExclamation \/ At \/ Question \/ CAt \/ CExclamation
    BY <1>3 DEF Exclamation, PlusExclamation, At, Question, CAt, CExclamation,
                Access, Stores
  <1>4. CASE Here \/ Dot \/ DotS \/ Emit \/ Bye \/ Allot \/ Comma
    BY <1>4 DEF Here, Dot, DotS, Emit, Bye, Allot, Comma
  <1> QED BY <1>1, <1>2, <1>3, <1>4 DEF DataWord, PlainWord

LEMMA NamingWordEntries ==
    ASSUME Inv, NEW w, NEW name, NamingWord(w, name), UNCHANGED input
    PROVE  runs = 1 => EntriesInInput'
  <1> USE DEF Replace, Needs, Fail, Stops, Push
  <1>1. \/ UNCHANGED dict
        \/ \E v : dict' = [x \in DOMAIN dict \cup {name} |-> IF x = name THEN Value(v) ELSE dict[x]]
    BY DEF NamingWord, Constant, Create, Variable, Char, Define
  <1>2. \A v : Value(v).kind = "value"
    BY DEF Value
  <1> QED BY <1>1, <1>2 DEF Inv, PositionsAreInInput, EntriesInInput

-----------------------------------------------------------------------------
(* The words.                                                              *)

LEMMA ComputesData ==
    ASSUME Inv, NEW p \in Nat, p <= Len(input), NEW w, Computes(p, DataWord(w))
    PROVE  Inv'
  <1>1. /\ DataWord(w) /\ inputPtr' = p /\ WordEnds(calls)
        /\ UNCHANGED <<input, compileMode, ptrStack, loopStack, runs>>
    BY DEF Computes
  <1>2. WordsTypeOK'
    BY <1>1, DataWordTyped DEF Inv, Typed, TypeOK
  <1>3. runs = 1 => EntriesInInput'
    BY <1>1, DataWordKeepsDict, SameDict
  <1> QED BY <1>1, <1>2, <1>3, EndsHere, DataStep

LEMMA ComputesPush ==
    ASSUME Inv, NEW p \in Nat, p <= Len(input), NEW v \in Cell, Computes(p, Push(v))
    PROVE  Inv'
  <1>1. /\ Push(v) /\ inputPtr' = p /\ WordEnds(calls)
        /\ UNCHANGED <<input, compileMode, ptrStack, loopStack, runs>>
    BY DEF Computes
  <1>2. WordsTypeOK'
    BY <1>1, PushTyped DEF Inv, Typed, TypeOK
  <1>3. UNCHANGED dict
    BY <1>1 DEF Push, Replace, Needs, Fail, Stops
  <1>4. runs = 1 => EntriesInInput'
    BY <1>1, <1>3, SameDict
  <1> QED BY <1>1, <1>2, <1>4, EndsHere, DataStep

LEMMA NamingKeeps ==
    ASSUME Inv, NEW p \in DOMAIN input, NEW w \in NamingWords, input[p] = w, Naming(w, p)
    PROVE  Inv'
  <1>0. p \in Nat
    BY InputIsSeq
  <1>1. CASE Aborts
    BY <1>1, AbortsKeeps
  <1>2. ASSUME NEW q \in WordsAfter(p), Computes(q, NamingWord(w, input[q]))
        PROVE  Inv'
    <2>1. /\ NamingWord(w, input[q]) /\ inputPtr' = q /\ WordEnds(calls)
          /\ UNCHANGED <<input, compileMode, ptrStack, loopStack, runs>>
      BY <1>2 DEF Computes
    <2>2. q \in Nat /\ q <= Len(input) /\ q \in DOMAIN input /\ q > p /\ input[q] \in STRING
      BY <1>0, WordPositions
    <2>3. w \in {"CHAR", "[CHAR]"} => FirstByte[input[q]] \in Byte
      <3>1. input[q] # NL /\ input \in Programs \cup LaterPrograms
        BY DEF WordsAfter, Inv, Typed, TypeOK
      <3>2. w \in {"CHAR", "[CHAR]"} => input[q] \in DOMAIN FirstByte
        BY <2>2, <3>1, GoForthAssumption
      <3> QED BY <3>2, LiteralsAssumption
    <2>4. WordsTypeOK'
      BY <2>1, <2>2, <2>3, NamingWordTyped DEF Inv, Typed, TypeOK
    <2>5. runs = 1 => EntriesInInput'
      BY <2>1, NamingWordEntries
    <2> QED BY <2>1, <2>2, <2>4, <2>5, EndsHere, DataStep
  <1> QED BY <1>1, <1>2 DEF Naming

LEMMA ReplaceKeeps ==
    ASSUME Inv, NEW n \in Nat, n <= Depth, Replace(n, <<>>)
    PROVE  WordsTypeOK' /\ UNCHANGED dict
  <1>1. <<>> \in Seq(Cell)
    OBVIOUS
  <1>2. WordsTypeOK'
    BY <1>1, ReplaceTyped DEF Inv, Typed, TypeOK
  <1>3. UNCHANGED dict
    BY DEF Replace, Needs, Fail, Stops
  <1> QED BY <1>2, <1>3

LEMMA IfKeeps ==
    ASSUME Inv, NEW p \in DOMAIN input, If(p)
    PROVE  Inv'
  <1>0. p \in Nat /\ p <= Len(input) /\ calls \in Seq(Frames)
    BY InputIsSeq DEF Inv, Typed, TypeOK
  <1>1. CASE Aborts
    BY <1>1, AbortsKeeps
  <1>2. CASE /\ Depth >= 1 /\ Enters("if") /\ inputPtr' = p /\ Replace(1, <<>>)
             /\ UNCHANGED <<input, compileMode, ptrStack, loopStack, runs>>
    <2>1. /\ calls' \in Seq(Frames) /\ DoFrames' = DoFrames
          /\ skippedThenCount' = skippedThenCount
      BY <1>0, <1>2, EntersFrames DEF Frames
    <2>2. skippedThenCount' \in Nat
      BY <2>1 DEF Inv, Typed, TypeOK
    <2> QED BY <1>0, <1>2, <2>1, <2>2, ReplaceKeeps, SameDict, DataStep
  <1>3. ASSUME NEW r \in IfStops(p, {"ELSE", "THEN"}), Depth >= 1,
               Enters("else") \/ WordEnds(calls), inputPtr' = r, Replace(1, <<>>),
               UNCHANGED <<input, compileMode, ptrStack, loopStack, runs>>
        PROVE  Inv'
    <2>1. r \in Nat /\ r <= Len(input)
      BY <1>0, WordPositions DEF IfStops
    <2>2. calls' \in Seq(Frames) /\ DoFrames' = DoFrames /\ skippedThenCount' \in Nat
      <3>1. CASE Enters("else")
        <4>1. /\ calls' \in Seq(Frames) /\ DoFrames' = DoFrames
              /\ skippedThenCount' = skippedThenCount
          BY <1>0, <3>1, EntersFrames DEF Frames
        <4> QED BY <4>1 DEF Inv, Typed, TypeOK
      <3>2. CASE WordEnds(calls)
        BY <3>2, EndsHere
      <3> QED BY <1>3, <3>1, <3>2
    <2> QED BY <1>3, <2>1, <2>2, ReplaceKeeps, SameDict, DataStep
  <1> QED BY <1>1, <1>2, <1>3 DEF If, Pops

\* if_ meets ELSE or THEN and returns.
LEMMA EndsOfIfKeep ==
    ASSUME Inv, NEW p \in DOMAIN input, Frame \in {"if", "else"},
           EndOfTrueBranch(p) \/ EndOfIf(p)
    PROVE  Inv'
  <1>0. /\ p \in Nat /\ p <= Len(input) /\ calls \in Seq(Frames)
        /\ skippedThenCount \in Nat
    BY InputIsSeq DEF Inv, Typed, TypeOK
  <1>1. CASE Aborts
    BY <1>1, AbortsKeeps
  <1>2. ASSUME NEW r \in Nat, r <= Len(input), inputPtr' = r, WordEnds(Caller),
               UNCHANGED <<wordVars, input, compileMode, ptrStack, loopStack, runs>>
        PROVE  Inv'
    <2>1. calls # <<>>
      BY DEF Frame
    <2>2. Caller \in Seq(Frames) /\ Does(Caller) = DoFrames
      BY <1>0, <2>1, CallerFrames
    <2>3. calls' \in Seq(Frames) /\ skippedThenCount' \in Nat /\ DoFrames' = DoFrames
      BY <1>0, <1>2, <2>2, WordEndsFrames
    <2> QED BY <1>2, <2>3, SameWords, SameDict, DataStep
  <1>3. CASE EndOfTrueBranch(p)
    <2>1. \A r \in IfStops(p, {"THEN"}) : r \in Nat /\ r <= Len(input)
      BY <1>0, WordPositions DEF IfStops
    <2> QED BY <1>1, <1>2, <1>3, <2>1 DEF EndOfTrueBranch
  <1>4. CASE EndOfIf(p)
    BY <1>0, <1>2, <1>4 DEF EndOfIf
  <1> QED BY <1>3, <1>4

\* The words skipLoop may stop at, and what it has counted there.
LEMMA LoopStopPositions ==
    ASSUME Inv, NEW p \in Nat, NEW r \in LoopStops(p)
    PROVE  /\ r \in Nat /\ r > p /\ r <= Len(input)
           /\ skippedThenCount + Between(p, r, {"THEN"}) \in Nat
  <1>1. r \in Nat /\ r > p /\ r <= Len(input)
    BY WordPositions DEF LoopStops
  <1>2. Between(p, r, {"THEN"}) \in Nat
    BY <1>1, BetweenIsNat
  <1> QED BY <1>1, <1>2 DEF Inv, Typed, TypeOK

LEMMA SkipsKeepFrames ==
    ASSUME Inv, NEW p \in Nat, NEW r \in LoopStops(p),
           Unwinds(calls, skippedThenCount + Between(p, r, {"THEN"}))
    PROVE  calls' \in Seq(Frames) /\ skippedThenCount' \in Nat /\ DoFrames' = DoFrames
  <1>1. Does(calls) = DoFrames /\ calls \in Seq(Frames)
    BY DEF Does, DoFrames, Inv, Typed, TypeOK
  <1> QED BY <1>1, LoopStopPositions, UnwindsFrames

LEMMA DoKeeps ==
    ASSUME Inv, NEW p \in DOMAIN input, NEW word, Do(word, p)
    PROVE  Inv'
  <1>0. /\ p \in Nat /\ p <= Len(input) /\ calls \in Seq(Frames)
        /\ skippedThenCount \in Nat /\ loopStack \in Seq(LoopStates)
    BY InputIsSeq DEF Inv, Typed, TypeOK
  <1>1. CASE Aborts
    BY <1>1, AbortsKeeps
  <1>2. CASE /\ Depth >= 2
             /\ loopStack' = Append(loopStack, LoopState(Top, Second, p))
             /\ Enters("do") /\ inputPtr' = p /\ Replace(2, <<>>)
             /\ UNCHANGED <<input, compileMode, ptrStack, runs>>
    <2>1. LoopState(Top, Second, p) \in LoopStates /\ LoopState(Top, Second, p).startPtr = p
      BY <1>0, <1>2, TopsAreCells DEF LoopState, LoopStates, Inv, Typed, TypeOK
    <2>2. /\ loopStack' \in Seq(LoopStates) /\ Len(loopStack') = Len(loopStack) + 1
          /\ \A i \in DOMAIN loopStack' : \/ i \in DOMAIN loopStack /\ loopStack'[i] = loopStack[i]
                                          \/ loopStack'[i].startPtr = p
      BY <1>0, <1>2, <2>1
    <2>3. /\ calls' \in Seq(Frames) /\ skippedThenCount' \in Nat
          /\ Cardinality(DoFrames') = Cardinality(DoFrames) + 1
      BY <1>0, <1>2, EntersFrames DEF Frames
    <2>4. WordsTypeOK' /\ UNCHANGED dict
      BY <1>2, ReplaceKeeps
    <2>5. Typed'
      BY <1>0, <1>2, <2>2, <2>3, <2>4 DEF Inv, Typed, TypeOK
    <2>6. Balanced'
      BY <2>2, <2>3 DEF Inv, Balanced
    <2>7. PositionsAreInInput'
      BY <1>0, <1>2, <2>2, <2>4 DEF Inv, PositionsAreInInput
    <2> QED BY <2>5, <2>6, <2>7 DEF Inv
  <1>3. ASSUME NEW r \in LoopStops(p), Depth >= 2, inputPtr' = r,
               Unwinds(calls, skippedThenCount + Between(p, r, {"THEN"})), Replace(2, <<>>),
               UNCHANGED <<input, compileMode, ptrStack, loopStack, runs>>
        PROVE  Inv'
    BY <1>0, <1>3, LoopStopPositions, SkipsKeepFrames, ReplaceKeeps, SameDict, DataStep
  <1> QED BY <1>1, <1>2, <1>3 DEF Do, Pops

\* The innermost entry of a loop stack that is not empty.
LEMMA InnermostLoop ==
    ASSUME Inv, loopStack # <<>>
    PROVE  /\ Innermost \in LoopStates
           /\ runs = 1 => Innermost.startPtr <= Len(input)
           /\ Outer \in Seq(LoopStates) /\ Len(Outer) = Len(loopStack) - 1
           /\ \A i \in DOMAIN Outer : i \in DOMAIN loopStack /\ Outer[i] = loopStack[i]
           /\ Len(loopStack) \in Nat
  <1>1. PICK n \in Nat : n = Len(loopStack) /\ n >= 1
    BY DEF Inv, Typed, TypeOK
  <1>2. loopStack \in Seq(LoopStates) /\ Innermost = loopStack[n] /\ n \in DOMAIN loopStack
    BY <1>1 DEF Inv, Typed, TypeOK, Innermost
  <1>3. Outer \in Seq(LoopStates)
    BY <1>1, <1>2, PrefixOfSeq DEF Outer
  <1>4. Len(Outer) = n - 1 /\ \A i \in 1 .. n - 1 : Outer[i] = loopStack[i]
    BY <1>1, <1>2 DEF Outer
  <1>5. runs = 1 => Innermost.startPtr <= Len(input)
    BY <1>2 DEF Inv, PositionsAreInInput
  <1> QED BY <1>1, <1>2, <1>3, <1>4, <1>5

\* The innermost loop goes on or is over, or LEAVE has changed its index: the
\* entry is replaced by another with the same start.
LEMMA EntryReplaced ==
    ASSUME Inv, loopStack # <<>>, NEW index \in Cell,
           loopStack' = Append(Outer, [Innermost EXCEPT !.index = index]),
           UNCHANGED <<input, runs>>
    PROVE  /\ loopStack' \in Seq(LoopStates) /\ Len(loopStack') = Len(loopStack)
           /\ runs = 1 => \A i \in DOMAIN loopStack' : loopStack'[i].startPtr <= Len(input)
  <1> DEFINE entry == [Innermost EXCEPT !.index = index]
  <1>1. entry \in LoopStates /\ entry.startPtr = Innermost.startPtr
    BY InnermostLoop DEF LoopStates
  <1>2. /\ loopStack' \in Seq(LoopStates) /\ Len(loopStack') = Len(loopStack)
        /\ \A i \in DOMAIN loopStack' : \/ i \in DOMAIN Outer /\ loopStack'[i] = Outer[i]
                                        \/ loopStack'[i] = entry
    <2> HIDE DEF entry
    <2> QED BY <1>1, InnermostLoop DEF entry
  <1>3. runs = 1 => \A i \in DOMAIN loopStack : loopStack[i].startPtr <= Len(input)
    BY DEF Inv, PositionsAreInInput
  <1> QED BY <1>1, <1>2, <1>3, InnermostLoop

LEMMA EndOfBodyKeeps ==
    ASSUME Inv, NEW p \in DOMAIN input, Frame = "do", NEW n \in Nat, NEW index, NEW done,
           loopStack # <<>> /\ Depth >= n => index \in Cell,
           EndOfBody(p, n, index, done)
    PROVE  Inv'
  <1>0. /\ p \in Nat /\ p <= Len(input) /\ calls \in Seq(Frames) /\ calls # <<>>
        /\ skippedThenCount \in Nat /\ inputPtr \in Nat
    BY InputIsSeq DEF Inv, Typed, TypeOK, Frame
  <1>1. CASE Aborts
    BY <1>1, AbortsKeeps
  <1>2. CASE /\ loopStack # <<>> /\ Depth >= n
             /\ loopStack' = Outer /\ inputPtr' = p /\ WordEnds(Caller)
             /\ Replace(n, <<>>)
             /\ UNCHANGED <<input, compileMode, ptrStack, runs>>
    <2>1. /\ Caller \in Seq(Frames)
          /\ Cardinality(Does(Caller)) = Cardinality(DoFrames) - 1
      BY <1>0, CallerFrames
    <2>2. /\ calls' \in Seq(Frames) /\ skippedThenCount' \in Nat
          /\ DoFrames' = Does(Caller)
      BY <1>0, <1>2, <2>1, WordEndsFrames
    <2>3. WordsTypeOK' /\ UNCHANGED dict
      BY <1>2, ReplaceKeeps
    <2>4. Typed'
      BY <1>0, <1>2, <2>2, <2>3, InnermostLoop DEF Inv, Typed, TypeOK
    <2>5. Balanced'
      BY <1>2, <2>1, <2>2, InnermostLoop DEF Inv, Balanced
    <2>6. PositionsAreInInput'
      BY <1>0, <1>2, <2>3, InnermostLoop DEF Inv, PositionsAreInInput
    <2> QED BY <2>4, <2>5, <2>6 DEF Inv
  <1>3. CASE /\ loopStack # <<>> /\ Depth >= n
             /\ loopStack' = Append(Outer, [Innermost EXCEPT !.index = index])
             /\ inputPtr' = Innermost.startPtr
             /\ UNCHANGED <<calls, skippedThenCount>>
             /\ Replace(n, <<>>)
             /\ UNCHANGED <<input, compileMode, ptrStack, runs>>
    <2>1. /\ loopStack' \in Seq(LoopStates) /\ Len(loopStack') = Len(loopStack)
          /\ runs = 1 => \A i \in DOMAIN loopStack' : loopStack'[i].startPtr <= Len(input)
      BY <1>3, EntryReplaced
    <2>2. inputPtr' \in Nat /\ (runs = 1 => inputPtr' <= Len(input))
      BY <1>3, InnermostLoop DEF LoopStates
    <2>3. WordsTypeOK' /\ UNCHANGED dict
      BY <1>3, ReplaceKeeps
    <2>4. Typed'
      BY <1>3, <2>1, <2>2, <2>3 DEF Inv, Typed, TypeOK
    <2>5. Balanced'
      BY <1>3, <2>1 DEF Inv, Balanced, DoFrames
    <2>6. PositionsAreInInput'
      BY <1>3, <2>1, <2>2, <2>3 DEF Inv, PositionsAreInInput
    <2> QED BY <2>4, <2>5, <2>6 DEF Inv
  <1> QED BY <1>1, <1>2, <1>3 DEF EndOfBody

LEMMA LoopWordsKeep ==
    ASSUME Inv, NEW p \in DOMAIN input, Frame = "do",
           Loop(p) \/ PlusLoop(p) \/ MinusLoop(p)
    PROVE  Inv'
  <1>1. loopStack # <<>> => Innermost.index \in Int
    BY InnermostLoop, SmallCells DEF LoopStates, Cell
  <1>2. loopStack # <<>> => Moved(1) \in Cell
    BY <1>1, WrapIsCell DEF Moved
  <1>3. loopStack # <<>> /\ Depth >= 1 => Moved(Top) \in Cell /\ Moved(-Top) \in Cell
    <2> SUFFICES ASSUME loopStack # <<>>, Depth >= 1
                 PROVE  Moved(Top) \in Cell /\ Moved(-Top) \in Cell
      OBVIOUS
    <2>1. Top \in Int
      BY TopsAreCells, SmallCells DEF Cell, Inv, Typed, TypeOK
    <2>2. Innermost.index + Top \in Int /\ Innermost.index + (-Top) \in Int
      BY <1>1, <2>1
    <2> QED BY <2>2, WrapIsCell DEF Moved
  <1> QED BY <1>2, <1>3, EndOfBodyKeeps DEF Loop, PlusLoop, MinusLoop

LEMMA LeaveKeeps ==
    ASSUME Inv, NEW p \in DOMAIN input, Leave(p)
    PROVE  Inv'
  <1>0. p \in Nat
    BY InputIsSeq
  <1>1. CASE Aborts
    BY <1>1, AbortsKeeps
  <1>2. ASSUME loopStack # <<>>, NEW r \in LoopStops(p),
               loopStack' = Append(Outer, [Innermost EXCEPT !.index = Wrap(Innermost.limit - 1)]),
               inputPtr' = r - 1,
               Unwinds(calls, skippedThenCount + Between(p, r, {"THEN"})),
               UNCHANGED <<wordVars, input, compileMode, ptrStack, runs>>
        PROVE  Inv'
    <2>1. Wrap(Innermost.limit - 1) \in Cell
      <3>1. Innermost.limit - 1 \in Int
        BY <1>2, InnermostLoop, SmallCells DEF LoopStates, Cell
      <3> QED BY <3>1, WrapIsCell
    <2>2. /\ loopStack' \in Seq(LoopStates) /\ Len(loopStack') = Len(loopStack)
          /\ runs = 1 => \A i \in DOMAIN loopStack' : loopStack'[i].startPtr <= Len(input)
      BY <1>2, <2>1, EntryReplaced
    <2>3. inputPtr' \in Nat /\ inputPtr' <= Len(input)
      BY <1>0, <1>2, LoopStopPositions, InputIsSeq
    <2>4. calls' \in Seq(Frames) /\ skippedThenCount' \in Nat /\ DoFrames' = DoFrames
      BY <1>0, <1>2, SkipsKeepFrames
    <2>5. WordsTypeOK' /\ UNCHANGED dict
      BY <1>2, SameWords
    <2>6. Typed'
      BY <1>2, <2>2, <2>3, <2>4, <2>5 DEF Inv, Typed, TypeOK
    <2>7. Balanced'
      BY <2>2, <2>4 DEF Inv, Balanced
    <2>8. PositionsAreInInput'
      BY <1>2, <2>2, <2>3, <2>5 DEF Inv, PositionsAreInInput
    <2> QED BY <2>6, <2>7, <2>8 DEF Inv
  <1> QED BY <1>1, <1>2 DEF Leave

LEMMA LoopIndexKeeps ==
    ASSUME Inv, NEW p \in DOMAIN input, NEW w \in {"I", "J", "K"}, LoopIndex(w, p)
    PROVE  Inv'
  <1>0. p \in Nat /\ p <= Len(input) /\ loopStack \in Seq(LoopStates)
    BY InputIsSeq DEF Inv, Typed, TypeOK
  <1>1. CASE Aborts
    BY <1>1, AbortsKeeps
  <1>2. ASSUME NEW d \in {0, 1, 2}, Len(loopStack) > d,
               Computes(p, Push(loopStack[Len(loopStack) - d].index))
        PROVE  Inv'
    <2>1. loopStack[Len(loopStack) - d] \in LoopStates
      BY <1>0, <1>2
    <2>2. loopStack[Len(loopStack) - d].index \in Cell
      BY <2>1 DEF LoopStates
    <2> QED BY <1>0, <1>2, <2>2, ComputesPush
  <1> QED BY <1>1, <1>2 DEF LoopIndex

\* The end of an immediate word, in either mode.
LEMMA ImmediateEndsHere ==
    ASSUME Inv, ImmediateEnds
    PROVE  calls' \in Seq(Frames) /\ skippedThenCount' \in Nat /\ DoFrames' = DoFrames
  <1>1. CASE UNCHANGED <<calls, skippedThenCount>>
    BY <1>1 DEF Inv, Typed, TypeOK, DoFrames
  <1>2. CASE WordEnds(calls)
    BY <1>2, EndsHere
  <1> QED BY <1>1, <1>2 DEF ImmediateEnds

LEMMA SkipsToPosition ==
    ASSUME Inv, NEW p \in Nat, p <= Len(input), NEW token, NEW r, SkipsTo(token, p, r)
    PROVE  r \in Nat /\ r <= Len(input)
  BY InputIsSeq DEF SkipsTo, First

LEMMA ImmediateWordKeeps ==
    ASSUME Inv, NEW p \in DOMAIN input, NEW w, ImmediateWord(w, p)
    PROVE  Inv'
  <1>0. p \in Nat /\ p <= Len(input) /\ Len(input) \in Nat /\ input \in Seq(STRING)
    BY InputIsSeq
  <1>1. CASE Aborts \/ (Crash /\ UNCHANGED controlVars)
    BY <1>1, AbortsKeeps, FailKeeps
  <1>2. ASSUME NEW token, Comment(token, p) PROVE Inv'
    <2>1. /\ SkipsTo(token, p, inputPtr') /\ ImmediateEnds
          /\ UNCHANGED <<wordVars, input, compileMode, ptrStack, loopStack, runs>>
      BY <1>2 DEF Comment
    <2>2. inputPtr' \in Nat /\ inputPtr' <= Len(input)
      BY <1>0, <2>1, SkipsToPosition
    <2> QED BY <2>1, <2>2, ImmediateEndsHere, SameWords, SameDict, DataStep
  <1>3. ASSUME NEW q \in p + 1 .. Len(input), inputPtr' = q,
               \/ UNCHANGED wordVars
               \/ Write(0, <<"text", SubSeq(input, p + 1, q - 1)>>),
               ImmediateEnds,
               UNCHANGED <<input, compileMode, ptrStack, loopStack, runs>>
        PROVE  Inv'
    <2>1. q \in Nat /\ q <= Len(input)
      BY <1>0
    <2>2. WordsTypeOK' /\ UNCHANGED dict
      <3>1. CASE UNCHANGED wordVars
        BY <3>1, SameWords
      <3>2. CASE Write(0, <<"text", SubSeq(input, p + 1, q - 1)>>)
        <4>1. SubSeq(input, p + 1, q - 1) \in Seq(STRING)
          BY <1>0, <2>1
        <4>2. <<"text", SubSeq(input, p + 1, q - 1)>> \in Output
          BY <4>1 DEF Output
        <4>3. 0 <= Depth
          BY TopsAreCells DEF Inv, Typed, TypeOK
        <4> QED BY <3>2, <4>2, <4>3, WriteTyped DEF Inv, Typed, TypeOK, Write
      <3> QED BY <1>3, <3>1, <3>2
    <2> QED BY <1>3, <2>1, <2>2, ImmediateEndsHere, SameDict, DataStep
  <1>4. CASE DotQuote(p)
    <2>1. ASSUME NEW q \in {q \in p + 1 .. Len(input) : input[q] = Quote}, inputPtr' = q,
                 IF compileMode THEN UNCHANGED wordVars
                                ELSE Write(0, <<"text", SubSeq(input, p + 1, q - 1)>>),
                 ImmediateEnds,
                 UNCHANGED <<input, compileMode, ptrStack, loopStack, runs>>
          PROVE  Inv'
      BY <1>3, <2>1
    <2> QED BY <1>1, <1>4, <2>1 DEF DotQuote
  <1> QED BY <1>2, <1>4 DEF ImmediateWord

LEMMA ColonKeeps ==
    ASSUME Inv, NEW p \in DOMAIN input, Colon(p)
    PROVE  Inv'
  <1>0. p \in Nat
    BY InputIsSeq
  <1>1. CASE Aborts
    BY <1>1, AbortsKeeps
  <1>2. ASSUME NEW q \in WordsAfter(p), inputPtr' = q, WordEnds(calls),
               UNCHANGED <<wordVars, compileMode>>, UNCHANGED <<input, ptrStack, loopStack, runs>>
        PROVE  Inv'
    <2>1. q \in Nat /\ q <= Len(input)
      BY <1>0, WordPositions
    <2> QED BY <1>2, <2>1, EndsHere, SameWords, SameDict, DataStep
  <1>3. ASSUME NEW q \in WordsAfter(p), inputPtr' = q, Define(input[q], UserFunc(q)),
               compileMode' = TRUE,
               UNCHANGED <<dataStack, returnStack, memory, memptr, stdout,
                           status, calls, skippedThenCount>>,
               UNCHANGED <<input, ptrStack, loopStack, runs>>
        PROVE  Inv'
    <2>1. q \in Nat /\ q <= Len(input) /\ input[q] \in STRING
      BY <1>0, WordPositions
    <2>2. UserFunc(q) \in Entry /\ UserFunc(q).ptr = q
      BY <2>1 DEF UserFunc, Entry
    <2>3. /\ DOMAIN dict' \subseteq STRING
          /\ dict' = [w \in DOMAIN dict' |-> dict'[w]]
          /\ \A w \in DOMAIN dict' : dict'[w] \in Entry
      BY <1>3, <2>1, <2>2, DefineTyped DEF Inv, Typed, TypeOK
    <2>4. WordsTypeOK'
      BY <1>3, <2>3 DEF Inv, Typed, TypeOK, WordsTypeOK
    <2>5. runs = 1 => EntriesInInput'
      BY <1>3, <2>1, <2>2 DEF Define, Inv, PositionsAreInInput, EntriesInInput
    <2>6. calls' \in Seq(Frames) /\ skippedThenCount' \in Nat /\ DoFrames' = DoFrames
      BY <1>3 DEF Inv, Typed, TypeOK, DoFrames
    <2>7. /\ ptrStack' \in Seq(Nat)
          /\ runs = 1 => \A i \in DOMAIN ptrStack' : ptrStack'[i] <= Len(input)
      BY <1>3 DEF Inv, Typed, TypeOK, PositionsAreInInput
    <2> QED BY <1>3, <2>1, <2>4, <2>5, <2>6, <2>7, CalmStep
  <1> QED BY <1>1, <1>2, <1>3 DEF Colon

LEMMA SemicolonKeeps == ASSUME Inv, Semicolon PROVE Inv'
  <1>1. CASE Aborts
    BY <1>1, AbortsKeeps
  <1>2. CASE /\ ptrStack # <<>>
             /\ inputPtr' = ptrStack[Len(ptrStack)]
             /\ ptrStack' = SubSeq(ptrStack, 1, Len(ptrStack) - 1)
             /\ WordEnds(calls)
             /\ UNCHANGED <<wordVars, input, compileMode, loopStack, runs>>
    <2>1. PICK n \in Nat : n = Len(ptrStack) /\ n >= 1
      BY <1>2 DEF Inv, Typed, TypeOK
    <2>2. ptrStack \in Seq(Nat) /\ n \in DOMAIN ptrStack
      BY <2>1 DEF Inv, Typed, TypeOK
    <2>3. inputPtr' \in Nat /\ (runs = 1 => inputPtr' <= Len(input))
      BY <1>2, <2>1, <2>2 DEF Inv, PositionsAreInInput
    <2>4. ptrStack' \in Seq(Nat)
      BY <1>2, <2>1, <2>2, PrefixOfSeq
    <2>5. \A i \in DOMAIN ptrStack' : i \in DOMAIN ptrStack /\ ptrStack'[i] = ptrStack[i]
      BY <1>2, <2>1, <2>2
    <2>6. runs = 1 => \A i \in DOMAIN ptrStack' : ptrStack'[i] <= Len(input)
      BY <2>5 DEF Inv, PositionsAreInInput
    <2>7. compileMode' \in BOOLEAN
      BY <1>2 DEF Inv, Typed, TypeOK
    <2> QED BY <1>2, <2>3, <2>4, <2>6, <2>7, EndsHere, SameWords, SameDict, CalmStep
  <1> QED BY <1>1, <1>2 DEF Semicolon

LEMMA CallUserKeeps ==
    ASSUME Inv, NEW p \in DOMAIN input, NEW w \in DOMAIN dict, dict[w].kind = "user",
           CallUser(w, p)
    PROVE  Inv'
  <1>0. p \in Nat /\ p <= Len(input) /\ ptrStack \in Seq(Nat) /\ compileMode \in BOOLEAN
    BY InputIsSeq DEF Inv, Typed, TypeOK
  <1>1. /\ inputPtr' = dict[w].ptr /\ ptrStack' = Append(ptrStack, p) /\ WordEnds(calls)
        /\ UNCHANGED <<wordVars, input, compileMode, loopStack, runs>>
    BY DEF CallUser
  <1>2. dict[w].ptr \in Nat
    BY DEF Inv, Typed, TypeOK, WordsTypeOK, Entry
  <1>3. runs = 1 => dict[w].ptr <= Len(input)
    BY DEF Inv, PositionsAreInInput
  <1>4. /\ ptrStack' \in Seq(Nat)
        /\ \A i \in DOMAIN ptrStack' : \/ i \in DOMAIN ptrStack /\ ptrStack'[i] = ptrStack[i]
                                       \/ ptrStack'[i] = p
    BY <1>0, <1>1
  <1>5. runs = 1 => \A i \in DOMAIN ptrStack' : ptrStack'[i] <= Len(input)
    BY <1>0, <1>4 DEF Inv, PositionsAreInInput
  <1> QED BY <1>0, <1>1, <1>2, <1>3, <1>4, <1>5, EndsHere, SameWords, SameDict, CalmStep

-----------------------------------------------------------------------------
(* The steps of the interpreter.                                           *)

LEMMA BuiltinKeeps ==
    ASSUME Inv, NEW p \in DOMAIN input, NEW w, w = input[p], Builtin(w, p)
    PROVE  Inv'
  <1>0. p \in Nat /\ p <= Len(input)
    BY InputIsSeq
  <1>1. CASE Computes(p, DataWord(w))
    BY <1>0, <1>1, ComputesData
  <1>2. CASE w \in NamingWords /\ Naming(w, p)
    BY <1>2, NamingKeeps
  <1>3. CASE If(p) \/ (\E word : Do(word, p)) \/ Leave(p)
    BY <1>3, IfKeeps, DoKeeps, LeaveKeeps
  <1>4. CASE w \in {"I", "J", "K"} /\ LoopIndex(w, p)
    BY <1>4, LoopIndexKeeps
  <1>5. CASE ImmediateWord(w, p) \/ Colon(p) \/ Semicolon
    BY <1>5, ImmediateWordKeeps, ColonKeeps, SemicolonKeeps
  <1> QED BY <1>1, <1>2, <1>3, <1>4, <1>5 DEF Builtin

LEMMA ExecuteWordKeeps ==
    ASSUME Inv, NEW p \in DOMAIN input, NEW w, w = input[p], ExecuteWord(w, p)
    PROVE  Inv'
  <1>0. p \in Nat /\ p <= Len(input)
    BY InputIsSeq
  <1>1. CASE Aborts
    BY <1>1, AbortsKeeps
  <1>2. CASE w \in DOMAIN dict /\ dict[w].kind = "user" /\ CallUser(w, p)
    BY <1>2, CallUserKeeps
  <1>3. CASE /\ w \in DOMAIN dict /\ dict[w].kind = "value"
             /\ Computes(p, Push(dict[w].val))
    <2>1. dict[w].val \in Cell
      BY <1>3 DEF Inv, Typed, TypeOK, WordsTypeOK, Entry
    <2> QED BY <1>0, <1>3, <2>1, ComputesPush
  <1>4. CASE Builtin(w, p)
    BY <1>4, BuiltinKeeps
  <1>5. CASE w \in DOMAIN Numbers /\ Computes(p, Push(Numbers[w]))
    <2>1. Numbers[w] \in Cell
      BY <1>5, GoForthAssumption
    <2> QED BY <1>0, <1>5, <2>1, ComputesPush
  <1> QED BY <1>1, <1>2, <1>3, <1>4, <1>5 DEF ExecuteWord

LEMMA InterpretKeeps ==
    ASSUME Inv, NEW p \in DOMAIN input, NEW w, w = input[p], Interpret(w, p)
    PROVE  Inv'
  <1>1. CASE Frame \in {"if", "else"} /\ (EndOfTrueBranch(p) \/ EndOfIf(p))
    BY <1>1, EndsOfIfKeep
  <1>2. CASE Frame = "do" /\ (Loop(p) \/ PlusLoop(p) \/ MinusLoop(p))
    BY <1>2, LoopWordsKeep
  <1>3. CASE Do(w, p)
    BY <1>3, DoKeeps
  <1>4. CASE ExecuteWord(w, p)
    BY <1>4, ExecuteWordKeeps
  <1> QED BY <1>1, <1>2, <1>3, <1>4 DEF Interpret

LEMMA CompileWordKeeps ==
    ASSUME Inv, NEW p \in DOMAIN input, NEW w, CompileWord(w, p)
    PROVE  Inv'
  <1>0. p \in Nat /\ p <= Len(input)
    BY InputIsSeq
  <1>1. CASE ImmediateWord(w, p)
    BY <1>1, ImmediateWordKeeps
  <1>2. ASSUME inputPtr' = p, compileMode' \in BOOLEAN,
               \/ WordEnds(calls)
               \/ UNCHANGED <<skippedThenCount, calls>>,
               UNCHANGED <<wordVars, input, ptrStack, loopStack, runs>>
        PROVE  Inv'
    <2>1. calls' \in Seq(Frames) /\ skippedThenCount' \in Nat /\ DoFrames' = DoFrames
      <3>1. CASE WordEnds(calls)
        BY <3>1, EndsHere
      <3>2. CASE UNCHANGED <<skippedThenCount, calls>>
        BY <3>2 DEF Inv, Typed, TypeOK, DoFrames
      <3> QED BY <1>2, <3>1, <3>2
    <2>2. /\ ptrStack' \in Seq(Nat)
          /\ runs = 1 => \A i \in DOMAIN ptrStack' : ptrStack'[i] <= Len(input)
      BY <1>2 DEF Inv, Typed, TypeOK, PositionsAreInInput
    <2> QED BY <1>0, <1>2, <2>1, <2>2, SameWords, SameDict, CalmStep
  <1>3. compileMode \in BOOLEAN
    BY DEF Inv, Typed, TypeOK
  <1> QED BY <1>1, <1>2, <1>3 DEF CompileWord

LEMMA EndOfInputKeeps == ASSUME Inv, EndOfInput PROVE Inv'
  <1>1. CASE (Fail \/ Crash) /\ UNCHANGED controlVars
    BY <1>1, FailKeeps
  <1>2. CASE /\ status' = "done"
             /\ UNCHANGED <<dataStack, returnStack, memory, memptr, dict, stdout, controlVars>>
    <2>1. WordsTypeOK'
      BY <1>2 DEF Inv, Typed, TypeOK, WordsTypeOK, Statuses
    <2>2. UNCHANGED <<dict, input, inputPtr, compileMode, ptrStack, loopStack,
                      skippedThenCount, calls, runs>>
      BY <1>2 DEF controlVars
    <2>3. Typed' /\ Balanced'
      BY <2>1, <2>2 DEF Inv, Typed, TypeOK, Balanced, DoFrames
    <2>4. PositionsAreInInput'
      BY <2>2 DEF Inv, PositionsAreInInput
    <2> QED BY <2>3, <2>4 DEF Inv
  <1> QED BY <1>1, <1>2 DEF EndOfInput

LEMMA StepKeeps == ASSUME Inv, Step PROVE Inv'
  <1>1. ASSUME NEW p \in WordsAfter(inputPtr),
               Interpret(input[p], p) \/ CompileWord(input[p], p)
        PROVE  Inv'
    <2>1. p \in DOMAIN input
      BY WordPositions DEF Inv, Typed, TypeOK
    <2> QED BY <1>1, <2>1, InterpretKeeps, CompileWordKeeps
  <1>2. CASE EndOfInput
    BY <1>2, EndOfInputKeeps
  <1> QED BY <1>1, <1>2 DEF Step

\* Positions of an earlier input are of no concern to the invariant.
LEMMA RunKeeps == ASSUME Inv, Run PROVE Inv'
  <1>1. WordsTypeOK'
    BY DEF Run, Inv, Typed, TypeOK, WordsTypeOK, Statuses
  <1>2. runs' \in 1 .. MaxRuns /\ runs' # 1
    BY GoForthAssumption DEF Run, Inv, Typed, TypeOK
  <1>3. Typed'
    BY <1>1, <1>2, GoForthAssumption DEF Run, Inv, Typed, TypeOK
  <1>4. Balanced'
    BY DEF Run, Inv, Balanced, DoFrames
  <1>5. PositionsAreInInput'
    BY <1>2 DEF PositionsAreInInput
  <1> QED BY <1>3, <1>4, <1>5 DEF Inv

LEMMA InitHolds == Init => Inv
  <1> SUFFICES ASSUME Init PROVE Inv
    OBVIOUS
  <1>1. WordsTypeOK
    BY WordsInitTyped DEF Init
  <1>2. /\ ptrStack = <<>> /\ loopStack = <<>> /\ calls = <<>> /\ inputPtr = 0
        /\ skippedThenCount = 0 /\ compileMode = FALSE /\ input \in Programs
        /\ dict = [w \in {} |-> 0] /\ runs = 1
    BY DEF Init, WordsInit
  <1>3. /\ ptrStack \in Seq(Nat) /\ loopStack \in Seq(LoopStates)
        /\ calls \in Seq(Frames) /\ runs \in 1 .. MaxRuns
    BY <1>2, GoForthAssumption
  <1>4. Typed
    BY <1>1, <1>2, <1>3, GoForthAssumption DEF Typed, TypeOK
  <1>5. Balanced
    <2>1. DoFrames = {} /\ Len(loopStack) = 0
      BY <1>2 DEF DoFrames
    <2> QED BY <2>1, FS_EmptySet DEF Balanced
  <1>6. PositionsAreInInput
    <2>1. Len(input) \in Nat
      BY <1>2, GoForthAssumption
    <2> QED BY <1>2, <2>1 DEF PositionsAreInInput
  <1> QED BY <1>4, <1>5, <1>6 DEF Inv

LEMMA NextKeeps == Inv /\ [Next]_vars => Inv'
  <1> SUFFICES ASSUME Inv, [Next]_vars PROVE Inv'
    OBVIOUS
  <1>1. CASE UNCHANGED vars
    BY <1>1 DEF vars, wordVars, controlVars, Inv, Typed, TypeOK, WordsTypeOK, Balanced,
                DoFrames, PositionsAreInInput
  <1>2. CASE Step
    BY <1>2, StepKeeps
  <1>3. CASE Run
    BY <1>3, RunKeeps
  <1> QED BY <1>1, <1>2, <1>3 DEF Next, Terminated

LEMMA Invariant == Spec => []Inv
  BY InitHolds, NextKeeps, PTL DEF Spec

-----------------------------------------------------------------------------
\* Whatever the inputs of Run, the variables of the interpreter keep their
\* types: the pointers are never negative, the count of skipped THENs is not
\* decremented below zero, and Go's call stack is made of if_ and do_ loops.
THEOREM Types == Spec => []TypeOK
  <1>1. Inv => TypeOK
    BY DEF Inv, Typed
  <1> QED BY <1>1, Invariant, PTL

\* loopStack has one entry for each do_ that has not returned, for every
\* input: LOOP, +LOOP and -LOOP never find it empty (builtins.go:641).
THEOREM LoopStackAgreesWithCalls == Spec => []LoopStackMatchesCalls
  <1>1. Inv => LoopStackMatchesCalls
    BY DEF Inv, Balanced, LoopStackMatchesCalls
  <1> QED BY <1>1, Invariant, PTL

\* In its first run the interpreter goes to, and remembers, positions of its
\* input only, so that no slice of the input is out of range.
THEOREM PositionsStayInInput == Spec => []PositionsAreInInput
  <1>1. Inv => PositionsAreInInput
    BY DEF Inv
  <1> QED BY <1>1, Invariant, PTL

\* Nothing is executed while a definition is being read, whatever words it
\* is made of: only the input pointer, the mode and the end of the word that
\* colon was called for change.
THEOREM ReadingIsSilent == Spec => ReadingADefinitionIsSilent
  <1> DEFINE Silent == UNCHANGED <<dataStack, returnStack, memory, memptr, dict, stdout,
                                   ptrStack, loopStack>>
  <1>1. ASSUME [Next]_vars, compileMode PROVE Silent
    <2> USE DEF Fail, Crash, Stops, Aborts
    <2>1. CASE UNCHANGED vars
      BY <2>1 DEF vars, wordVars, controlVars
    <2>2. ASSUME NEW w, NEW p, ImmediateWord(w, p) PROVE Silent
      BY <1>1, <2>2 DEF ImmediateWord, Comment, DotQuote, wordVars, controlVars
    <2>3. ASSUME NEW w, NEW p, CompileWord(w, p) PROVE Silent
      BY <2>2, <2>3 DEF CompileWord, wordVars
    <2>4. CASE EndOfInput
      BY <2>4 DEF EndOfInput, controlVars
    <2>5. CASE Step
      BY <1>1, <2>3, <2>4, <2>5 DEF Step
    <2>6. CASE Run
      BY <2>6 DEF Run
    <2> QED BY <1>1, <2>1, <2>5, <2>6 DEF Next, Terminated
  <1>2. [Next]_vars => [compileMode => Silent]_vars
    BY <1>1
  <1> QED BY <1>2, PTL DEF Spec, ReadingADefinitionIsSilent
-----------------------------------------------------------------------------
(* goforth implements ForthSemantics, but for the steps that are listed.   *)


-----------------------------------------------------------------------------
(* Positions of the input.                                                 *)

LEMMA LeastIs ==
    ASSUME NEW S \in SUBSET Nat, NEW q \in S, \A r \in S : q <= r
    PROVE  Structure!Least(S) = q
  <1>1. \A x \in S : Structure!First(x, S) <=> x = q
    BY DEF Structure!First
  <1> QED BY <1>1 DEF Structure!Least

\* What is found is the first; the end of the input, if nothing is.
LEMMA FirstOfIs ==
    ASSUME input \in Seq(STRING), NEW S \in SUBSET (1 .. Len(input))
    PROVE  /\ \A q : First(q, S) => Structure!FirstOf(S) = q
           /\ S = {} => Structure!FirstOf(S) = Len(input)
           /\ S # {} => First(Structure!FirstOf(S), S)
  <1>1. Len(input) \in Nat
    OBVIOUS
  <1>2. ASSUME NEW q, First(q, S) PROVE Structure!FirstOf(S) = q
    <2>1. /\ S \cup {Len(input)} \in SUBSET Nat /\ q \in S \cup {Len(input)}
          /\ \A r \in S \cup {Len(input)} : q <= r
      <3>1. S \subseteq 1 .. Len(input) /\ q \in S /\ \A r \in S : q <= r
        BY <1>2 DEF First
      <3>2. \A x \in S : x \in Nat /\ x <= Len(input)
        BY <1>1, <3>1
      <3> HIDE DEF First
      <3> QED BY <1>1, <3>1, <3>2
    <2> HIDE DEF First
    <2> QED BY <2>1, LeastIs DEF Structure!FirstOf
  <1>3. ASSUME S = {} PROVE Structure!FirstOf(S) = Len(input)
    <2>1. Structure!Least({Len(input)}) = Len(input)
      BY <1>1, LeastIs
    <2> QED BY <1>3, <2>1 DEF Structure!FirstOf
  <1>4. ASSUME S # {} PROVE First(Structure!FirstOf(S), S)
    <2>1. PICK q \in S : \A r \in S : q <= r
      BY <1>4, LeastExists
    <2> QED BY <1>2, <2>1 DEF First
  <1> QED BY <1>2, <1>3, <1>4

LEMMA SameWordsAfter == \A p : Structure!WordsAfter(p) = WordsAfter(p)
  BY DEF Structure!WordsAfter, WordsAfter, NL

LEMMA LenIs == ASSUME input \in Seq(STRING) PROVE Len(input) \in Nat
  OBVIOUS

LEMMA AfterIs ==
    ASSUME input \in Seq(STRING), NEW p \in Nat, NEW q \in WordsAfter(p)
    PROVE  /\ q \in Nat /\ p < q /\ q <= Len(input) /\ Len(input) \in Nat
           /\ q \in DOMAIN input /\ input[q] # NL
           /\ p \in 0 .. Len(input) /\ q \in 0 .. Len(input)
  BY DEF WordsAfter

\* Where a word ends: at itself, or where the closing character is, or the name.
LEMMA ExtentIs ==
    ASSUME input \in Seq(STRING), NEW p \in DOMAIN input
    PROVE  /\ Structure!Extent(p) \in p .. Len(input)
           /\ input[p] = "(" => SkipsTo(")", p, Structure!Extent(p))
           /\ input[p] = "\\" => SkipsTo(NL, p, Structure!Extent(p))
           /\ input[p] = ".\"" => SkipsTo(Quote, p, Structure!Extent(p))
           /\ input[p] \in NamingWords \cup {":"} =>
                 IF WordsAfter(p) = {} THEN Structure!Extent(p) = Len(input)
                 ELSE First(Structure!Extent(p), WordsAfter(p))
           /\ input[p] \notin Immediate \cup NamingWords \cup {":"} => Structure!Extent(p) = p
  <1>1. p \in Nat /\ Len(input) \in Nat /\ p <= Len(input)
    OBVIOUS
  <1>2. ASSUME NEW token
        PROVE  /\ SkipsTo(token, p, Structure!Closing(p, token))
               /\ Structure!Closing(p, token) \in p .. Len(input)
    <2> DEFINE S == {q \in p + 1 .. Len(input) : input[q] = token}
    <2>1. S \in SUBSET (1 .. Len(input)) /\ \A q \in S : q \in p .. Len(input)
      BY <1>1
    <2>2. /\ S = {} => Structure!FirstOf(S) = Len(input)
          /\ S # {} => First(Structure!FirstOf(S), S)
      <3> HIDE DEF S
      <3> QED BY <2>1, FirstOfIs
    <2>3. Structure!Closing(p, token) = Structure!FirstOf(S)
      BY DEF Structure!Closing
    <2>4. S = {} => token \notin {input[q] : q \in p + 1 .. Len(input)}
      OBVIOUS
    <2> QED BY <1>1, <2>1, <2>2, <2>3, <2>4 DEF SkipsTo, First
  <1>3. /\ WordsAfter(p) = {} => Structure!FirstOf(WordsAfter(p)) = Len(input)
        /\ WordsAfter(p) # {} => First(Structure!FirstOf(WordsAfter(p)), WordsAfter(p))
        /\ Structure!FirstOf(WordsAfter(p)) \in p .. Len(input)
    <2>1. WordsAfter(p) \in SUBSET (1 .. Len(input)) /\ \A q \in WordsAfter(p) : q \in p .. Len(input)
      BY <1>1 DEF WordsAfter
    <2> QED BY <1>1, <2>1, FirstOfIs DEF First
  <1>4. Structure!NamingWords = NamingWords
    BY DEF Structure!NamingWords, NamingWords
  <1>5. Structure!Extent(p) =
            CASE input[p] = "("   -> Structure!Closing(p, ")")
              [] input[p] = "\\"  -> Structure!Closing(p, NL)
              [] input[p] = ".\"" -> Structure!Closing(p, Quote)
              [] input[p] \in NamingWords \cup {":"} -> Structure!FirstOf(WordsAfter(p))
              [] OTHER -> p
    BY <1>4, SameWordsAfter DEF Structure!Extent, NL, Quote
  <1>6. CASE input[p] = "("
    BY <1>2, <1>5, <1>6 DEF Immediate, NamingWords
  <1>7. CASE input[p] = "\\"
    BY <1>2, <1>5, <1>7 DEF Immediate, NamingWords
  <1>8. CASE input[p] = ".\""
    BY <1>2, <1>5, <1>8 DEF Immediate, NamingWords
  <1>9. CASE input[p] \in NamingWords \cup {":"}
    BY <1>3, <1>5, <1>9 DEF Immediate, NamingWords
  <1>10. CASE input[p] \notin Immediate \cup NamingWords \cup {":"}
    <2>1. /\ input[p] # "(" /\ input[p] # "\\" /\ input[p] # ".\""
          /\ input[p] \notin NamingWords \cup {":"}
      BY <1>10 DEF Immediate
    <2>2. Structure!Extent(p) = p
      BY <1>5, <2>1
    <2>3. Structure!Extent(p) \in p .. Len(input)
      BY <1>1, <2>2
    <2> QED BY <2>1, <2>2, <2>3
  <1> QED BY <1>6, <1>7, <1>8, <1>9, <1>10 DEF Immediate

-----------------------------------------------------------------------------
(* The words of a program.                                                 *)

\* The code from a position on is the next word, and the code from its end on.
LEMMA CodeOfIs ==
    ASSUME input \in Seq(STRING), NEW p, p \in 0 .. Len(input)
    PROVE  /\ WordsAfter(p) = {} => Structure!CodeOf(p) = {}
           /\ \A q : First(q, WordsAfter(p)) =>
                 Structure!CodeOf(p) = {q} \cup Structure!CodeOf(Structure!Extent(q))
  <1> DEFINE N    == Len(input)
             W    == [0 .. N -> SUBSET (1 .. N)]
             next(q) == IF Structure!WordsAfter(q) = {} THEN {}
                        ELSE {Structure!Least(Structure!WordsAfter(q))}
             Body(g) == [q \in 0 .. N |-> next(q) \cup UNION {g[Structure!Extent(r)] : r \in next(q)}]
             from[q \in 0 .. Len(input)] ==
                 LET after == Structure!WordsAfter(q)
                     then  == IF after = {} THEN {} ELSE {Structure!Least(after)}
                 IN  then \cup UNION {from[Structure!Extent(r)] : r \in then}
  <1>1. N \in Nat
    OBVIOUS
  <1>2. ASSUME NEW q \in 0 .. N, NEW r \in next(q)
        PROVE  r \in 1 .. N /\ q < r /\ Structure!Extent(r) \in r .. N
    <2>1. WordsAfter(q) \in SUBSET Nat /\ WordsAfter(q) # {} /\ r = Structure!Least(WordsAfter(q))
      <3>1. WordsAfter(q) \in SUBSET Nat
        BY <1>1 DEF WordsAfter
      <3> QED BY <1>2, <3>1, SameWordsAfter
    <2>2. PICK x \in WordsAfter(q) : \A y \in WordsAfter(q) : x <= y
      BY <2>1, LeastExists
    <2>3. r \in WordsAfter(q)
      BY <2>1, <2>2, LeastIs
    <2>4. r \in 1 .. N /\ q < r /\ r \in DOMAIN input
      BY <1>1, <2>3 DEF WordsAfter
    <2> QED BY <2>4, ExtentIs
  <1> HIDE DEF next
  <1>3. ASSUME NEW g \in W PROVE Body(g) \in W
    <2>1. ASSUME NEW q \in 0 .. N PROVE Body(g)[q] \in SUBSET (1 .. N)
      <3>1. \A r \in next(q) : r \in 1 .. N /\ g[Structure!Extent(r)] \in SUBSET (1 .. N)
        BY <1>1, <1>2
      <3> QED BY <3>1
    <2> QED BY <2>1
  <1> DEFINE step  == [g \in W |-> Body(g)]
             first == [q \in 0 .. N |-> {}]
  <1>20. step \in [W -> W]
    BY <1>3
  <1>21. first \in W
    OBVIOUS
  <1>4. PICK f \in [Nat -> W] : f[0] = first /\ \A n \in Nat : f[n + 1] = step[f[n]]
    <2> HIDE DEF W, first, step
    <2>1. \E f \in [Nat -> W] : f[0] = first /\ \A n \in Nat : f[n + 1] = step[f[n]]
      BY ONLY <1>20, <1>21, Repeats
    <2> QED BY <2>1
  <1>5. \A n \in Nat : f[n] \in W /\ f[n + 1] = Body(f[n])
    <2> HIDE DEF W, Body
    <2> QED BY <1>4
  <1> HIDE DEF W, step, first
  <1> DEFINE Agree == {n \in Nat : \A q \in 0 .. N : q > N - n => f[n + 1][q] = f[n][q]}
  <1>6. 0 \in Agree
    BY <1>1
  <1>7. ASSUME NEW n \in Nat, n \in Agree PROVE n + 1 \in Agree
    <2> SUFFICES ASSUME NEW q \in 0 .. N, q > N - (n + 1)
                 PROVE  f[n + 1 + 1][q] = f[n + 1][q]
      OBVIOUS
    <2>1. \A r \in next(q) : f[n + 1][Structure!Extent(r)] = f[n][Structure!Extent(r)]
      <3> SUFFICES ASSUME NEW r \in next(q)
                   PROVE  f[n + 1][Structure!Extent(r)] = f[n][Structure!Extent(r)]
        OBVIOUS
      <3>1. Structure!Extent(r) \in 0 .. N /\ Structure!Extent(r) > N - n
        BY <1>1, <1>2
      <3> QED BY <1>7, <3>1
    <2>2. f[n + 1 + 1] = Body(f[n + 1]) /\ f[n + 1] = Body(f[n])
      <3> HIDE DEF Body
      <3>1. n + 1 \in Nat
        OBVIOUS
      <3> QED BY <1>5, <3>1, Zenon
    <2>3. Body(f[n + 1])[q] = Body(f[n])[q]
      BY <2>1
    <2> QED BY <2>2, <2>3
  <1>8. N + 1 \in Agree
    <2> HIDE DEF Agree
    <2> QED BY <1>1, <1>6, <1>7, AllNumbers
  <1>9. f[N + 1] = Body(f[N + 1])
    <2>1. \A q \in 0 .. N : f[N + 1 + 1][q] = f[N + 1][q]
      BY <1>1, <1>8
    <2>2. f[N + 1] \in W /\ f[N + 1 + 1] \in W /\ f[N + 1 + 1] = Body(f[N + 1])
      <3> HIDE DEF Body
      <3>1. N + 1 \in Nat
        BY <1>1
      <3>2. N + 1 + 1 \in Nat
        BY <1>1
      <3> HIDE DEF N
      <3> QED BY <1>5, <3>1, <3>2, Zenon
    <2>3. f[N + 1 + 1] = f[N + 1]
      <3> DEFINE a == f[N + 1]
                 b == f[N + 1 + 1]
      <3>1. a \in W /\ b \in W /\ \A q \in 0 .. N : b[q] = a[q]
        BY <2>1, <2>2
      <3> HIDE DEF a, b
      <3>2. b = a
        BY <3>1 DEF W
      <3> QED BY <3>2 DEF a, b
    <2> HIDE DEF Body
    <2> QED BY <2>2, <2>3
  <1>10. from = Body(from)
    <2>1. from = CHOOSE g : g = Body(g)
      BY DEF next
    <2> HIDE DEF from, Body
    <2> QED BY <1>9, <2>1
  <1>11. \A q : Structure!CodeOf(q) = from[q]
    BY DEF Structure!CodeOf
  <1> HIDE DEF from
  <1>12. Structure!CodeOf(p) = next(p) \cup UNION {Structure!CodeOf(Structure!Extent(r)) : r \in next(p)}
    <2>1. from[p] = Body(from)[p]
      <3> HIDE DEF Body
      <3> QED BY <1>10
    <2>2. Body(from)[p] = next(p) \cup UNION {from[Structure!Extent(r)] : r \in next(p)}
      OBVIOUS
    <2> QED BY <1>11, <2>1, <2>2
  <1>13. ASSUME NEW q, First(q, WordsAfter(p)) PROVE next(p) = {q}
    <2>1. WordsAfter(p) \in SUBSET Nat /\ q \in WordsAfter(p) /\ \A r \in WordsAfter(p) : q <= r
      BY <1>1, <1>13 DEF WordsAfter, First
    <2>2. Structure!Least(WordsAfter(p)) = q
      BY <2>1, LeastIs
    <2> QED BY <2>1, <2>2, SameWordsAfter DEF next
  <1>14. WordsAfter(p) = {} => next(p) = {}
    BY SameWordsAfter DEF next
  <1> QED BY <1>12, <1>13, <1>14

\* The code from a position on comes after it.
LEMMA CodeIsAfter ==
    ASSUME input \in Seq(STRING), NEW p, p \in 0 .. Len(input)
    PROVE  Structure!CodeOf(p) \subseteq WordsAfter(p)
  <1> DEFINE N == Len(input)
             Good == {n \in Nat : \A q \in 0 .. N : N - q <= n
                                    => Structure!CodeOf(q) \subseteq WordsAfter(q)}
  <1>1. N \in Nat /\ p \in Nat /\ p <= N
    OBVIOUS
  <1>2. ASSUME NEW q \in 0 .. N,
               \A r \in 0 .. N : r > q => Structure!CodeOf(r) \subseteq WordsAfter(r)
        PROVE  Structure!CodeOf(q) \subseteq WordsAfter(q)
    <2>1. CASE WordsAfter(q) = {}
      BY <1>2, <2>1, CodeOfIs
    <2>2. CASE WordsAfter(q) # {}
      <3>1. WordsAfter(q) \in SUBSET Nat
        BY <1>1 DEF WordsAfter
      <3>2. PICK r \in WordsAfter(q) : \A x \in WordsAfter(q) : r <= x
        BY <2>2, <3>1, LeastExists
      <3>3. r \in DOMAIN input /\ r \in Nat /\ q < r
        BY <1>1 DEF WordsAfter
      <3>4. Structure!Extent(r) \in r .. N
        BY <3>3, ExtentIs
      <3>5. /\ Structure!Extent(r) \in 0 .. N /\ Structure!Extent(r) > q
            /\ WordsAfter(Structure!Extent(r)) \subseteq WordsAfter(q)
        BY <1>1, <3>3, <3>4 DEF WordsAfter
      <3>6. Structure!CodeOf(q) = {r} \cup Structure!CodeOf(Structure!Extent(r))
        BY <1>2, <3>2, CodeOfIs DEF First
      <3> QED BY <1>2, <3>5, <3>6
    <2> QED BY <2>1, <2>2
  <1>3. 0 \in Good
    BY <1>1, <1>2
  <1>4. ASSUME NEW n \in Nat, n \in Good PROVE n + 1 \in Good
    <2> SUFFICES ASSUME NEW q \in 0 .. N, N - q <= n + 1
                 PROVE  Structure!CodeOf(q) \subseteq WordsAfter(q)
      OBVIOUS
    <2>1. \A r \in 0 .. N : r > q => Structure!CodeOf(r) \subseteq WordsAfter(r)
      BY <1>1, <1>4
    <2> QED BY <1>2, <2>1
  <1>5. N - p \in Good
    <2>1. N - p \in Nat
      BY <1>1
    <2> HIDE DEF Good
    <2> QED BY <1>3, <1>4, <2>1, AllNumbers
  <1> QED BY <1>1, <1>5

-----------------------------------------------------------------------------
(* Searches and jumps.                                                     *)

\* How many words of the code from p on are in W and come before q.
CodeBefore(p, q, W) == Cardinality({i \in Structure!CodeOf(p) : i < q /\ input[i] \in W})

\* The words that can close what the word at p opens, or is in.
Ends(p, opens, closes, ends) ==
    {r \in Structure!CodeOf(p) :
        input[r] \in ends /\ CodeBefore(p, r, opens) = CodeBefore(p, r, closes)}

\* An instance has a Cardinality of its own.
LEMMA SameCardinality == \A S : Structure!Cardinality(S) = Cardinality(S)
  BY DEF Structure!Cardinality, Cardinality

LEMMA ClosedByEnds ==
    ASSUME NEW p, NEW opens, NEW closes, NEW ends
    PROVE  Structure!ClosedBy(p, opens, closes, ends)
             = Structure!FirstOf(Ends(p, opens, closes, ends))
  <1> DEFINE code == Structure!CodeOf(p)
             Number(q, W) == Structure!Cardinality({i \in code : i < q /\ input[i] \in W})
             C == {q \in code : input[q] \in ends /\ Number(q, opens) = Number(q, closes)}
  <1>1. Structure!ClosedBy(p, opens, closes, ends) = Structure!FirstOf(C)
    BY DEF Structure!ClosedBy
  <1>2. \A q, W : CodeBefore(p, q, W) = Number(q, W)
    BY SameCardinality DEF CodeBefore
  <1> HIDE DEF Number
  <1>3. C = Ends(p, opens, closes, ends)
    BY <1>2 DEF Ends
  <1> QED BY <1>1, <1>3

LEMMA ClosedByIs ==
    ASSUME input \in Seq(STRING), NEW p, p \in 0 .. Len(input),
           NEW opens, NEW closes, NEW ends, NEW r, First(r, Ends(p, opens, closes, ends))
    PROVE  Structure!ClosedBy(p, opens, closes, ends) = r
  <1>1. Ends(p, opens, closes, ends) \in SUBSET (1 .. Len(input))
    BY CodeIsAfter DEF Ends, WordsAfter
  <1> QED BY <1>1, ClosedByEnds, FirstOfIs

\* Where nothing is hidden, the words a search counts are those of the code.
LEMMA NothingHidden ==
    ASSUME input \in Seq(STRING), NEW p, p \in 0 .. Len(input), NEW W, NL \notin W,
           NEW r \in WordsAfter(p), ~ Hides(p, r, W)
    PROVE  /\ r \in Nat /\ p \in Nat
           /\ input[r] \in W => r \in Structure!CodeOf(p)
           /\ \A V \in SUBSET W, e \in WordsAfter(p) :
                e <= r => Between(p, e, V) = CodeBefore(p, e, V)
  <1>1. p \in Nat /\ Len(input) \in Nat /\ r \in Nat /\ r <= Len(input)
    BY DEF WordsAfter
  <1>2. ASSUME NEW i \in WordsAfter(p), i <= r, input[i] \in W
        PROVE  i \in Structure!CodeOf(p)
    BY <1>2 DEF Hides
  <1>3. ASSUME NEW V \in SUBSET W, NEW e \in WordsAfter(p), e <= r
        PROVE  Between(p, e, V) = CodeBefore(p, e, V)
    <2>1. e \in Nat
      BY <1>1 DEF WordsAfter
    <2>2. ASSUME NEW i \in p + 1 .. e - 1, input[i] \in V
          PROVE  i \in Structure!CodeOf(p) /\ i < e
      <3>1. i \in WordsAfter(p) /\ i <= r /\ i < e
        BY <1>1, <1>3, <2>1, <2>2 DEF WordsAfter
      <3> QED BY <1>2, <2>2, <3>1
    <2>3. ASSUME NEW q \in Structure!CodeOf(p), q < e, input[q] \in V
          PROVE  q \in p + 1 .. e - 1
      <3>1. q \in WordsAfter(p)
        BY CodeIsAfter
      <3> QED BY <1>1, <2>1, <2>3, <3>1 DEF WordsAfter
    <2>4. {i \in p + 1 .. e - 1 : input[i] \in V}
            = {q \in Structure!CodeOf(p) : q < e /\ input[q] \in V}
      BY <2>2, <2>3
    <2> QED BY <2>4 DEF Between, CodeBefore
  <1>4. input[r] \in W => r \in Structure!CodeOf(p)
    BY <1>1, <1>2
  <1> QED BY <1>1, <1>3, <1>4

\* skipIfUntil stops where the structure calls for it.
LEMMA BranchIs ==
    ASSUME input \in Seq(STRING), NEW p \in DOMAIN input,
           NEW stop \in {{"ELSE", "THEN"}, {"THEN"}}, NEW r, First(r, IfStops(p, stop)),
           ~ Hides(p, r, {"IF", "ELSE", "THEN"}),
           input[r] = "ELSE" => Between(p, r, {"IF"}) = Between(p, r, {"THEN"})
    PROVE  Structure!ClosedBy(p, {"IF"}, {"THEN"}, stop) = r
  <1> DEFINE W == {"IF", "ELSE", "THEN"}
             E == Ends(p, {"IF"}, {"THEN"}, stop)
  <1>1. /\ r \in WordsAfter(p) /\ input[r] \in stop /\ stop \subseteq W /\ NL \notin W
        /\ Between(p, r, {"IF"}) = Between(p, r, {"THEN"})
    BY DEF First, IfStops, NL
  <1>2. p \in 0 .. Len(input) /\ {"IF"} \in SUBSET W /\ {"THEN"} \in SUBSET W
    OBVIOUS
  <1>3. /\ r \in Nat /\ p \in Nat /\ r \in Structure!CodeOf(p)
        /\ \A V \in SUBSET W, e \in WordsAfter(p) :
             e <= r => Between(p, e, V) = CodeBefore(p, e, V)
    <2>1. input[r] \in W /\ ~ Hides(p, r, W)
      BY <1>1
    <2> HIDE DEF W
    <2> QED BY <1>1, <1>2, <2>1, NothingHidden
  <1>4. r \in E
    BY <1>1, <1>2, <1>3 DEF Ends
  <1>5. ASSUME NEW e \in E PROVE r <= e
    <2>1. e \in WordsAfter(p) /\ input[e] \in stop
      BY <1>2, CodeIsAfter DEF Ends
    <2>2. e \in Nat
      BY <1>3, <2>1 DEF WordsAfter
    <2>3. ASSUME e < r PROVE e \in IfStops(p, stop)
      <3>1. Between(p, e, {"IF"}) = Between(p, e, {"THEN"})
        BY <1>2, <1>3, <2>1, <2>2, <2>3 DEF Ends
      <3> QED BY <2>1, <3>1 DEF IfStops
    <2>4. e < r => r <= e
      BY <2>3 DEF First
    <2> QED BY <1>3, <2>2, <2>4
  <1>6. First(r, E)
    BY <1>4, <1>5 DEF First
  <1> HIDE DEF E
  <1> QED BY <1>2, <1>6, ClosedByIs DEF E

\* skipLoop stops where the structure calls for it.
LEMMA LoopEndIs ==
    ASSUME input \in Seq(STRING), NEW p \in DOMAIN input, NEW r, First(r, LoopStops(p)),
           ~ Hides(p, r, {"DO", "?DO"} \cup Structure!LoopEnds),
           \A i \in p + 1 .. r - 1 : input[i] \notin {"?DO", "-LOOP"}
    PROVE  Structure!LoopEndAfter(p) = r
  <1> DEFINE W == {"DO", "?DO", "LOOP", "+LOOP", "-LOOP"}
             opens == {"DO", "?DO"}
             ends  == {"LOOP", "+LOOP", "-LOOP"}
             E == Ends(p, opens, ends, ends)
  <1>1. /\ r \in WordsAfter(p) /\ input[r] \in ends /\ NL \notin W
        /\ Between(p, r, {"DO"}) = Between(p, r, {"LOOP", "+LOOP"})
    BY DEF First, LoopStops, NL
  <1>2. p \in 0 .. Len(input) /\ opens \in SUBSET W /\ ends \in SUBSET W
    OBVIOUS
  <1>3. Structure!LoopEnds = ends /\ {"DO", "?DO"} \cup Structure!LoopEnds = W
    BY DEF Structure!LoopEnds
  <1>4. /\ r \in Nat /\ p \in Nat /\ r \in Structure!CodeOf(p)
        /\ \A V \in SUBSET W, e \in WordsAfter(p) :
             e <= r => Between(p, e, V) = CodeBefore(p, e, V)
    <2>1. input[r] \in W /\ ~ Hides(p, r, W)
      BY <1>1, <1>3
    <2> HIDE DEF W
    <2> QED BY <1>1, <1>2, <2>1, NothingHidden
  <1>5. ASSUME NEW e \in WordsAfter(p), e <= r
        PROVE  /\ CodeBefore(p, e, opens) = Between(p, e, {"DO"})
               /\ CodeBefore(p, e, ends) = Between(p, e, {"LOOP", "+LOOP"})
    <2>1. e \in Nat /\ \A i \in p + 1 .. e - 1 : i \in p + 1 .. r - 1
      BY <1>4, <1>5 DEF WordsAfter
    <2>2. /\ Between(p, e, opens) = CodeBefore(p, e, opens)
          /\ Between(p, e, ends) = CodeBefore(p, e, ends)
      <3> HIDE DEF W, opens, ends
      <3> QED BY <1>2, <1>4, <1>5
    <2>3. /\ {i \in p + 1 .. e - 1 : input[i] \in opens}
               = {i \in p + 1 .. e - 1 : input[i] \in {"DO"}}
          /\ {i \in p + 1 .. e - 1 : input[i] \in ends}
               = {i \in p + 1 .. e - 1 : input[i] \in {"LOOP", "+LOOP"}}
      BY <2>1
    <2> HIDE DEF opens, ends
    <2> QED BY <2>2, <2>3 DEF Between
  <1>6. r \in E
    BY <1>1, <1>4, <1>5 DEF Ends
  <1>7. ASSUME NEW e \in E PROVE r <= e
    <2>1. e \in WordsAfter(p) /\ input[e] \in ends
      BY <1>2, CodeIsAfter DEF Ends
    <2>2. e \in Nat /\ e > p
      BY <1>4, <2>1 DEF WordsAfter
    <2>3. ASSUME e < r PROVE e \in LoopStops(p)
      <3>1. Between(p, e, {"DO"}) = Between(p, e, {"LOOP", "+LOOP"})
        BY <1>4, <1>5, <2>1, <2>2, <2>3 DEF Ends
      <3>2. input[e] \in {"LOOP", "+LOOP"}
        BY <1>4, <2>1, <2>2, <2>3
      <3> QED BY <2>1, <3>1, <3>2 DEF LoopStops
    <2>4. e < r => r <= e
      BY <2>3 DEF First
    <2> QED BY <1>4, <2>2, <2>4
  <1>8. First(r, E)
    BY <1>6, <1>7 DEF First
  <1>9. Structure!LoopEndAfter(p) = Structure!ClosedBy(p, opens, ends, ends)
    BY <1>3 DEF Structure!LoopEndAfter
  <1> HIDE DEF E, opens, ends
  <1> QED BY <1>2, <1>8, <1>9, ClosedByIs DEF E

-----------------------------------------------------------------------------
(* Definitions.                                                            *)

\* The word that ends a definition; the provers know it by this name.
END == ";"

LEMMA BodyEndIs ==
    \A p : Structure!BodyEnd(p)
             = Structure!FirstOf({r \in Structure!CodeOf(p) : input[r] = END})
  <1> SUFFICES ASSUME NEW p
               PROVE  Structure!BodyEnd(p)
                        = Structure!FirstOf({r \in Structure!CodeOf(p) : input[r] = END})
    OBVIOUS
  <1> DEFINE code == Structure!CodeOf(p)
             Number(q, W) == Structure!Cardinality({i \in code : i < q /\ input[i] \in W})
             C == {q \in code : input[q] \in {END} /\ Number(q, {}) = Number(q, {})}
  <1>1. Structure!BodyEnd(p) = Structure!FirstOf(C)
    BY DEF Structure!BodyEnd, Structure!ClosedBy, END
  <1> HIDE DEF Number, code
  <1>2. C = {q \in code : input[q] = END}
    OBVIOUS
  <1> QED BY <1>1, <1>2 DEF code

LEMMA BodyEndHere ==
    ASSUME input \in Seq(STRING), NEW p, p \in 0 .. Len(input),
           NEW q, First(q, WordsAfter(p)), input[q] = END
    PROVE  Structure!BodyEnd(p) = q
  <1> DEFINE E == {r \in Structure!CodeOf(p) : input[r] = END}
  <1>1. E \in SUBSET (1 .. Len(input)) /\ E \subseteq WordsAfter(p)
    <2>1. E \subseteq WordsAfter(p)
      BY CodeIsAfter
    <2>2. p \in Nat /\ \A r \in WordsAfter(p) : r \in 1 .. Len(input)
      <3>1. p \in Nat
        BY LenIs
      <3> QED BY <3>1, AfterIs
    <2> QED BY <2>1, <2>2
  <1>2. q \in E
    BY CodeOfIs
  <1>3. First(q, E)
    BY <1>1, <1>2 DEF First
  <1>4. Structure!FirstOf(E) = q
    <2> HIDE DEF E
    <2> QED BY <1>1, <1>3, FirstOfIs
  <1> QED BY <1>4, BodyEndIs

\* What a word of a definition takes from the input does not end it.
LEMMA BodyEndLater ==
    ASSUME input \in Seq(STRING), NEW p, p \in 0 .. Len(input),
           NEW q, First(q, WordsAfter(p)), input[q] # END
    PROVE  Structure!BodyEnd(p) = Structure!BodyEnd(Structure!Extent(q))
  <1>1. Structure!CodeOf(p) = {q} \cup Structure!CodeOf(Structure!Extent(q))
    BY CodeOfIs
  <1>2. {r \in Structure!CodeOf(p) : input[r] = END}
          = {r \in Structure!CodeOf(Structure!Extent(q)) : input[r] = END}
    BY <1>1
  <1> QED BY <1>2, BodyEndIs

\* Passing over a word and over a name it takes are the same to a definition,
\* unless the name is a word that would take something itself, or a END.
LEMMA BodyEndPassed ==
    ASSUME input \in Seq(STRING), NEW p, p \in 0 .. Len(input),
           NEW q, First(q, WordsAfter(p)), input[q] \notin Immediate \cup {END},
           input[q] \in NamingWords \cup {":"} =>
              ~ \E x \in WordsAfter(q) : /\ First(x, WordsAfter(q))
                                         /\ input[x] \in NamingWords \cup Immediate \cup {":", END}
    PROVE  Structure!BodyEnd(p) = Structure!BodyEnd(q)
  <1>1. /\ q \in DOMAIN input /\ q \in Nat /\ q \in 0 .. Len(input) /\ Len(input) \in Nat
        /\ Structure!BodyEnd(p) = Structure!BodyEnd(Structure!Extent(q))
    <2>1. q \in DOMAIN input /\ q \in Nat /\ q \in 0 .. Len(input) /\ Len(input) \in Nat
      <3>1. p \in Nat /\ q \in WordsAfter(p)
        BY LenIs DEF First
      <3> QED BY <3>1, AfterIs
    <2> QED BY <2>1, BodyEndLater
  <1>2. CASE input[q] \notin NamingWords \cup {":"}
    BY <1>1, <1>2, ExtentIs
  <1>3. CASE input[q] \in NamingWords \cup {":"} /\ WordsAfter(q) = {}
    <2>1. Structure!Extent(q) = Len(input)
      BY <1>1, <1>3, ExtentIs
    <2>4. WordsAfter(Len(input)) = {}
      <3>1. ASSUME NEW x \in WordsAfter(Len(input)) PROVE FALSE
        BY <1>1, <3>1, AfterIs
      <3> QED BY <3>1
    <2>5. Len(input) \in 0 .. Len(input)
      BY <1>1
    <2>2. Structure!CodeOf(q) = {} /\ Structure!CodeOf(Len(input)) = {}
      BY <1>1, <1>3, <2>4, <2>5, CodeOfIs
    <2>3. Structure!BodyEnd(q) = Structure!BodyEnd(Len(input))
      BY <2>2, BodyEndIs
    <2> QED BY <1>1, <2>1, <2>3
  <1>4. CASE input[q] \in NamingWords \cup {":"} /\ WordsAfter(q) # {}
    <2> DEFINE x == Structure!Extent(q)
    <2>1. First(x, WordsAfter(q))
      BY <1>1, <1>4, ExtentIs
    <2>2. x \in WordsAfter(q) /\ x \in DOMAIN input
      BY <1>1, <2>1, AfterIs DEF First
    <2>3. input[x] \notin NamingWords \cup Immediate \cup {":", END}
      BY <1>4, <2>1, <2>2
    <2>4. Structure!Extent(x) = x
      <3> HIDE DEF x
      <3> QED BY <2>2, <2>3, ExtentIs
    <2>5. Structure!BodyEnd(q) = Structure!BodyEnd(Structure!Extent(x))
      <3> HIDE DEF x
      <3> QED BY <1>1, <2>1, <2>3, BodyEndLater
    <2> QED BY <1>1, <2>4, <2>5
  <1> QED BY <1>2, <1>3, <1>4

\* The machine with jumps sees the same structure.
LEMMA SameStructure ==
    /\ \A p : Abs!WordsAfter(p) = WordsAfter(p)
    /\ \A q, S : Abs!First(q, S) <=> First(q, S)
    /\ \A p : /\ Abs!Extent(p) = Structure!Extent(p)
              /\ Abs!ThenAfter(p) = Structure!ThenAfter(p)
              /\ Abs!BranchAfter(p) = Structure!BranchAfter(p)
              /\ Abs!LoopEndAfter(p) = Structure!LoopEndAfter(p)
              /\ Abs!BodyEnd(p) = Structure!BodyEnd(p)
  <1>1. \A p : Abs!WordsAfter(p) = WordsAfter(p)
    BY DEF Abs!WordsAfter, WordsAfter, NL
  <1>2. \A q, S : Abs!First(q, S) <=> First(q, S)
    BY DEF Abs!First, First
  <1> USE DEF Abs!WordsAfter, Structure!WordsAfter, Abs!Extent, Structure!Extent,
              Abs!Closing, Structure!Closing, Abs!FirstOf, Structure!FirstOf,
              Abs!Least, Structure!Least, Abs!First, Structure!First,
              Abs!NamingWords, Structure!NamingWords
  <1>3. \A p : Abs!Extent(p) = Structure!Extent(p)
    OBVIOUS
  <1>4. \A p : Abs!CodeOf(p) = Structure!CodeOf(p)
    BY DEF Abs!CodeOf, Structure!CodeOf
  <1>5. ASSUME NEW p, NEW opens, NEW closes, NEW ends
        PROVE  Abs!ClosedBy(p, opens, closes, ends) = Structure!ClosedBy(p, opens, closes, ends)
    <2> DEFINE code == Abs!CodeOf(p)
               Number(q, W) == Abs!Cardinality({i \in code : i < q /\ input[i] \in W})
               C == {q \in code : input[q] \in ends /\ Number(q, opens) = Number(q, closes)}
    <2>1. Abs!ClosedBy(p, opens, closes, ends) = Abs!FirstOf(C)
      BY DEF Abs!ClosedBy
    <2>2. \A S : Abs!Cardinality(S) = Cardinality(S)
      BY DEF Abs!Cardinality, Cardinality
    <2>3. \A q, W : CodeBefore(p, q, W) = Number(q, W)
      BY <1>4, <2>2 DEF CodeBefore
    <2> HIDE DEF Number
    <2>4. C = Ends(p, opens, closes, ends)
      BY <1>4, <2>3 DEF Ends
    <2> HIDE DEF C
    <2>5. Abs!FirstOf(C) = Structure!FirstOf(C)
      OBVIOUS
    <2> QED BY <2>1, <2>4, <2>5, ClosedByEnds
  <1> QED BY <1>1, <1>2, <1>3, <1>5
          DEF Abs!ThenAfter, Structure!ThenAfter, Abs!BranchAfter, Structure!BranchAfter,
              Abs!LoopEndAfter, Structure!LoopEndAfter, Abs!LoopEnds, Structure!LoopEnds,
              Abs!BodyEnd, Structure!BodyEnd

\* Where the machine with jumps is after a step.
LEMMA NextPosition ==
    ASSUME input' = input, NEW p, inputPtr' = p
    PROVE  /\ leaving' /\ ~ compileMode' => Position' = p + 1
           /\ ~ leaving' /\ compileMode' => Position' = Structure!BodyEnd(p)
           /\ ~ leaving' /\ ~ compileMode' => Position' = p
  <1>1. (Structure!BodyEnd(inputPtr))' = Structure!BodyEnd(p)
    BY DEF Structure!BodyEnd, Structure!ClosedBy, Structure!CodeOf, Structure!WordsAfter,
           Structure!Extent, Structure!Closing, Structure!FirstOf, Structure!Least,
           Structure!First, Structure!NamingWords
  <1> QED BY <1>1 DEF Position

-----------------------------------------------------------------------------
(* The data words of the two machines are the same.                        *)

LEMMA SameTops ==
    /\ Abs!Depth = Depth /\ Abs!Top = Top /\ Abs!Second = Second
    /\ \A n : Abs!Rest(n) = Rest(n)
    /\ Abs!RTop = RTop /\ Abs!RRest = RRest
    /\ (Abs!Fail <=> Fail) /\ (Abs!Crash <=> Crash) /\ (Abs!Bye <=> Bye)
  BY DEF Abs!Depth, Depth, Abs!Top, Top, Abs!Second, Second, Abs!Rest, Rest,
         Abs!RTop, RTop, Abs!RRest, RRest, Abs!Fail, Fail, Abs!Crash, Crash,
         Abs!Bye, Bye, Abs!Stops, Stops

LEMMA SameReplace ==
    /\ \A n, vals : Abs!Replace(n, vals) <=> Replace(n, vals)
    /\ \A v : Abs!Push(v) <=> Push(v)
    /\ \A n, item : Abs!Write(n, item) <=> Write(n, item)
  BY SameTops DEF Abs!Replace, Abs!Needs, Replace, Needs, Abs!Push, Push, Abs!Write, Write

LEMMA SameCells ==
    /\ \A v : Abs!Wrap(v) = Wrap(v)
    /\ \A b : Abs!Flag(b) = Flag(b)
    /\ \A a, b : Abs!Remainder(a, b) = Remainder(a, b) /\ Abs!Quotient(a, b) = Quotient(a, b)
    /\ \A a, b : Abs!Ors(a, b) = Ors(a, b) /\ Abs!Ands(a, b) = Ands(a, b)
    /\ \A a, b : Abs!FromBytes(a, b) = FromBytes(a, b) /\ Abs!ByteOf(a, b) = ByteOf(a, b)
    /\ Abs!CellSize = CellSize /\ Abs!Byte = Byte
  <1> USE DEF Abs!CellSize, CellSize, Abs!CellBase, CellBase, Abs!Byte, Byte,
              Abs!MaxInt, MaxInt, Abs!MinInt, MinInt
  <1>1. \A v : Abs!Wrap(v) = Wrap(v)
    BY DEF Abs!Wrap, Wrap
  <1>2. \A b : Abs!Flag(b) = Flag(b)
    BY DEF Abs!Flag, Flag
  <1>3. \A a, b : Abs!Remainder(a, b) = Remainder(a, b) /\ Abs!Quotient(a, b) = Quotient(a, b)
    BY DEF Abs!Remainder, Remainder, Abs!Quotient, Quotient, Abs!Magnitude, Magnitude
  <1>4. \A a, b : Abs!FromBytes(a, b) = FromBytes(a, b) /\ Abs!ByteOf(a, b) = ByteOf(a, b)
    BY DEF Abs!FromBytes, FromBytes, Abs!Signed, Signed, Abs!ByteOf, ByteOf,
           Abs!Unsigned, Unsigned
  <1>5. \A a, b : Abs!AndBytes(a, b) = AndBytes(a, b) /\ Abs!OrBytes(a, b) = OrBytes(a, b)
    BY DEF Abs!AndBytes, AndBytes, Abs!OrBytes, OrBytes, Abs!Bit, Bit, Abs!BitIndex, BitIndex
  <1>6. \A a, b : Abs!Ors(a, b) = Ors(a, b) /\ Abs!Ands(a, b) = Ands(a, b)
    BY <1>4, <1>5 DEF Abs!Ors, Ors, Abs!Ands, Ands
  <1> QED BY <1>1, <1>2, <1>3, <1>4, <1>6

LEMMA SameStackWords ==
    /\ (Abs!Drop <=> Drop) /\ (Abs!Drop2 <=> Drop2) /\ (Abs!Dup <=> Dup)
    /\ (Abs!Dup2 <=> Dup2) /\ (Abs!Swap <=> Swap) /\ (Abs!Over <=> Over)
    /\ (Abs!Clearstack <=> Clearstack) /\ (Abs!ToR <=> ToR) /\ (Abs!FromR <=> FromR)
    /\ (Abs!CopyFromR <=> CopyFromR) /\ (Abs!DropR <=> DropR)
  BY SameTops, SameReplace
     DEF Abs!Drop, Drop, Abs!Drop2, Drop2, Abs!Dup, Dup, Abs!Dup2, Dup2, Abs!Swap, Swap,
         Abs!Over, Over, Abs!Clearstack, Clearstack, Abs!ToR, ToR, Abs!FromR, FromR,
         Abs!CopyFromR, CopyFromR, Abs!DropR, DropR, Abs!Needs, Needs

LEMMA SameArithmetic ==
    /\ \A op : Abs!Unop(op) <=> Unop(op)
    /\ \A op \in BinopWords : Abs!Binop(op) <=> Binop(op)
    /\ (Abs!CellWord <=> CellWord) /\ (Abs!CellPlus <=> CellPlus)
    /\ (Abs!CellsWord <=> CellsWord) /\ (Abs!CharPlus <=> CharPlus) /\ (Abs!Chars <=> Chars)
  <1>1. \A op, v : Abs!UnopResult(op, v) = UnopResult(op, v)
    BY SameCells DEF Abs!UnopResult, UnopResult
  <1>2. ASSUME NEW op \in BinopWords, NEW v1, NEW v2
        PROVE  Abs!BinopResults(op, v1, v2) = BinopResults(op, v1, v2)
    BY SameCells DEF Abs!BinopResults, BinopResults, BinopWords
  <1>3. \A op : Abs!Unop(op) <=> Unop(op)
    BY <1>1, SameTops, SameReplace DEF Abs!Unop, Unop
  <1>4. \A op \in BinopWords : Abs!Binop(op) <=> Binop(op)
    BY <1>2, SameTops, SameReplace DEF Abs!Binop, Binop, Abs!Needs, Needs
  <1> QED
    BY <1>3, <1>4, SameTops, SameReplace, SameCells
       DEF Abs!CellWord, CellWord, Abs!CellPlus, CellPlus, Abs!CellsWord, CellsWord,
           Abs!CharPlus, CharPlus, Abs!Chars, Chars

LEMMA SameMemoryWords ==
    /\ (Abs!Exclamation <=> Exclamation) /\ (Abs!PlusExclamation <=> PlusExclamation)
    /\ (Abs!At <=> At) /\ (Abs!Question <=> Question) /\ (Abs!CAt <=> CAt)
    /\ (Abs!CExclamation <=> CExclamation) /\ (Abs!Here <=> Here)
    /\ (Abs!Allot <=> Allot) /\ (Abs!Comma <=> Comma)
  <1> USE SameTops, SameReplace, SameCells DEF Abs!Needs, Needs, Abs!Access, Access
  <1>1. \A a : Abs!CellAt(a) = CellAt(a)
    BY DEF Abs!CellAt, CellAt
  <1>2. Abs!Address = Address
    BY DEF Abs!Address, Address
  <1>3. \A a, v : Abs!PutCell(a, v) <=> PutCell(a, v)
    BY <1>2 DEF Abs!PutCell, PutCell
  <1>4. \A a, v : Abs!Stores(a, v) <=> Stores(a, v)
    BY <1>3 DEF Abs!Stores, Stores
  <1>5. (Abs!Exclamation <=> Exclamation) /\ (Abs!PlusExclamation <=> PlusExclamation)
    BY <1>1, <1>4 DEF Abs!Exclamation, Exclamation, Abs!PlusExclamation, PlusExclamation
  <1>6. (Abs!At <=> At) /\ (Abs!Question <=> Question) /\ (Abs!CAt <=> CAt)
    BY <1>1 DEF Abs!At, At, Abs!Question, Question, Abs!CAt, CAt
  <1>7. (Abs!CExclamation <=> CExclamation) /\ (Abs!Here <=> Here)
    BY DEF Abs!CExclamation, CExclamation, Abs!Here, Here
  <1>8. (Abs!Allot <=> Allot) /\ (Abs!Comma <=> Comma)
    BY <1>2, <1>3 DEF Abs!Allot, Allot, Abs!Comma, Comma
  <1> QED BY <1>5, <1>6, <1>7, <1>8

LEMMA SameOutputWords ==
    (Abs!Dot <=> Dot) /\ (Abs!DotS <=> DotS) /\ (Abs!Emit <=> Emit)
  BY SameTops, SameReplace, SameCells
     DEF Abs!Needs, Needs, Abs!Dot, Dot, Abs!DotS, DotS, Abs!Emit, Emit

LEMMA SamePlainWords == ASSUME NEW w, PlainWord(w) PROVE Abs!PlainWord(w)
  <1>1. CASE (w = "." /\ Dot) \/ (w = ".S" /\ DotS) \/ (w = "EMIT" /\ Emit)
             \/ (w = "BYE" /\ Bye)
    BY <1>1, SameTops, SameOutputWords, Zenon DEF Abs!PlainWord
  <1>2. CASE \/ (w = "DROP" /\ Drop) \/ (w = "2DROP" /\ Drop2) \/ (w = "DUP" /\ Dup)
             \/ (w = "2DUP" /\ Dup2) \/ (w = "OVER" /\ Over) \/ (w = "SWAP" /\ Swap)
    BY <1>2, SameStackWords, Zenon DEF Abs!PlainWord
  <1>3. CASE \/ (w = "CLEARSTACK" /\ Clearstack)
             \/ (w = "R>" /\ FromR) \/ (w = ">R" /\ ToR)
             \/ (w = "R@" /\ CopyFromR) \/ (w = "RDROP" /\ DropR)
    BY <1>3, SameStackWords, Zenon DEF Abs!PlainWord
  <1>4. CASE \/ (w = "CELL" /\ CellWord) \/ (w = "CELL+" /\ CellPlus)
             \/ (w = "CELLS" /\ CellsWord) \/ (w = "CHAR+" /\ CharPlus)
             \/ (w = "CHARS" /\ Chars)
    BY <1>4, SameArithmetic, Zenon DEF Abs!PlainWord
  <1>5. CASE \/ (w = "HERE" /\ Here) \/ (w = "!" /\ Exclamation)
             \/ (w = "+!" /\ PlusExclamation) \/ (w = "@" /\ At) \/ (w = "?" /\ Question)
    BY <1>5, SameMemoryWords, Zenon DEF Abs!PlainWord
  <1>6. CASE \/ (w = "C!" /\ CExclamation) \/ (w = "C@" /\ CAt)
             \/ (w = "ALLOT" /\ Allot) \/ (w = "," /\ Comma)
    BY <1>6, SameMemoryWords, Zenon DEF Abs!PlainWord
  <1> QED BY <1>1, <1>2, <1>3, <1>4, <1>5, <1>6, Zenon DEF PlainWord

LEMMA SameDataWords ==
    /\ Abs!DataWords = DataWords /\ Abs!NamingWords = NamingWords
    /\ \A w : DataWord(w) => Abs!DataWord(w)
  <1>1. Abs!UnopWords = UnopWords /\ Abs!BinopWords = BinopWords /\ Abs!PlainWords = PlainWords
    BY DEF Abs!UnopWords, UnopWords, Abs!BinopWords, BinopWords, Abs!PlainWords, PlainWords
  <1>3. Abs!DataWords = DataWords /\ Abs!NamingWords = NamingWords
    BY <1>1 DEF Abs!DataWords, DataWords, Abs!NamingWords, NamingWords
  <1> QED BY <1>1, <1>3, SamePlainWords, SameArithmetic DEF Abs!DataWord, DataWord

LEMMA SameDefiningWords ==
    /\ \A w, name : Abs!NamingWord(w, name) <=> NamingWord(w, name)
    /\ \A name, entry : Abs!Define(name, entry) <=> Define(name, entry)
    /\ \A q : Abs!UserFunc(q) = UserFunc(q)
  <1>1. \A name, entry : Abs!Define(name, entry) <=> Define(name, entry)
    BY DEF Abs!Define, Define
  <1>2. \A v : Abs!Value(v) = Value(v) /\ Abs!UserFunc(v) = UserFunc(v)
    BY DEF Abs!Value, Value, Abs!UserFunc, UserFunc
  <1>3. \A name : /\ Abs!Constant(name) <=> Constant(name)
                  /\ Abs!Create(name) <=> Create(name)
                  /\ Abs!Variable(name) <=> Variable(name)
                  /\ Abs!Char(name) <=> Char(name)
    BY <1>1, <1>2, SameTops, SameReplace, SameCells
       DEF Abs!Needs, Needs, Abs!Constant, Constant, Abs!Create, Create,
           Abs!Variable, Variable, Abs!Char, Char
  <1> QED BY <1>1, <1>2, <1>3 DEF Abs!NamingWord, NamingWord

-----------------------------------------------------------------------------
(* A LEAVE takes two steps.                                                *)

LEMMA LeaveIsNoDataWord == "LEAVE" \notin DataWords \cup NamingWords
  <1>1. "LEAVE" \notin PlainWords
    BY Zenon DEF PlainWords
  <1>2. "LEAVE" \notin UnopWords \cup BinopWords \cup NamingWords
    BY DEF UnopWords, BinopWords, NamingWords
  <1> QED BY <1>1, <1>2 DEF DataWords

\* There is one first word.
LEMMA OneFirst ==
    ASSUME NEW S \in SUBSET Nat, NEW p, First(p, S), NEW q, First(q, S)
    PROVE  p = q
  BY DEF First

LEMMA OneWord ==
    ASSUME Inv, NEW p, First(p, WordsAfter(inputPtr)), NEW q, First(q, WordsAfter(inputPtr))
    PROVE  p = q
  <1>1. inputPtr \in Nat /\ WordsAfter(inputPtr) \in SUBSET Nat
    BY WordPositions DEF Inv, Typed, TypeOK
  <1> QED BY <1>1, OneFirst

\* In front of the LOOP a LEAVE has moved to, the index is one below the limit.
LeavesLoop ==
    leaving => /\ ~ compileMode /\ status = "running" /\ loopStack # <<>>
               /\ inputPtr < Len(input) /\ input[inputPtr + 1] \in {"LOOP", "+LOOP"}
               /\ Innermost.index = Wrap(Innermost.limit - 1)
HInv == Inv /\ leaving \in BOOLEAN /\ LeavesLoop

\* What a LEAVE that begins to leave does.
LeaveMoves(p, r) ==
    /\ input[p] = "LEAVE" /\ loopStack # <<>> /\ First(r, LoopStops(p))
    /\ loopStack' = Append(Outer, [Innermost EXCEPT !.index = Wrap(Innermost.limit - 1)])
    /\ inputPtr' = r - 1
    /\ UNCHANGED <<wordVars, input, compileMode, ptrStack, runs>>

LEMMA LeavesMoves ==
    ASSUME Inv, Next, Leaves
    PROVE  \E p \in WordsAfter(inputPtr) : \E r \in LoopStops(p) : LeaveMoves(p, r)
  <1>1. PICK p \in WordsAfter(inputPtr) :
            /\ First(p, WordsAfter(inputPtr)) /\ input[p] = "LEAVE"
    BY DEF Leaves
  <1>2. /\ status = "running" /\ status' = "running" /\ ~ compileMode
        /\ "LEAVE" \notin DOMAIN dict
    BY DEF Leaves
  <1>3. Step
    BY <1>2 DEF Next, Run, Terminated
  <1>4. Interpret("LEAVE", p)
    <2>1. PICK q \in WordsAfter(inputPtr) : /\ First(q, WordsAfter(inputPtr))
                                            /\ Interpret(input[q], q)
      BY <1>1, <1>2, <1>3 DEF Step
    <2>2. q = p
      BY <1>1, <2>1, OneWord
    <2> QED BY <1>1, <2>1, <2>2
  <1>5. ExecuteWord("LEAVE", p)
    BY <1>4 DEF Interpret
  <1>6. "LEAVE" \in Builtins
    BY Zenon DEF Builtins, ControlWords
  <1>7. Builtin("LEAVE", p)
    BY <1>2, <1>5, <1>6 DEF ExecuteWord
  <1>8. Leave(p)
    BY <1>7, LeaveIsNoDataWord, Zenon DEF Builtin, Immediate
  <1>9. \E r \in LoopStops(p) : LeaveMoves(p, r)
    BY <1>1, <1>2, <1>8 DEF Leave, Aborts, Fail, Stops, LeaveMoves, First
  <1> QED BY <1>9

\* The state of a loop that is left.
LEMMA Left ==
    ASSUME Inv, Inv', NEW p \in WordsAfter(inputPtr), NEW r \in LoopStops(p), LeaveMoves(p, r)
    PROVE  /\ loopStack' # <<>>
           /\ Innermost' = [Innermost EXCEPT !.index = Wrap(Innermost.limit - 1)]
           /\ Outer' = Outer
           /\ Innermost'.index = Wrap(Innermost'.limit - 1)
           /\ r \in Nat /\ r <= Len(input) /\ input[r] \in {"LOOP", "+LOOP"}
           /\ p < r /\ inputPtr' + 1 = r
  <1> DEFINE entry == [Innermost EXCEPT !.index = Wrap(Innermost.limit - 1)]
  <1>1. /\ Innermost \in LoopStates /\ Outer \in Seq(LoopStates)
    BY InnermostLoop DEF LeaveMoves
  <1>2. entry \in LoopStates /\ entry.limit = Innermost.limit
        /\ entry.index = Wrap(Innermost.limit - 1)
    <2>1. Wrap(Innermost.limit - 1) \in Cell
      <3>1. Innermost.limit - 1 \in Int
        BY <1>1, SmallCells DEF LoopStates, Cell
      <3> QED BY <3>1, WrapIsCell
    <2> QED BY <1>1, <2>1 DEF LoopStates
  <1>3. loopStack' = Append(Outer, entry)
    BY DEF LeaveMoves
  <1> HIDE DEF entry
  <1>4. loopStack' # <<>> /\ Innermost' = entry /\ Outer' = Outer
    <2>1. /\ Len(loopStack') = Len(Outer) + 1 /\ loopStack'[Len(Outer) + 1] = entry
          /\ Len(Outer) \in Nat
      BY <1>1, <1>2, <1>3
    <2>2. SubSeq(loopStack', 1, Len(loopStack') - 1) = Outer
      BY <1>1, <1>2, <1>3
    <2> QED BY <2>1, <2>2 DEF Innermost, Outer
  <1>5. /\ p \in Nat /\ r \in Nat /\ r <= Len(input) /\ input[r] \in {"LOOP", "+LOOP"}
        /\ p < r
    <2>1. p \in Nat
      BY WordPositions DEF Inv, Typed, TypeOK
    <2>2. r \in WordsAfter(p) /\ input[r] \in {"LOOP", "+LOOP"}
      BY DEF LoopStops
    <2> QED BY <2>1, <2>2, WordPositions
  <1>6. inputPtr' + 1 = r
    BY <1>5 DEF LeaveMoves
  <1> QED BY <1>2, <1>4, <1>5, <1>6 DEF entry

LEMMA HInitHolds == HInit => HInv
  BY InitHolds DEF HInit, HInv, LeavesLoop

LEMMA HNextKeeps == HInv /\ [HNext]_hvars => HInv'
  <1> SUFFICES ASSUME HInv, [HNext]_hvars PROVE HInv'
    OBVIOUS
  <1>1. Inv'
    BY NextKeeps DEF HInv, HNext, hvars
  <1>2. CASE UNCHANGED hvars
    BY <1>1, <1>2 DEF HInv, LeavesLoop, hvars, vars, wordVars, controlVars, Innermost
  <1>3. CASE HNext
    <2>1. leaving' \in BOOLEAN /\ (leaving' <=> Leaves)
      BY <1>3 DEF HNext, Leaves
    <2>2. ASSUME Leaves PROVE LeavesLoop'
      <3>0. PICK p \in WordsAfter(inputPtr) : \E r \in LoopStops(p) : LeaveMoves(p, r)
        BY <1>3, <2>2, LeavesMoves DEF HInv, HNext
      <3>1. PICK r \in LoopStops(p) : LeaveMoves(p, r)
        BY <3>0
      <3>2. ~ compileMode' /\ status' = "running" /\ input' = input
        BY <2>2, <3>1 DEF Leaves, LeaveMoves
      <3>3. inputPtr' \in Nat /\ Len(input) \in Nat
        BY <1>1, InputIsSeq DEF HInv, Inv, Typed, TypeOK
      <3>4. /\ loopStack' # <<>> /\ inputPtr' < Len(input)
            /\ input[inputPtr' + 1] \in {"LOOP", "+LOOP"}
            /\ Innermost'.index = Wrap(Innermost'.limit - 1)
        BY <1>1, <3>1, <3>3, Left DEF HInv
      <3> QED BY <3>2, <3>4 DEF LeavesLoop
    <2> QED BY <1>1, <2>1, <2>2 DEF HInv, LeavesLoop
  <1> QED BY <1>2, <1>3

-----------------------------------------------------------------------------
(* The steps of the machine with jumps.                                    *)

\* goforth handles the word at p, outside of a definition, as listed nowhere.
Turn(p) ==
    /\ HInv /\ ~ leaving /\ ~ compileMode /\ status = "running"
    /\ First(p, WordsAfter(inputPtr)) /\ (leaving' <=> Leaves) /\ ~ Diverges

LEMMA TurnIs ==
    ASSUME NEW p, Turn(p)
    PROVE  /\ Inv /\ input \in Seq(STRING)
           /\ p \in WordsAfter(inputPtr) /\ p \in DOMAIN input /\ p \in Nat
           /\ p \in 0 .. Len(input)
           /\ Position = inputPtr /\ LoopsLeft = loopStack
           /\ Reads(input[p], p)
           /\ ~ SkipsToOtherBranch(p) /\ ~ SkipsToOtherLoop(p) /\ ~ Redefined(p) /\ ~ Unmatched(p)
  <1>1. Inv /\ input \in Seq(STRING) /\ inputPtr \in Nat /\ p \in WordsAfter(inputPtr)
    BY InputIsSeq DEF Turn, HInv, Inv, Typed, TypeOK, First
  <1>2. p \in DOMAIN input /\ p \in Nat /\ p \in 0 .. Len(input)
    BY <1>1, AfterIs
  <1>3. Position = inputPtr /\ LoopsLeft = loopStack
    BY DEF Turn, Position, LoopsLeft
  <1>4. Reads(input[p], p)
    BY DEF Turn, Reads
  <1>5. ~ SkipsToOtherBranch(p) /\ ~ SkipsToOtherLoop(p) /\ ~ Redefined(p) /\ ~ Unmatched(p)
    BY <1>1 DEF Turn, Diverges
  <1> QED BY <1>1, <1>2, <1>3, <1>4, <1>5

LEMMA NotLeaving ==
    ASSUME Inv, NEW p, First(p, WordsAfter(inputPtr)),
           input[p] # "LEAVE" \/ "LEAVE" \in DOMAIN dict \/ status' # "running"
    PROVE  ~ Leaves
  BY OneWord DEF Leaves

\* Where the machine is when goforth has gone on.
LEMMA TurnEnds ==
    ASSUME NEW p, Turn(p), UNCHANGED <<input, compileMode>>,
           input[p] # "LEAVE" \/ "LEAVE" \in DOMAIN dict \/ status' # "running"
    PROVE  /\ ~ leaving' /\ Position' = inputPtr' /\ LoopsLeft' = loopStack'
           /\ \A q : Abs!Goto(q) <=> inputPtr' = q
  <1>1. ~ leaving' /\ ~ compileMode'
    BY NotLeaving DEF Turn, HInv
  <1>2. Position' = inputPtr' /\ LoopsLeft' = loopStack'
    BY <1>1 DEF Position, LoopsLeft
  <1> QED BY <1>1, <1>2 DEF Abs!Goto

\* An error of goforth is one of the machine.
LEMMA AbortsRejects == ASSUME NEW p, Turn(p), Aborts PROVE Abs!Rejects
  <1>1. Fail /\ UNCHANGED <<input, inputPtr, compileMode, ptrStack, loopStack>> /\ status' = "fatal"
    BY DEF Aborts, Fail, Stops, controlVars
  <1>2. Position' = Position /\ LoopsLeft' = LoopsLeft
    BY <1>1, TurnIs, TurnEnds
  <1> QED BY <1>1, <1>2, SameTops DEF Abs!Rejects

\* The next word is a builtin, a word of a structure or a number; no word at
\* all; a definition; or a constant.
LEMMA WordSteps ==
    ASSUME NEW p, Turn(p),
           \/ input[p] \notin DOMAIN dict /\ Abs!Word(input[p], p)
           \/ input[p] \notin DOMAIN dict \cup Abs!Known /\ Abs!Rejects
           \/ input[p] \in DOMAIN dict /\ dict[input[p]].kind = "user" /\ Abs!Call(input[p], p)
           \/ /\ input[p] \in DOMAIN dict /\ dict[input[p]].kind = "value"
              /\ Abs!Data(Push(dict[input[p]].val), p)
    PROVE  Abs!Next
  <1>1. /\ status = "running" /\ p \in Abs!WordsAfter(Position)
        /\ Abs!First(p, Abs!WordsAfter(Position))
    BY TurnIs, SameStructure DEF Turn
  <1>2. Abs!Data(Push(dict[input[p]].val), p) => Abs!Data(Abs!Push(dict[input[p]].val), p)
    BY SameReplace DEF Abs!Data
  <1> QED BY <1>1, <1>2 DEF Abs!Next

\* A word that leaves the loops as they are.
LEMMA TurnGoes ==
    ASSUME NEW p, Turn(p), NEW q, inputPtr' = q,
           UNCHANGED <<input, compileMode, ptrStack, loopStack>>,
           input[p] # "LEAVE" \/ "LEAVE" \in DOMAIN dict \/ status' # "running"
    PROVE  Abs!Goto(q) /\ UNCHANGED <<LoopsLeft, ptrStack>>
  BY TurnIs, TurnEnds

\* A word is a step of the machine, if what it does is.
LEMMA BuiltinSteps ==
    ASSUME NEW p, Turn(p), input[p] \notin DOMAIN dict, Abs!Word(input[p], p)
    PROVE  Abs!Next
  BY WordSteps

-----------------------------------------------------------------------------
(* The words, one by one.                                                  *)

LEMMA EntrySteps ==
    ASSUME NEW p, Turn(p), input[p] \in DOMAIN dict,
           \/ dict[input[p]].kind = "user" /\ CallUser(input[p], p)
           \/ dict[input[p]].kind = "value" /\ Computes(p, Push(dict[input[p]].val))
    PROVE  Abs!Next
  <1>1. input[p] # "LEAVE" \/ "LEAVE" \in DOMAIN dict
    OBVIOUS
  <1>2. CASE dict[input[p]].kind = "user" /\ CallUser(input[p], p)
    <2>1. /\ inputPtr' = dict[input[p]].ptr /\ ptrStack' = Append(ptrStack, p)
          /\ UNCHANGED <<wordVars, input, compileMode, loopStack>>
      BY <1>2 DEF CallUser
    <2>2. Abs!Goto(dict[input[p]].ptr) /\ LoopsLeft' = LoopsLeft
      BY <1>1, <2>1, TurnIs, TurnEnds
    <2>3. Abs!Call(input[p], p)
      BY <2>1, <2>2 DEF Abs!Call, Abs!wordVars, wordVars
    <2> QED BY <1>2, <2>3, WordSteps
  <1>3. CASE dict[input[p]].kind = "value" /\ Computes(p, Push(dict[input[p]].val))
    <2>1. Push(dict[input[p]].val) /\ Abs!Goto(p) /\ UNCHANGED <<LoopsLeft, ptrStack>>
      BY <1>1, <1>3, TurnGoes DEF Computes
    <2>2. Abs!Data(Push(dict[input[p]].val), p)
      BY <2>1 DEF Abs!Data
    <2> QED BY <1>3, <2>2, WordSteps
  <1> QED BY <1>2, <1>3

LEMMA DataWordSteps ==
    ASSUME NEW p, Turn(p), input[p] \in DataWords \ DOMAIN dict,
           Computes(p, DataWord(input[p]))
    PROVE  Abs!Next
  <1>1. DataWord(input[p]) /\ Abs!Goto(p) /\ UNCHANGED <<LoopsLeft, ptrStack>>
    BY TurnGoes, LeaveIsNoDataWord DEF Computes
  <1>2. Abs!Data(Abs!DataWord(input[p]), p)
    BY <1>1, SameDataWords DEF Abs!Data
  <1>3. Abs!Word(input[p], p)
    BY <1>2, SameDataWords, Zenon DEF Abs!Word
  <1> QED BY <1>3, BuiltinSteps

LEMMA NumberSteps ==
    ASSUME NEW p, Turn(p), input[p] \in DOMAIN Numbers \ DOMAIN dict, input[p] \notin Builtins,
           Computes(p, Push(Numbers[input[p]]))
    PROVE  Abs!Next
  <1>1. "LEAVE" \in Builtins
    BY Zenon DEF Builtins, ControlWords
  <1>2. Push(Numbers[input[p]]) /\ Abs!Goto(p) /\ UNCHANGED <<LoopsLeft, ptrStack>>
    BY <1>1, TurnGoes DEF Computes
  <1>3. Abs!Data(Abs!Push(Numbers[input[p]]), p)
    BY <1>2, SameReplace DEF Abs!Data
  <1>4. Abs!Word(input[p], p)
    BY <1>3, Zenon DEF Abs!Word
  <1> QED BY <1>4, BuiltinSteps

\* No word Forth knows.
LEMMA UnknownSteps ==
    ASSUME NEW p, Turn(p), input[p] \notin DOMAIN dict \cup Builtins \cup DOMAIN Numbers,
           input[p] \notin FrameWords[Frame], Aborts
    PROVE  Abs!Next
  <1> DEFINE w == input[p]
             LoopEnds == {"LOOP", "+LOOP", "-LOOP"}
  <1>1. Abs!Rejects /\ status' = "fatal"
    BY AbortsRejects DEF Aborts, Fail, Stops
  <1>2. CASE w \in {"ELSE", "THEN"}
    BY <1>1, <1>2, TurnIs DEF Unmatched
  <1>3. CASE w \in LoopEnds
    <2>1. Frame # "do"
      <3>1. Frame = "do" => FrameWords[Frame] = {"LOOP", "+LOOP", "-LOOP", "DO"}
        BY DEF FrameWords
      <3> QED BY <1>3, <3>1
    <2>2. loopStack = <<>>
      BY <1>1, <1>3, <2>1, TurnIs DEF Unmatched, Structure!LoopEnds
    <2>3. /\ w = "LOOP" => Abs!Loop(p)
          /\ w = "+LOOP" => Abs!PlusLoop(p)
          /\ w = "-LOOP" => Abs!MinusLoop(p)
      BY <1>1, <2>2, TurnIs DEF Abs!Loop, Abs!PlusLoop, Abs!MinusLoop, Abs!EndOfBody, Abs!InLoop
    <2>4. Abs!Word(w, p)
      BY <1>3, <2>3, Zenon DEF Abs!Word
    <2> QED BY <2>4, BuiltinSteps
  <1>4. CASE w \notin {"ELSE", "THEN"} \cup LoopEnds
    <2>1. w \notin Abs!Known
      BY <1>4, SameDataWords, Zenon
         DEF Abs!Known, Abs!LoopEnds, Builtins, ControlWords
    <2> QED BY <1>1, <2>1, WordSteps
  <1> QED BY <1>2, <1>3, <1>4

LEMMA LoopIndexSteps ==
    ASSUME NEW p, Turn(p), input[p] \in {"I", "J", "K"} \ DOMAIN dict, LoopIndex(input[p], p)
    PROVE  Abs!Next
  <1> DEFINE depth == CASE input[p] = "I" -> 0 [] input[p] = "J" -> 1 [] input[p] = "K" -> 2
  <1>1. input[p] # "LEAVE"
    OBVIOUS
  <1>2. Abs!LoopIndex(p, depth)
    <2> HIDE DEF depth
    <2>1. CASE /\ Len(loopStack) > depth
               /\ Computes(p, Push(loopStack[Len(loopStack) - depth].index))
      <3>1. /\ Push(loopStack[Len(loopStack) - depth].index)
            /\ Abs!Goto(p) /\ UNCHANGED <<LoopsLeft, ptrStack>>
        BY <1>1, <2>1, TurnGoes DEF Computes
      <3> QED BY <2>1, <3>1, TurnIs, SameReplace DEF Abs!LoopIndex, Abs!Data
    <2>2. CASE Len(loopStack) <= depth /\ Aborts
      BY <2>2, AbortsRejects, TurnIs DEF Abs!LoopIndex
    <2> QED BY <2>1, <2>2 DEF LoopIndex, depth
  <1>3. /\ input[p] = "I" => Abs!LoopIndex(p, 0)
        /\ input[p] = "J" => Abs!LoopIndex(p, 1)
        /\ input[p] = "K" => Abs!LoopIndex(p, 2)
    BY <1>2
  <1>4. Abs!Word(input[p], p)
    BY <1>3, Zenon DEF Abs!Word
  <1> QED BY <1>4, BuiltinSteps

LEMMA ImmediateSteps ==
    ASSUME NEW p, Turn(p), input[p] \in Immediate \ DOMAIN dict, ImmediateWord(input[p], p)
    PROVE  Abs!Next
  <1>0. input[p] # "LEAVE" /\ Structure!Extent(p) \in Nat
    <2>1. Structure!Extent(p) \in p .. Len(input)
      BY TurnIs, ExtentIs
    <2>2. Structure!Extent(p) \in Nat
      BY <2>1, TurnIs
    <2> QED BY <2>2 DEF Immediate
  <1>1. ASSUME NEW token, SkipsTo(token, p, Structure!Extent(p)), NEW q, SkipsTo(token, p, q)
        PROVE  q = Structure!Extent(p)
    BY <1>1, TurnIs DEF SkipsTo, First
  <1>2. ASSUME NEW token, SkipsTo(token, p, Structure!Extent(p)), Comment(token, p)
        PROVE  Abs!Comment(p)
    <2>1. inputPtr' = Structure!Extent(p)
      BY <1>1, <1>2 DEF Comment
    <2>2. Abs!Goto(Structure!Extent(p)) /\ UNCHANGED <<LoopsLeft, ptrStack>>
      BY <1>0, <1>2, <2>1, TurnGoes DEF Comment
    <2> QED BY <1>2, <2>2, SameStructure DEF Comment, Abs!Comment, Abs!wordVars, wordVars
  <1>3. CASE input[p] = "(" /\ Comment(")", p)
    <2>1. Abs!Comment(p)
      BY <1>2, <1>3, TurnIs, ExtentIs
    <2>2. Abs!Word(input[p], p)
      BY <1>3, <2>1, Zenon DEF Abs!Word
    <2> QED BY <2>2, BuiltinSteps
  <1>4. CASE input[p] = "\\" /\ Comment(NL, p)
    <2>1. Abs!Comment(p)
      BY <1>2, <1>4, TurnIs, ExtentIs
    <2>2. Abs!Word(input[p], p)
      BY <1>4, <2>1, Zenon DEF Abs!Word
    <2> QED BY <2>2, BuiltinSteps
  <1>5. CASE input[p] = ".\"" /\ DotQuote(p)
    <2> DEFINE quotes == {q \in p + 1 .. Len(input) : input[q] = Quote}
    <2>1. status' \notin {"fatal", "crash"}
      BY <1>5, TurnIs DEF Unmatched
    <2>2. PICK q \in quotes : /\ First(q, quotes) /\ inputPtr' = q
                              /\ Write(0, <<"text", SubSeq(input, p + 1, q - 1)>>)
                              /\ UNCHANGED <<input, compileMode, ptrStack, loopStack>>
      BY <1>5, <2>1 DEF DotQuote, Turn, Aborts, Fail, Crash, Stops
    <2>3. q = Structure!Extent(p)
      <3>1. SkipsTo(Quote, p, q)
        BY <2>2 DEF SkipsTo
      <3> QED BY <1>1, <1>5, <3>1, TurnIs, ExtentIs
    <2>4. Abs!Goto(Structure!Extent(p)) /\ UNCHANGED <<LoopsLeft, ptrStack>>
      BY <1>0, <2>2, <2>3, TurnGoes
    <2>5. Abs!DotQuote(p)
      BY <2>2, <2>3, <2>4, SameReplace, SameStructure DEF Abs!DotQuote
    <2>6. Abs!Word(input[p], p)
      BY <1>5, <2>5, Zenon DEF Abs!Word
    <2> QED BY <2>6, BuiltinSteps
  <1> QED BY <1>3, <1>4, <1>5 DEF ImmediateWord

LEMMA NamingSteps ==
    ASSUME NEW p, Turn(p), input[p] \in NamingWords \ DOMAIN dict, Naming(input[p], p)
    PROVE  Abs!Next
  <1>1. input[p] # "LEAVE"
    BY LeaveIsNoDataWord
  <1>2. Abs!Naming(input[p], p)
    <2>1. CASE WordsAfter(p) = {} /\ Aborts
      BY <2>1, AbortsRejects, SameStructure DEF Abs!Naming, Abs!WithName
    <2>2. ASSUME NEW q \in WordsAfter(p), First(q, WordsAfter(p)),
                 Computes(q, NamingWord(input[p], input[q]))
          PROVE  Abs!Naming(input[p], p)
      <3>1. q = Structure!Extent(p)
        <4>1. First(Structure!Extent(p), WordsAfter(p))
          BY <2>2, TurnIs, ExtentIs
        <4>2. WordsAfter(p) \in SUBSET Nat
          BY TurnIs, WordPositions
        <4> QED BY <2>2, <4>1, <4>2, OneFirst
      <3>2. /\ NamingWord(input[p], input[q]) /\ Abs!Goto(q)
            /\ UNCHANGED <<LoopsLeft, ptrStack>>
        BY <1>1, <2>2, TurnGoes DEF Computes
      <3>3. WordsAfter(p) # {}
        BY <2>2
      <3> QED BY <3>1, <3>2, <3>3, SameStructure, SameDefiningWords
              DEF Abs!Naming, Abs!WithName
    <2> QED BY <2>1, <2>2 DEF Naming
  <1>3. Abs!Word(input[p], p)
    BY <1>2, SameDataWords, Zenon DEF Abs!Word
  <1> QED BY <1>3, BuiltinSteps

LEMMA ColonSteps ==
    ASSUME NEW p, Turn(p), input[p] = ":", input[p] \notin DOMAIN dict, Colon(p)
    PROVE  Abs!Next
  <1>1. CASE WordsAfter(p) = {} /\ Aborts
    <2>1. Abs!Colon(p)
      BY <1>1, AbortsRejects, SameStructure, Zenon DEF Abs!Colon, Abs!WithName
    <2> QED BY <2>1, BuiltinSteps, Zenon DEF Abs!Word
  <1>2. CASE WordsAfter(p) # {}
    <2>1. PICK q \in WordsAfter(p) :
              /\ First(q, WordsAfter(p)) /\ inputPtr' = q
              /\ \/ input[q] = END /\ UNCHANGED <<wordVars, compileMode>>
                 \/ /\ input[q] # END
                    /\ Define(input[q], UserFunc(q)) /\ compileMode' = TRUE
                    /\ UNCHANGED <<dataStack, returnStack, memory, memptr, stdout, status>>
              /\ UNCHANGED <<input, ptrStack, loopStack>>
      BY <1>2, Zenon DEF Colon, END
    <2>2. q = Structure!Extent(p) /\ q = Abs!Extent(p)
      <3>1. First(Structure!Extent(p), WordsAfter(p))
        BY <1>2, TurnIs, ExtentIs
      <3>2. WordsAfter(p) \in SUBSET Nat
        BY TurnIs, WordPositions
      <3> QED BY <2>1, <3>1, <3>2, OneFirst, SameStructure
    <2>3. ~ leaving' /\ LoopsLeft' = LoopsLeft
      <3>1. ~ Leaves
        BY NotLeaving, TurnIs DEF Turn
      <3> QED BY <2>1, <3>1, TurnIs DEF Turn, LoopsLeft
    <2>4. CASE input[q] = END /\ UNCHANGED <<wordVars, compileMode>>
      <3>1. Abs!Goto(q) /\ UNCHANGED <<LoopsLeft, ptrStack>>
        BY <2>1, <2>4, TurnGoes
      <3>2. Abs!Colon(p)
        BY <1>2, <2>2, <2>4, <3>1, SameStructure, Zenon
           DEF Abs!Colon, Abs!WithName, END, Abs!wordVars, wordVars
      <3> QED BY <3>2, BuiltinSteps, Zenon DEF Abs!Word
    <2>5. CASE /\ input[q] # END
               /\ Define(input[q], UserFunc(q)) /\ compileMode' = TRUE
               /\ UNCHANGED <<dataStack, returnStack, memory, memptr, stdout, status>>
      <3>1. Position' = Structure!BodyEnd(q)
        BY <2>1, <2>3, <2>5, NextPosition
      <3>2. Abs!Goto(Abs!BodyEnd(q)) /\ UNCHANGED <<LoopsLeft, ptrStack>>
        BY <2>1, <2>3, <3>1, SameStructure DEF Abs!Goto
      <3>3. Abs!Define(input[q], Abs!UserFunc(q))
        BY <2>5, SameDefiningWords
      <3>4. Abs!Colon(p)
        BY <1>2, <2>2, <2>5, <3>2, <3>3, SameStructure, Zenon
           DEF Abs!Colon, Abs!WithName, END
      <3> QED BY <3>4, BuiltinSteps, Zenon DEF Abs!Word
    <2> QED BY <2>1, <2>4, <2>5
  <1> QED BY <1>1, <1>2 DEF Colon

LEMMA SemicolonSteps ==
    ASSUME NEW p, Turn(p), input[p] = END, input[p] \notin DOMAIN dict, Semicolon
    PROVE  Abs!Next
  <1>1. END # "LEAVE"
    BY Zenon DEF END
  <1>2. ASSUME ptrStack = <<>>, Aborts PROVE Abs!Semicolon
    BY <1>2, AbortsRejects DEF Abs!Semicolon
  <1>3. ASSUME ptrStack # <<>> PROVE Abs!Semicolon
    <2>1. /\ inputPtr' = ptrStack[Len(ptrStack)]
          /\ ptrStack' = SubSeq(ptrStack, 1, Len(ptrStack) - 1)
          /\ UNCHANGED <<wordVars, input, compileMode, loopStack>>
      BY <1>3 DEF Semicolon
    <2>2. Abs!Goto(ptrStack[Len(ptrStack)]) /\ LoopsLeft' = LoopsLeft
      BY <1>1, <2>1, TurnIs, TurnEnds
    <2> QED BY <1>3, <2>1, <2>2 DEF Abs!Semicolon, Abs!wordVars, wordVars
  <1>4. Abs!Semicolon
    BY <1>2, <1>3 DEF Semicolon
  <1>5. Abs!Word(input[p], p)
    BY <1>4, Zenon DEF Abs!Word, END
  <1> QED BY <1>5, BuiltinSteps

-----------------------------------------------------------------------------
(* IF and the loops.                                                       *)

LEMMA EmptyReplaces ==
    ASSUME Inv, Replace(0, <<>>)
    PROVE  UNCHANGED wordVars
  <1>1. dataStack \in Seq(Cell) /\ Depth \in Nat
    BY DEF Inv, Typed, TypeOK, WordsTypeOK, Depth
  <1>2. Rest(0) = dataStack
    BY <1>1 DEF Rest, Depth
  <1>3. dataStack \o <<>> = dataStack
    BY <1>1
  <1>4. /\ dataStack' = Rest(0) \o <<>>
        /\ UNCHANGED <<returnStack, memory, memptr, dict, stdout, status>>
    BY <1>1 DEF Replace, Needs
  <1> QED BY <1>2, <1>3, <1>4 DEF wordVars

LEMMA IfSteps ==
    ASSUME NEW p, Turn(p), input[p] = "IF", "IF" \notin DOMAIN dict, If(p)
    PROVE  Abs!Next
  <1>1. ASSUME Depth < 1, Aborts PROVE Abs!If(p)
    BY <1>1, AbortsRejects, SameTops DEF Abs!If, Abs!Pops
  <1>2. Depth \in Nat /\ (Depth >= 1 => ~ Aborts)
    <2>1. Depth \in Nat
      BY TurnIs, TopsAreCells DEF Inv, Typed, TypeOK
    <2>2. Reads("IF", p) /\ ~ Unmatched(p)
      BY TurnIs
    <2>3. ~ (status' = "fatal" /\ Depth > 0)
      BY <2>2 DEF Unmatched
    <2>4. Depth >= 1 => Depth > 0
      BY <2>1
    <2> QED BY <2>1, <2>3, <2>4 DEF Aborts, Fail, Stops
  <1>3. ASSUME Depth >= 1, Top # 0, inputPtr' = p, Replace(1, <<>>),
               UNCHANGED <<input, compileMode, ptrStack, loopStack>>
        PROVE  Abs!If(p)
    <2>1. Abs!Goto(p) /\ UNCHANGED <<LoopsLeft, ptrStack>>
      BY <1>3, TurnGoes
    <2> QED BY <1>3, <2>1, SameTops, SameReplace DEF Abs!If, Abs!Pops
  <1>4. ASSUME NEW r, First(r, IfStops(p, {"ELSE", "THEN"})),
               Depth >= 1, Top = 0, inputPtr' = r, Replace(1, <<>>),
               UNCHANGED <<input, compileMode, ptrStack, loopStack>>
        PROVE  Abs!If(p)
    <2>1. Abs!Goto(r) /\ UNCHANGED <<LoopsLeft, ptrStack>>
      BY <1>4, TurnGoes
    <2>2. Executes("IF", p)
      <3>1. status' = "running"
        BY <1>2, <1>4 DEF Replace, Needs, Turn
      <3> QED BY <3>1, TurnIs DEF Executes, Turn
    <2>3. /\ ~ Hides(p, r, {"IF", "ELSE", "THEN"})
          /\ input[r] = "ELSE" => Between(p, r, {"IF"}) = Between(p, r, {"THEN"})
      BY <1>4, <2>2, TurnIs DEF SkipsToOtherBranch
    <2>4. Structure!BranchAfter(p) = r
      BY <1>4, <2>3, TurnIs, BranchIs DEF Structure!BranchAfter
    <2> QED BY <1>4, <2>1, <2>4, SameTops, SameReplace, SameStructure DEF Abs!If, Abs!Pops
  <1>5. Abs!If(p)
    <2>1. CASE Depth < 1 /\ Aborts
      BY <1>1, <2>1
    <2> QED BY <1>2, <1>3, <1>4, <2>1 DEF If, Pops
  <1>6. Abs!Word(input[p], p)
    BY <1>5, Zenon DEF Abs!Word
  <1> QED BY <1>6, BuiltinSteps

LEMMA ElseSteps ==
    ASSUME NEW p, Turn(p), input[p] = "ELSE", "ELSE" \notin DOMAIN dict, EndOfTrueBranch(p)
    PROVE  Abs!Next
  <1>1. ~ Aborts
    BY TurnIs DEF Unmatched, Aborts, Fail, Stops
  <1>2. PICK r : /\ First(r, IfStops(p, {"THEN"})) /\ inputPtr' = r
                 /\ UNCHANGED <<wordVars, input, compileMode, ptrStack, loopStack>>
    BY <1>1 DEF EndOfTrueBranch
  <1>3. Executes("ELSE", p)
    BY <1>2, TurnIs DEF Executes, Turn, wordVars
  <1>4. ~ Hides(p, r, {"IF", "ELSE", "THEN"}) /\ input[r] = "THEN"
    BY <1>2, <1>3, TurnIs DEF SkipsToOtherBranch, IfStops, First
  <1>5. Structure!ThenAfter(p) = r
    BY <1>2, <1>4, TurnIs, BranchIs DEF Structure!ThenAfter
  <1>6. Abs!Goto(r) /\ UNCHANGED <<LoopsLeft, ptrStack>>
    BY <1>2, TurnGoes
  <1>7. Abs!Else(p)
    BY <1>2, <1>5, <1>6, SameStructure DEF Abs!Else, Abs!wordVars, wordVars
  <1>8. Abs!Word(input[p], p)
    BY <1>7, Zenon DEF Abs!Word
  <1> QED BY <1>8, BuiltinSteps

LEMMA ThenSteps ==
    ASSUME NEW p, Turn(p), input[p] = "THEN", "THEN" \notin DOMAIN dict, EndOfIf(p)
    PROVE  Abs!Next
  <1>1. Abs!Goto(p) /\ UNCHANGED <<LoopsLeft, ptrStack>>
    BY TurnGoes DEF EndOfIf
  <1>2. Abs!Then(p)
    BY <1>1 DEF EndOfIf, Abs!Then, Abs!wordVars, wordVars
  <1>3. Abs!Word(input[p], p)
    BY <1>2, Zenon DEF Abs!Word
  <1> QED BY <1>3, BuiltinSteps

LEMMA DoSteps ==
    ASSUME NEW p, Turn(p), input[p] \in {"DO", "?DO"} \ DOMAIN dict, Do(input[p], p)
    PROVE  Abs!Next
  <1> DEFINE w == input[p]
  <1>1. ASSUME Depth < 2, Aborts PROVE Abs!Do(w, p)
    BY <1>1, AbortsRejects, SameTops DEF Abs!Do, Abs!Pops
  <1>2. Depth \in Nat /\ (Depth >= 2 /\ w = "?DO" => ~ Aborts)
    <2>1. Depth \in Nat
      BY TurnIs, TopsAreCells DEF Inv, Typed, TypeOK
    <2>2. w = "?DO" => Reads("?DO", p) /\ ~ Unmatched(p)
      BY TurnIs
    <2>3. ~ (status' = "fatal" /\ w = "?DO" /\ Depth > 1)
      BY <2>2 DEF Unmatched
    <2>4. Depth >= 2 => Depth > 1
      BY <2>1
    <2> QED BY <2>1, <2>3, <2>4 DEF Aborts, Fail, Stops
  <1>3. ASSUME Depth >= 2, ~ (w = "?DO" /\ Top = Second), inputPtr' = p, Replace(2, <<>>),
               loopStack' = Append(loopStack, LoopState(Top, Second, p)),
               UNCHANGED <<input, compileMode, ptrStack>>
        PROVE  Abs!Do(w, p)
    <2>1. Abs!Goto(p) /\ LoopsLeft' = loopStack'
      BY <1>3, TurnEnds
    <2>2. LoopsLeft' = Append(LoopsLeft, [index |-> Top, limit |-> Second, startPtr |-> p])
      BY <1>3, <2>1, TurnIs DEF LoopState
    <2> QED BY <1>3, <2>1, <2>2, SameTops, SameReplace DEF Abs!Do, Abs!Pops
  <1>4. ASSUME NEW r, First(r, LoopStops(p)), Depth >= 2, w = "?DO", Top = Second,
               inputPtr' = r, Replace(2, <<>>),
               UNCHANGED <<input, compileMode, ptrStack, loopStack>>
        PROVE  Abs!Do(w, p)
    <2>1. Abs!Goto(r) /\ UNCHANGED <<LoopsLeft, ptrStack>>
      BY <1>4, TurnGoes
    <2>2. Executes("?DO", p)
      <3>1. status' = "running"
        BY <1>2, <1>4 DEF Replace, Needs, Turn
      <3> QED BY <1>4, <3>1, TurnIs DEF Executes, Turn
    <2>3. /\ ~ Hides(p, r, {"DO", "?DO"} \cup Structure!LoopEnds)
          /\ \A i \in p + 1 .. r - 1 : input[i] \notin {"?DO", "-LOOP"}
      BY <1>4, <2>2, TurnIs DEF SkipsToOtherLoop
    <2>4. Structure!LoopEndAfter(p) = r
      BY <1>4, <2>3, TurnIs, LoopEndIs
    <2> QED BY <1>4, <2>1, <2>4, SameTops, SameReplace, SameStructure DEF Abs!Do, Abs!Pops
  <1>5. Abs!Do(w, p)
    <2>1. CASE Depth < 2 /\ Aborts
      BY <1>1, <2>1
    <2> QED BY <1>2, <1>3, <1>4, <2>1 DEF Do, Pops
  <1>6. Abs!Word(w, p)
    BY <1>5, Zenon DEF Abs!Word
  <1> QED BY <1>6, BuiltinSteps

\* The three words that end a body.
LEMMA BodyEnds ==
    ASSUME NEW p, Turn(p), input[p] \in {"LOOP", "+LOOP", "-LOOP"} \ DOMAIN dict,
           NEW n, NEW index, NEW done, EndOfBody(p, n, index, done)
    PROVE  Abs!EndOfBody(p, n, index, done)
  <1>1. /\ Abs!Innermost = Innermost /\ Abs!Outer = Outer /\ LoopsLeft = loopStack
    BY TurnIs DEF Abs!Innermost, Innermost, Abs!Outer, Outer
  <1>2. CASE (loopStack = <<>> \/ Depth < n) /\ Aborts
    BY <1>1, <1>2, AbortsRejects, SameTops DEF Abs!EndOfBody, Abs!InLoop, Abs!Pops
  <1>3. ASSUME loopStack # <<>>, Depth >= n, Replace(n, <<>>), UNCHANGED <<input, compileMode, ptrStack>>,
               \/ done /\ loopStack' = Outer /\ inputPtr' = p
               \/ /\ ~ done /\ loopStack' = Append(Outer, [Innermost EXCEPT !.index = index])
                  /\ inputPtr' = Innermost.startPtr
        PROVE  Abs!EndOfBody(p, n, index, done)
    <2>1. LoopsLeft' = loopStack' /\ \A q : Abs!Goto(q) <=> inputPtr' = q
      BY <1>3, TurnEnds
    <2> QED BY <1>1, <1>3, <2>1, SameTops, SameReplace DEF Abs!EndOfBody, Abs!InLoop, Abs!Pops
  <1> QED BY <1>2, <1>3 DEF EndOfBody

LEMMA LoopSteps ==
    ASSUME NEW p, Turn(p), input[p] \notin DOMAIN dict,
           \/ input[p] = "LOOP" /\ Loop(p)
           \/ input[p] = "+LOOP" /\ PlusLoop(p)
           \/ input[p] = "-LOOP" /\ MinusLoop(p)
    PROVE  Abs!Next
  <1>1. /\ Abs!Innermost = Innermost /\ \A delta : Abs!Moved(delta) = Moved(delta)
    BY TurnIs, SameCells DEF Abs!Innermost, Innermost, Abs!Moved, Moved
  <1>2. ASSUME input[p] = "LOOP", Loop(p) PROVE Abs!Word(input[p], p)
    <2>1. Abs!EndOfBody(p, 0, Moved(1), Moved(1) >= Innermost.limit)
      BY <1>2, BodyEnds DEF Loop
    <2>2. Abs!Loop(p)
      BY <1>1, <2>1 DEF Abs!Loop
    <2> QED BY <1>2, <2>2, Zenon DEF Abs!Word
  <1>3. ASSUME input[p] = "+LOOP", PlusLoop(p) PROVE Abs!Word(input[p], p)
    <2>1. Abs!EndOfBody(p, 1, Moved(Top), \/ Top < 0 /\ Moved(Top) <= Innermost.limit
                                          \/ Top > 0 /\ Moved(Top) >= Innermost.limit)
      BY <1>3, BodyEnds DEF PlusLoop
    <2>2. Abs!PlusLoop(p)
      BY <1>1, <2>1, SameTops DEF Abs!PlusLoop
    <2> QED BY <1>3, <2>2, Zenon DEF Abs!Word
  <1>4. ASSUME input[p] = "-LOOP", MinusLoop(p) PROVE Abs!Word(input[p], p)
    <2>1. Abs!EndOfBody(p, 1, Moved(-Top), Moved(-Top) <= Innermost.limit)
      BY <1>4, BodyEnds DEF MinusLoop
    <2>2. Abs!MinusLoop(p)
      BY <1>1, <2>1, SameTops DEF Abs!MinusLoop
    <2> QED BY <1>4, <2>2, Zenon DEF Abs!Word
  <1> QED BY <1>2, <1>3, <1>4, BuiltinSteps

LEMMA LeaveSteps ==
    ASSUME NEW p, Turn(p), Inv', input[p] = "LEAVE", "LEAVE" \notin DOMAIN dict, Leave(p)
    PROVE  Abs!Next
  <1>1. ASSUME loopStack = <<>>, Aborts PROVE Abs!Leave(p)
    BY <1>1, AbortsRejects, TurnIs DEF Abs!Leave, Abs!InLoop
  <1>2. ASSUME loopStack # <<>> PROVE ~ Aborts
    BY <1>2, TurnIs DEF Unmatched, Aborts, Fail, Stops
  <1>3. ASSUME loopStack # <<>>, ~ Aborts PROVE Abs!Leave(p)
    <2>1. PICK r \in LoopStops(p) : LeaveMoves(p, r)
      BY <1>3 DEF Leave, LeaveMoves, First
    <2>2. UNCHANGED <<wordVars, input, compileMode, ptrStack>> /\ First(r, LoopStops(p))
      BY <2>1 DEF LeaveMoves
    <2>3. Outer' = Outer /\ r \in Nat /\ p < r /\ inputPtr' + 1 = r
      BY <2>1, TurnIs, Left
    <2>4. leaving' /\ ~ compileMode'
      <3>1. inputPtr < Len(input)
        BY TurnIs DEF WordsAfter, Inv, Typed, TypeOK
      <3>2. status' = "running"
        BY <2>2 DEF Turn, wordVars
      <3> QED BY <2>2, <3>1, <3>2, TurnIs DEF Turn, Leaves
    <2>5. Position' = r
      BY <2>2, <2>3, <2>4, NextPosition
    <2>6. LoopsLeft' = Outer /\ Abs!Outer = Outer
      BY <2>3, <2>4, TurnIs DEF LoopsLeft, Abs!Outer, Outer
    <2>7. Executes("LEAVE", p)
      BY <2>2, TurnIs DEF Executes, Turn, wordVars
    <2>8. /\ ~ Hides(p, r, {"DO", "?DO"} \cup Structure!LoopEnds)
          /\ \A i \in p + 1 .. r - 1 : input[i] \notin {"?DO", "-LOOP"}
      BY <2>3, <2>7, TurnIs DEF SkipsToOtherLoop
    <2>9. Structure!LoopEndAfter(p) = r
      BY <2>2, <2>8, TurnIs, LoopEndIs
    <2> QED BY <1>3, <2>2, <2>5, <2>6, <2>9, TurnIs, SameStructure
            DEF Abs!Leave, Abs!InLoop, Abs!Goto, Abs!wordVars, wordVars
  <1>4. Abs!Leave(p)
    BY <1>1, <1>2, <1>3 DEF Leave
  <1>5. Abs!Word(input[p], p)
    BY <1>4, Zenon DEF Abs!Word
  <1> QED BY <1>5, BuiltinSteps

-----------------------------------------------------------------------------
(* The interpreter.                                                        *)

LEMMA BuiltinsStep ==
    ASSUME NEW p, Turn(p), Inv', input[p] \notin DOMAIN dict, Builtin(input[p], p)
    PROVE  Abs!Next
  <1> DEFINE w == input[p]
  <1>1. CASE w \in DataWords /\ Computes(p, DataWord(w))
    BY <1>1, DataWordSteps
  <1>2. CASE w \in NamingWords /\ Naming(w, p)
    BY <1>2, NamingSteps
  <1>3. CASE w = "IF" /\ If(p)
    BY <1>3, IfSteps
  <1>4. CASE w \in {"DO", "?DO"} /\ Do(w, p)
    BY <1>4, DoSteps
  <1>5. CASE w = "LEAVE" /\ Leave(p)
    BY <1>5, LeaveSteps
  <1>6. CASE w \in {"I", "J", "K"} /\ LoopIndex(w, p)
    BY <1>6, LoopIndexSteps
  <1>7. CASE w \in Immediate /\ ImmediateWord(w, p)
    BY <1>7, ImmediateSteps
  <1>8. CASE w = ":" /\ Colon(p)
    BY <1>8, ColonSteps
  <1>9. CASE w = END /\ Semicolon
    BY <1>9, SemicolonSteps
  <1> QED BY <1>1, <1>2, <1>3, <1>4, <1>5, <1>6, <1>7, <1>8, <1>9, Zenon DEF Builtin, END

LEMMA InterpretSteps ==
    ASSUME NEW p, Turn(p), Inv', Interpret(input[p], p)
    PROVE  Abs!Next
  <1> DEFINE w == input[p]
  <1>1. w \in DOMAIN dict => w \notin FrameWords[Frame]
    BY TurnIs DEF Redefined, Turn
  <1>2. /\ Frame = "if" => FrameWords[Frame] = {"ELSE", "THEN"}
        /\ Frame = "else" => FrameWords[Frame] = {"THEN"}
        /\ Frame = "do" => FrameWords[Frame] = {"LOOP", "+LOOP", "-LOOP", "DO"}
    BY DEF FrameWords
  <1>3. CASE Frame = "if" /\ w = "ELSE" /\ EndOfTrueBranch(p)
    BY <1>1, <1>2, <1>3, ElseSteps
  <1>4. CASE Frame \in {"if", "else"} /\ w = "THEN" /\ EndOfIf(p)
    BY <1>1, <1>2, <1>4, ThenSteps
  <1>5. CASE \/ Frame = "do" /\ w = "LOOP" /\ Loop(p)
             \/ Frame = "do" /\ w = "+LOOP" /\ PlusLoop(p)
             \/ Frame = "do" /\ w = "-LOOP" /\ MinusLoop(p)
    BY <1>1, <1>2, <1>5, LoopSteps
  <1>6. CASE Frame = "do" /\ w = "DO" /\ Do(w, p)
    BY <1>1, <1>2, <1>6, DoSteps
  <1>7. CASE w \notin FrameWords[Frame] /\ ExecuteWord(w, p)
    <2>1. CASE w \in DOMAIN dict
      BY <1>7, <2>1, EntrySteps DEF ExecuteWord
    <2>2. CASE w \in Builtins \ DOMAIN dict /\ Builtin(w, p)
      BY <2>2, BuiltinsStep
    <2>3. CASE /\ w \in DOMAIN Numbers \ (DOMAIN dict \cup Builtins)
               /\ Computes(p, Push(Numbers[w]))
      BY <2>3, NumberSteps
    <2>4. CASE w \notin DOMAIN dict \cup Builtins \cup DOMAIN Numbers /\ Aborts
      BY <1>7, <2>4, UnknownSteps
    <2> QED BY <1>7, <2>1, <2>2, <2>3, <2>4 DEF ExecuteWord
  <1> QED BY <1>3, <1>4, <1>5, <1>6, <1>7 DEF Interpret

-----------------------------------------------------------------------------
(* The steps the machine with jumps does not see.                          *)

\* The words of a definition are passed over.
LEMMA CompileSteps ==
    ASSUME HInv, HInv', compileMode, status = "running", leaving' <=> Leaves, ~ Diverges,
           NEW p, First(p, WordsAfter(inputPtr)), CompileWord(input[p], p)
    PROVE  UNCHANGED Abs!semanticVars
  <1>1. /\ input \in Seq(STRING) /\ inputPtr \in Nat /\ p \in WordsAfter(inputPtr)
        /\ inputPtr \in 0 .. Len(input) /\ p \in DOMAIN input /\ p \in Nat
        /\ p \in 0 .. Len(input)
    <2>1. input \in Seq(STRING) /\ inputPtr \in Nat /\ p \in WordsAfter(inputPtr)
      BY InputIsSeq DEF HInv, Inv, Typed, TypeOK, First
    <2> QED BY <2>1, AfterIs
  <1>2. ~ leaving /\ ~ leaving' /\ Reads(input[p], p)
    BY DEF HInv, LeavesLoop, Leaves, Reads
  <1>3. ~ PassesName(p) /\ ~ Redefined(p) /\ ~ Unmatched(p)
    BY <1>1 DEF Diverges
  <1>4. Position = Structure!BodyEnd(inputPtr) /\ LoopsLeft = loopStack
    BY <1>2 DEF Position, LoopsLeft
  <1>5. input[p] \in Immediate => input[p] \notin DOMAIN dict
    BY <1>2, <1>3 DEF Redefined
  <1>6. CASE input[p] = END
    <2>1. END \notin Immediate
      BY Zenon DEF END, Immediate
    <2>2. /\ inputPtr' = p /\ ~ compileMode'
          /\ UNCHANGED <<wordVars, input, ptrStack, loopStack>>
      BY <1>6, <2>1, Zenon DEF CompileWord, END
    <2>3. Position' = p /\ LoopsLeft' = loopStack
      BY <1>2, <2>2, NextPosition DEF LoopsLeft
    <2>4. Structure!BodyEnd(inputPtr) = p
      BY <1>1, <1>6, BodyEndHere
    <2> QED BY <1>4, <2>2, <2>3, <2>4 DEF Abs!semanticVars, Abs!wordVars, wordVars
  <1>7. CASE input[p] # END
    <2>1. /\ compileMode' = compileMode /\ UNCHANGED <<wordVars, input, ptrStack, loopStack>>
          /\ Structure!BodyEnd(inputPtr') = Structure!BodyEnd(inputPtr)
      <3>1. CASE input[p] \in Immediate
        <4>1. ImmediateWord(input[p], p)
          BY <1>5, <1>7, <3>1, Zenon DEF CompileWord, END
        <4>2. Structure!BodyEnd(inputPtr) = Structure!BodyEnd(Structure!Extent(p))
          BY <1>1, <1>7, BodyEndLater
        <4>3. ASSUME NEW token, SkipsTo(token, p, Structure!Extent(p)),
                     NEW q, SkipsTo(token, p, q)
              PROVE  q = Structure!Extent(p)
          BY <1>1, <4>3 DEF SkipsTo, First
        <4>4. /\ input[p] = "(" => SkipsTo(")", p, Structure!Extent(p))
              /\ input[p] = "\\" => SkipsTo(NL, p, Structure!Extent(p))
              /\ input[p] = ".\"" => SkipsTo(Quote, p, Structure!Extent(p))
          BY <1>1, ExtentIs
        <4>5. ASSUME NEW token, SkipsTo(token, p, Structure!Extent(p)), Comment(token, p)
              PROVE  /\ UNCHANGED <<wordVars, input, compileMode, ptrStack, loopStack>>
                     /\ inputPtr' = Structure!Extent(p)
          BY <4>3, <4>5 DEF Comment
        <4>6. ASSUME input[p] = ".\"", DotQuote(p)
              PROVE  /\ UNCHANGED <<wordVars, input, compileMode, ptrStack, loopStack>>
                     /\ inputPtr' = Structure!Extent(p)
          <5>1. status' \notin {"fatal", "crash"}
            BY <1>2, <1>3, <4>6 DEF Unmatched
          <5>2. /\ SkipsTo(Quote, p, inputPtr')
                /\ UNCHANGED <<wordVars, input, compileMode, ptrStack, loopStack>>
            BY <4>6, <5>1 DEF DotQuote, SkipsTo, Aborts, Fail, Crash, Stops
          <5> QED BY <4>3, <4>4, <4>6, <5>2
        <4>7. /\ UNCHANGED <<wordVars, input, compileMode, ptrStack, loopStack>>
              /\ inputPtr' = Structure!Extent(p)
          BY <4>1, <4>4, <4>5, <4>6 DEF ImmediateWord
        <4> QED BY <4>2, <4>7
      <3>2. CASE input[p] \notin Immediate
        <4>1. /\ inputPtr' = p
              /\ UNCHANGED <<wordVars, input, compileMode, ptrStack, loopStack>>
          BY <1>7, <3>2, Zenon DEF CompileWord, END
        <4>2. input[p] \in NamingWords \cup {":"} =>
                ~ \E x \in WordsAfter(p) : /\ First(x, WordsAfter(p))
                                           /\ input[x] \in NamingWords \cup Immediate \cup {":", END}
          BY <1>2, <1>3, Zenon DEF PassesName, END
        <4>3. input[p] \notin Immediate \cup {END}
          BY <1>7, <3>2
        <4>4. Structure!BodyEnd(inputPtr) = Structure!BodyEnd(p)
          BY <1>1, <4>2, <4>3, BodyEndPassed
        <4> QED BY <4>1, <4>4
      <3> QED BY <3>1, <3>2
    <2>2. Position' = Structure!BodyEnd(inputPtr) /\ LoopsLeft' = loopStack
      BY <1>2, <2>1, NextPosition DEF LoopsLeft
    <2> QED BY <1>4, <2>1, <2>2 DEF Abs!semanticVars, Abs!wordVars, wordVars
  <1> QED BY <1>6, <1>7

\* The index LEAVE sets is moved by LOOP to the limit, also where it wraps around.
LEMMA LimitIsReached == ASSUME NEW limit \in Cell PROVE Wrap(Wrap(limit - 1) + 1) = limit
  <1>1. /\ MinInt \in Int /\ MaxInt \in Int /\ CellBase \in Nat /\ CellBase > 0
        /\ MaxInt = MinInt + CellBase - 1 /\ limit \in Int /\ limit >= MinInt /\ limit <= MaxInt
    BY SmallCells DEF Cell
  <1>2. CASE limit > MinInt
    <2>1. Wrap(limit - 1) = limit - 1
      <3>1. limit - 1 \in Int /\ limit - 1 >= MinInt /\ limit - 1 <= MaxInt + CellBase /\ limit - 1 <= MaxInt
        BY <1>1, <1>2
      <3> QED BY <3>1, WrapOnce
    <2>2. Wrap(limit) = limit
      <3>1. limit <= MaxInt + CellBase
        BY <1>1
      <3> QED BY <1>1, <3>1, WrapOnce
    <2>3. (limit - 1) + 1 = limit
      BY <1>1
    <2> QED BY <2>1, <2>2, <2>3
  <1>3. CASE limit = MinInt
    <2>1. Wrap(MinInt - 1) = MaxInt
      <3>1. ASSUME NEW b \in Nat, b > 0 PROVE (-1) % b = b - 1
        <4>1. -1 = (-1) * b + (b - 1) /\ b - 1 \in 0 .. b - 1 /\ -1 \in Int
          BY <3>1
        <4> QED BY <3>1, <4>1
      <3>2. (MinInt - 1) - MinInt = -1
        BY <1>1
      <3>3. (-1) % CellBase = CellBase - 1
        BY <1>1, <3>1
      <3>4. Wrap(MinInt - 1) = (CellBase - 1) + MinInt
        BY <3>2, <3>3 DEF Wrap
      <3> QED BY <1>1, <3>4
    <2>2. Wrap(MaxInt + 1) = MinInt
      <3>1. /\ MaxInt + 1 \in Int /\ MaxInt + 1 >= MinInt /\ MaxInt + 1 <= MaxInt + CellBase
            /\ ~ (MaxInt + 1 <= MaxInt) /\ (MaxInt + 1) - CellBase = MinInt
        BY <1>1
      <3> QED BY <3>1, WrapOnce
    <2> QED BY <1>3, <2>1, <2>2
  <1> QED BY <1>1, <1>2, <1>3

\* LOOP ends the loop that a LEAVE before it has left.
LEMMA LeavingSteps ==
    ASSUME HInv, HInv', leaving, leaving' <=> Leaves, ~ Diverges,
           NEW p, First(p, WordsAfter(inputPtr)), Interpret(input[p], p)
    PROVE  UNCHANGED Abs!semanticVars
  <1>1. /\ Inv /\ input \in Seq(STRING) /\ inputPtr \in Nat /\ Len(input) \in Nat
        /\ p \in WordsAfter(inputPtr)
    BY InputIsSeq DEF HInv, Inv, Typed, TypeOK, First
  <1>2. /\ ~ compileMode /\ status = "running" /\ loopStack # <<>> /\ inputPtr < Len(input)
        /\ input[inputPtr + 1] \in {"LOOP", "+LOOP"}
        /\ Innermost.index = Wrap(Innermost.limit - 1)
    BY DEF HInv, LeavesLoop
  <1>3. p = inputPtr + 1
    <2>1. inputPtr + 1 \in WordsAfter(inputPtr) /\ \A q \in WordsAfter(inputPtr) : inputPtr + 1 <= q
      BY <1>1, <1>2 DEF WordsAfter, NL
    <2> QED BY <1>1, <2>1, OneWord DEF First
  <1>4. /\ Reads(input[p], p) /\ ~ LeavesPlusLoop(p) /\ ~ Redefined(p) /\ ~ Unmatched(p)
    BY <1>1, <1>2 DEF Diverges, Reads
  <1>5. input[p] = "LOOP" /\ "LOOP" \notin DOMAIN dict
    <2>1. input[p] = "LOOP"
      BY <1>2, <1>3, <1>4 DEF LeavesPlusLoop
    <2> QED BY <1>2, <1>4, <2>1 DEF Redefined
  <1>6. "LOOP" \notin Builtins \cup DOMAIN Numbers
    <2>1. "LOOP" \notin DataWords
      <3>1. "LOOP" \notin PlainWords
        BY Zenon DEF PlainWords
      <3> QED BY <3>1 DEF DataWords, UnopWords, BinopWords
    <2> QED BY <2>1, NumbersAssumption, Zenon DEF Builtins, NamingWords, ControlWords
  <1>7. Loop(p)
    <2>1. Loop(p) \/ (ExecuteWord(input[p], p) /\ input[p] \notin FrameWords[Frame])
      BY <1>5 DEF Interpret
    <2>2. ExecuteWord(input[p], p) => Aborts
      BY <1>5, <1>6, Zenon DEF ExecuteWord
    <2>3. Frame = "do" => "LOOP" \in FrameWords[Frame]
      BY DEF FrameWords
    <2>4. Aborts => Frame = "do"
      BY <1>2, <1>4, <1>5 DEF Unmatched, Structure!LoopEnds, Aborts, Fail, Stops
    <2> QED BY <1>5, <2>1, <2>2, <2>3, <2>4
  <1>8. Innermost \in LoopStates /\ Depth \in Nat
    BY <1>1, <1>2, InnermostLoop, TopsAreCells DEF Inv, Typed, TypeOK
  <1>9. Moved(1) = Innermost.limit /\ Innermost.limit \in Int
    <2>1. Innermost.limit \in Cell
      BY <1>8 DEF LoopStates
    <2>2. Innermost.limit \in Int
      BY <2>1, SmallCells DEF Cell
    <2> QED BY <1>2, <2>1, <2>2, LimitIsReached DEF Moved
  <1>10. /\ loopStack' = Outer /\ inputPtr' = p /\ Replace(0, <<>>)
         /\ UNCHANGED <<input, compileMode, ptrStack>>
    <2>1. Moved(1) >= Innermost.limit /\ ~ (Depth < 0)
      BY <1>8, <1>9
    <2> QED BY <1>2, <1>7, <2>1 DEF Loop, EndOfBody
  <1>11. UNCHANGED wordVars
    BY <1>1, <1>10, EmptyReplaces
  <1>12. ~ leaving'
    BY <1>1, <1>5, NotLeaving
  <1>13. Position' = p /\ LoopsLeft' = Outer
    BY <1>2, <1>10, <1>12, NextPosition DEF LoopsLeft
  <1>14. Position = p /\ LoopsLeft = Outer
    BY <1>2, <1>3 DEF Position, LoopsLeft
  <1> QED BY <1>10, <1>11, <1>13, <1>14 DEF Abs!semanticVars, Abs!wordVars, wordVars

LEMMA EndOfInputSteps ==
    ASSUME HInv, status = "running", leaving' <=> Leaves, ~ Diverges,
           WordsAfter(inputPtr) = {}, EndOfInput
    PROVE  Abs!Next
  <1>1. status' \notin {"fatal", "crash"}
    BY DEF Diverges, EndsTooEarly
  <1>2. /\ ~ compileMode /\ status' = "done"
        /\ UNCHANGED <<dataStack, returnStack, memory, memptr, dict, stdout, controlVars>>
    BY <1>1 DEF EndOfInput, Fail, Crash, Stops
  <1>3. ~ leaving /\ ~ leaving'
    <2>1. inputPtr \in Nat /\ Len(input) \in Nat
      BY InputIsSeq DEF HInv, Inv, Typed, TypeOK
    <2>2. leaving => inputPtr + 1 \in WordsAfter(inputPtr)
      BY <2>1 DEF HInv, LeavesLoop, WordsAfter, NL
    <2> QED BY <1>2, <2>2 DEF Leaves
  <1>4. Position = inputPtr /\ Position' = inputPtr' /\ LoopsLeft = loopStack /\ LoopsLeft' = loopStack'
    BY <1>2, <1>3 DEF Position, LoopsLeft, controlVars
  <1> QED BY <1>2, <1>4, SameStructure DEF Abs!Next, controlVars

-----------------------------------------------------------------------------
(* goforth and the machine with jumps.                                     *)

LEMMA StutterRefines ==
    ASSUME HInv, UNCHANGED hvars
    PROVE  UNCHANGED Abs!semanticVars
  <1>1. UNCHANGED <<wordVars, input, inputPtr, ptrStack, loopStack, compileMode, leaving>>
    BY DEF hvars, vars, controlVars
  <1>2. LoopsLeft' = LoopsLeft
    BY <1>1 DEF LoopsLeft, Outer
  <1>3. Position' = Position
    <2>1. leaving \in BOOLEAN /\ (leaving => ~ compileMode) /\ compileMode \in BOOLEAN
      BY DEF HInv, LeavesLoop, Inv, Typed, TypeOK
    <2> QED BY <1>1, <2>1, NextPosition DEF Position
  <1> QED BY <1>1, <1>2, <1>3 DEF Abs!semanticVars, Abs!wordVars, wordVars

LEMMA StepRefines ==
    ASSUME HInv, HNext, ~ Diverges
    PROVE  Abs!Next \/ UNCHANGED Abs!semanticVars
  <1>1. HInv'
    BY HNextKeeps
  <1>2. CASE Step
    <2>1. leaving' <=> Leaves
      BY DEF HNext
    <2>2. status = "running" /\ Inv'
      BY <1>1, <1>2 DEF Step, HInv
    <2>3. CASE WordsAfter(inputPtr) = {} /\ EndOfInput
      BY <2>1, <2>2, <2>3, EndOfInputSteps
    <2>4. ASSUME NEW p, First(p, WordsAfter(inputPtr)), ~ compileMode, Interpret(input[p], p)
          PROVE  Abs!Next \/ UNCHANGED Abs!semanticVars
      <3>1. CASE leaving
        BY <1>1, <2>1, <2>4, <3>1, LeavingSteps
      <3>2. CASE ~ leaving
        <4>1. Turn(p)
          BY <2>1, <2>2, <2>4, <3>2 DEF Turn
        <4> QED BY <2>2, <2>4, <4>1, InterpretSteps
      <3> QED BY <3>1, <3>2
    <2>5. ASSUME NEW p, First(p, WordsAfter(inputPtr)), compileMode, CompileWord(input[p], p)
          PROVE  Abs!Next \/ UNCHANGED Abs!semanticVars
      BY <1>1, <2>1, <2>2, <2>5, CompileSteps
    <2> QED BY <1>2, <2>3, <2>4, <2>5 DEF Step
  <1>3. CASE Terminated
    <2>1. /\ UNCHANGED vars /\ ~ leaving /\ ~ leaving'
      BY <1>3 DEF HNext, Terminated, HInv, LeavesLoop, Leaves
    <2>2. UNCHANGED hvars
      BY <1>1, <2>1 DEF hvars, HInv
    <2> QED BY <2>2, StutterRefines
  <1> QED BY <1>2, <1>3 DEF HNext, Next, Diverges

LEMMA HInvariant == HSpec => []HInv
  BY HInitHolds, HNextKeeps, PTL DEF HSpec

\* Whatever the programs, however often they are run: a step of goforth is one
\* of the machine with jumps, or none, unless it is one of those listed.
THEOREM DivergencesAreListed == HSpec => OnlyListedDivergences
  <1>1. HInv /\ [HNext]_hvars => [Abs!Next \/ UNCHANGED Abs!semanticVars \/ Diverges]_hvars
    BY StepRefines
  <1> QED BY <1>1, HInvariant, PTL DEF HSpec, OnlyListedDivergences

LEMMA InitRefines == HInit => Abs!Init
  <1> SUFFICES ASSUME HInit PROVE Abs!Init
    OBVIOUS
  <1>1. Abs!WordsInit
    <2>1. Abs!Address = Address
      BY DEF Abs!Address, Address
    <2> QED BY <2>1 DEF HInit, Init, WordsInit, Abs!WordsInit
  <1>2. input \in Seq(STRING) /\ Position = 0 /\ LoopsLeft = <<>> /\ ptrStack = <<>>
    BY GoForthAssumption DEF HInit, Init, Position, LoopsLeft
  <1> QED BY <1>1, <1>2 DEF Abs!Init

\* goforth implements ForthSemantics on every program with which it takes none
\* of the listed steps: skipping words has the effect of the jumps.
THEOREM GoForthRefinesSemantics == HSpec /\ NeverDiverges => Refines
  <1>1. HInv /\ [HNext]_hvars /\ [~ Diverges]_hvars => [Abs!Next]_Abs!semanticVars
    BY StepRefines, StutterRefines
  <1> QED BY <1>1, InitRefines, HInvariant, PTL DEF HSpec, NeverDiverges, Refines, Abs!Spec

=============================================================================
