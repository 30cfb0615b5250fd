----------------------------- MODULE CtilProofs -----------------------------
(***************************************************************************)
(* Proofs about ctil as a whole, for every prelude and every program:      *)
(* MachineTypeOK, and from it WritesBelowHere.                             *)
(***************************************************************************)
EXTENDS CtilCode, CtilTyped

-----------------------------------------------------------------------------
(* Reading.                                                                *)

LEMMA FirstOfIs ==
    ASSUME NEW S \in SUBSET Nat, NEW else
    PROVE  (S = {} /\ FirstOf(S, else) = else) \/ FirstOf(S, else) \in S
  <1>1. CASE S # {}
    <2>1. \E q \in S : \A r \in S : q <= r
      BY <1>1, LeastExists
    <2> QED BY <1>1, <2>1 DEF FirstOf
  <1> QED BY <1>1 DEF FirstOf

\* A word that is found lies in the input, and so does the position behind it.
LEMMA WordIsIn ==
    ASSUME NEW C, NEW s \in Seq(C), NEW p \in 0 .. Len(s)
    PROVE  /\ GetWord(s, p) \in Seq(C)
           /\ AfterWord(s, p) \in 0 .. Len(s)
  <1> DEFINE start == WordStart(s, p)
             S     == {q \in p + 1 .. Len(s) : s[q] \notin Blanks}
             B     == {q \in start .. Len(s) : s[q] \in Blanks}
             blank == FirstOf(B, Len(s) + 1)
             end   == WordEnd(s, p)
  <1>1. Len(s) \in Nat /\ p \in Nat /\ BufSize \in Nat /\ BufSize >= 2
    BY CtilInputAssumption
  <1>2. start \in p + 1 .. Len(s) + 1
    <2>1. S \in SUBSET Nat /\ S \subseteq p + 1 .. Len(s)
      BY <1>1
    <2>2. start = FirstOf(S, Len(s) + 1)
      BY DEF WordStart
    <2> HIDE DEF S, start
    <2>3. start = Len(s) + 1 \/ start \in S
      BY <2>1, <2>2, FirstOfIs
    <2>4. start = Len(s) + 1 \/ start \in p + 1 .. Len(s)
      BY <2>1, <2>3
    <2> QED BY ONLY <1>1, <2>4
  <1>3. blank \in start .. Len(s) + 1
    <2> HIDE DEF start
    <2>1. B \in SUBSET Nat /\ B \subseteq start .. Len(s)
      BY <1>1, <1>2
    <2> HIDE DEF B
    <2>2. blank = Len(s) + 1 \/ blank \in B
      BY <2>1, FirstOfIs
    <2>3. blank = Len(s) + 1 \/ blank \in start .. Len(s)
      <3> HIDE DEF blank
      <3> QED BY <2>1, <2>2
    <2> HIDE DEF blank
    <2> QED BY ONLY <1>1, <1>2, <2>3
  <1>4. end = IF blank - start < BufSize THEN blank - 1 ELSE start + BufSize - 2
    BY DEF WordEnd
  <1> HIDE DEF start, blank, end
  <1>5. end \in 0 .. Len(s)
    BY <1>1, <1>2, <1>3, <1>4
  <1>6. SubSeq(s, start, end) \in Seq(C)
    <2>1. start \in Nat /\ start >= 1
      BY <1>1, <1>2
    <2>2. \A i \in start .. end : s[i] \in C
      BY <1>1, <1>2, <1>5
    <2> QED BY <1>5, <2>1, <2>2, SubSeqProperties
  <1> QED BY <1>1, <1>5, <1>6 DEF GetWord, AfterWord, start, end

LEMMA ClosingIsIn ==
    ASSUME NEW C, NEW s \in Seq(C), NEW p \in 0 .. Len(s), NEW c
    PROVE  Closing(s, p, c) = 0 \/ Closing(s, p, c) \in p + 1 .. Len(s)
  <1> DEFINE S == {q \in p + 1 .. Len(s) : s[q] = c}
  <1>1. S \in SUBSET Nat
    OBVIOUS
  <1>2. Closing(s, p, c) = FirstOf(S, 0)
    BY DEF Closing
  <1>3. Closing(s, p, c) = 0 \/ Closing(s, p, c) \in S
    <2> HIDE DEF S
    <2> QED BY <1>1, <1>2, FirstOfIs
  <1> QED BY <1>3

LEMMA TextIsIn ==
    ASSUME NEW C, NEW s \in Seq(C), NEW p \in 0 .. Len(s), Closing(s, p, Quote) # 0
    PROVE  TextFrom(s, p) \in Seq(C)
  <1> DEFINE q     == Closing(s, p, Quote)
             close == q - 1
             end   == IF close - p < 4 * BufSize THEN close ELSE p + 4 * BufSize - 1
  <1>1. q \in p + 1 .. Len(s) /\ Len(s) \in Nat /\ p \in Nat /\ BufSize \in Nat /\ BufSize >= 2
    BY ClosingIsIn, CtilInputAssumption
  <1>2. TextFrom(s, p) = SubSeq(s, p + 1, end)
    BY DEF TextFrom
  <1> HIDE DEF q
  <1>3. end \in p .. Len(s)
    BY <1>1
  <1> HIDE DEF end
  <1>4. \A i \in p + 1 .. end : s[i] \in C
    BY <1>1, <1>3
  <1> QED BY <1>1, <1>2, <1>3, <1>4, SubSeqProperties

\* The bytes of a word or a text.
LEMMA NameIsBytes ==
    ASSUME NEW s \in Seq(DOMAIN Code)
    PROVE  Name(s) \in Seq(Byte) /\ Len(Name(s)) = Len(s)
  <1>1. \A i \in 1 .. Len(s) : Code[s[i]] \in Byte
    BY CodeAssumption
  <1>2. Name(s) = [i \in 1 .. Len(s) |-> Code[s[i]]]
    BY DEF Name
  <1> QED BY <1>1, <1>2

-----------------------------------------------------------------------------
(* The words that are compiled.                                            *)

RunTypeOK == executing \in BOOLEAN /\ pc \in Int

LEMMA MovesTyped ==
    ASSUME RunTypeOK, NEW d \in Int, Moves(d)
    PROVE  RunTypeOK'
  <1>1. Wrap(pc + d + IF executing THEN CellSize ELSE 0) \in Cell
    <2>1. pc + d + (IF executing THEN CellSize ELSE 0) \in Int
      BY Sizes DEF RunTypeOK
    <2> QED BY <2>1, WrapIsCell
  <1>2. Cell \subseteq Int
    BY Sizes DEF Cell
  <1> QED BY <1>1, <1>2 DEF Moves, RunTypeOK

\* What ! and C! write, and nothing else below here.
Stored == \A a \in Address : a < here /\ mem'[a] # mem[a] =>
             Depth >= 2 /\ a \in Top .. Top + CellSize - 1 /\ stack' = Rest(2)

LEMMA DataWordStores ==
    ASSUME WordsTypeOK, NEW w, DataWord(w)
    PROVE  WordsTypeOK' /\ Stored
  <1>1. WordsTypeOK'
    BY DataWordTyped
  <1> SUFFICES Stored
    BY <1>1
  <1>2. /\ mem \in [Address -> Byte] /\ here \in Int /\ \A a \in Address : a \in Int
        /\ Depth \in Nat /\ (Depth >= 2 => Top \in Int) /\ CellSize = 2 /\ MemSize \in Nat
    BY SmallCells, TopsAreCells DEF WordsTypeOK, Address
  <1>3. ASSUME mem' = mem PROVE Stored
    BY <1>3 DEF Stored
  <1>4. CASE Exclamation
    <2>1. CASE Depth >= 2 /\ CellInBounds(Top) /\ Stores(PutCell(mem, Top, Second))
      <3>1. \A a \in Address : mem'[a] # mem[a] => a \in Top .. Top + CellSize - 1
        BY <1>2, <2>1 DEF Stores, PutCell
      <3> QED BY <2>1, <3>1 DEF Stored, Stores
    <2> QED BY <1>3, <1>4, <2>1 DEF Exclamation, Access, Needs, Dies, Aborts, Stops
  <1>5. CASE CExclamation
    <2>1. CASE Depth >= 2 /\ Top \in Address /\ Stores([mem EXCEPT ![Top] = Second % ByteBase])
      <3>1. \A a \in Address : mem'[a] # mem[a] => a \in Top .. Top + CellSize - 1
        BY <1>2, <2>1 DEF Stores
      <3> QED BY <2>1, <3>1 DEF Stored, Stores
    <2> QED BY <1>3, <1>5, <2>1 DEF CExclamation, Access, Needs, Dies, Aborts, Stops
  <1>6. CASE Comma
    <2>1. CASE mem' = PutCell(mem, here, Top)
      <3>1. \A a \in Address : a < here => mem'[a] = mem[a]
        BY <1>2, <2>1 DEF PutCell
      <3> QED BY <3>1 DEF Stored
    <2> QED BY <1>3, <1>6, <2>1 DEF Comma, Needs, Aborts, Undefined, Stops
  <1>7. ASSUME \/ \E n, vals : Replace(n, vals)
               \/ \E n, item : Writes(n, item)
               \/ \E s : Stops(s)
        PROVE  mem' = mem
    BY <1>7 DEF Replace, Writes, Needs, Aborts, Stops
  <1>8. CASE \E op \in BinopWords : Binop(op)
    <2>1. mem' = mem
      BY <1>7, <1>8 DEF Binop, Needs, Aborts
    <2> QED BY <1>3, <2>1
  <1>9. CASE Dot \/ DotS \/ Emit \/ Type \/ Bye \/ At \/ CAt \/ Question \/ Here
    <2>1. mem' = mem
      BY <1>7, <1>9 DEF Dot, DotS, Emit, Type, Bye, At, CAt, Question, Here, Access, Needs, Push,
                        Aborts, Dies, Undefined
    <2> QED BY <1>3, <2>1
  <1>10. CASE Drop \/ Clearstack \/ Swap \/ Dup \/ Over \/ Invert \/ Divmod \/ Allot
    <2>1. mem' = mem
      BY <1>7, <1>10 DEF Drop, Clearstack, Swap, Dup, Over, Copies, Invert, Divmod, Allot, Needs,
                         Push, Aborts, Dies, Undefined
    <2> QED BY <1>3, <2>1
  <1>11. CASE ToR \/ FromR \/ DropR \/ Peek(0, 1) \/ Peek(0, 2) \/ Peek(2, 4) \/ Peek(4, 6)
    <2>1. mem' = mem
      BY <1>7, <1>11 DEF ToR, FromR, DropR, Peek, Needs, Push, Aborts, Undefined
    <2> QED BY <1>3, <2>1
  <1> QED BY <1>4, <1>5, <1>6, <1>8, <1>9, <1>10, <1>11 DEF DataWord

LEMMA OperandIs ==
    ASSUME WordsTypeOK, RunTypeOK, Holds(pc + CellSize, CellSize)
    PROVE  Operand \in Cell /\ Operand \in Int
  <1>1. mem \in [Address -> Byte] /\ pc + CellSize \in Int
    BY Sizes DEF WordsTypeOK, RunTypeOK
  <1> QED BY <1>1, CellIn DEF Operand

\* What a word that is compiled keeps.
Threads == WordsTypeOK' /\ RunTypeOK' /\ mem' = mem

LEMMA StopsThreads ==
    ASSUME WordsTypeOK, RunTypeOK, Aborts \/ Undefined, UNCHANGED runVars
    PROVE  Threads
  <1>1. WordsTypeOK'
    BY FailuresTyped
  <1> QED BY <1>1 DEF Threads, RunTypeOK, runVars, Aborts, Undefined, Stops

LEMMA ReplaceThreads ==
    ASSUME WordsTypeOK, RunTypeOK, NEW n \in Nat, NEW vals, Depth >= n => vals \in Seq(Cell),
           Replace(n, vals), RunTypeOK'
    PROVE  Threads
  <1>1. WordsTypeOK'
    BY ReplaceTyped
  <1>2. mem' = mem
    BY DEF Replace, Needs, Aborts, Stops
  <1> QED BY <1>1, <1>2 DEF Threads

LEMMA JumpsTyped ==
    ASSUME WordsTypeOK, RunTypeOK, Holds(pc + CellSize, CellSize),
           Jumps \/ Moves(0) \/ Moves(CellSize) \/ Moves(CellSize + Operand)
    PROVE  RunTypeOK'
  <1>1. Operand \in Int /\ CellSize + Operand \in Int /\ CellSize \in Int
    BY OperandIs, Sizes
  <1> QED BY <1>1, MovesTyped DEF Jumps

LEMMA LiteralsThread ==
    ASSUME WordsTypeOK, RunTypeOK, Litnumber \/ Litstring \/ Branch \/ Branch0
    PROVE  Threads
  <1> DEFINE held == Holds(pc + CellSize, CellSize)
  <1>1. CASE ~ held /\ Undefined /\ UNCHANGED runVars
    BY <1>1, StopsThreads
  <1>2. CASE held /\ Push(Operand) /\ Moves(CellSize)
    <2>1. <<Operand>> \in Seq(Cell)
      BY <1>2, OperandIs
    <2> QED BY <1>2, <2>1, JumpsTyped, ReplaceThreads DEF Push
  <1>3. CASE held /\ Replace(0, <<Wrap(pc + 2 * CellSize), Operand>>) /\ Moves(CellSize + Operand)
    <2>1. Wrap(pc + 2 * CellSize) \in Cell
      <3>1. pc + 2 * CellSize \in Int
        BY Sizes DEF RunTypeOK
      <3> QED BY <3>1, WrapIsCell
    <2>2. Operand \in Cell
      BY <1>3, OperandIs
    <2>3. <<Wrap(pc + 2 * CellSize), Operand>> \in Seq(Cell)
      BY <2>1, <2>2
    <2> QED BY <1>3, <2>3, JumpsTyped, ReplaceThreads
  <1>4. CASE held /\ UNCHANGED wordVars /\ Jumps
    <2>1. WordsTypeOK' /\ mem' = mem
      BY <1>4 DEF wordVars, WordsTypeOK, Depth
    <2> QED BY <1>4, <2>1, JumpsTyped DEF Threads
  <1>5. CASE held /\ Replace(1, <<>>) /\ (UNCHANGED runVars \/ Jumps \/ Moves(CellSize))
    <2>1. <<>> \in Seq(Cell)
      OBVIOUS
    <2>2. RunTypeOK'
      BY <1>5, JumpsTyped DEF runVars, RunTypeOK
    <2> QED BY <1>5, <2>1, <2>2, ReplaceThreads
  <1> QED BY <1>1, <1>2, <1>3, <1>4, <1>5 DEF Litnumber, Litstring, Branch, Branch0, WithOperand

LEMMA EntersLoopThreads ==
    ASSUME WordsTypeOK, RunTypeOK, RunTypeOK', Depth >= 2, EntersLoop
    PROVE  Threads
  <1>1. Rest(2) \in Seq(Cell) /\ Len(Rest(2)) <= StackSize /\ Top \in Cell /\ Second \in Cell
    <2>1. Depth \in Nat /\ Depth >= 2 /\ 2 \in Nat
      BY TopsAreCells
    <2>2. Rest(2) \in Seq(Cell) /\ Len(Rest(2)) <= StackSize
      BY <2>1, PopTyped
    <2>3. Depth >= 1
      BY <2>1
    <2> QED BY <2>1, <2>2, <2>3, TopsAreCells
  <1>2. CASE Undefined
    BY <1>2, FailuresTyped DEF Threads, Undefined, Stops
  <1>3. CASE /\ retstacktop + 1 \in Slot /\ retstacktop + 2 \in Slot
             /\ retstacktop' = retstacktop + 2
             /\ retstack' = [retstack EXCEPT ![retstacktop + 2] = Top, ![retstacktop + 1] = Second]
             /\ stack' = Rest(2)
             /\ UNCHANGED <<mem, here, output, status>>
    <2>1. retstacktop' \in Int /\ retstacktop' < StackSize
      BY <1>3, SmallCells DEF Slot
    <2>2. retstack' \in [Slot -> Cell]
      BY <1>1, <1>3 DEF WordsTypeOK
    <2> QED BY <1>1, <1>3, <2>1, <2>2 DEF Threads, WordsTypeOK, Depth
  <1> QED BY <1>2, <1>3 DEF EntersLoop

LEMMA EntriesThread ==
    ASSUME WordsTypeOK, RunTypeOK, DoImpl \/ DoQImpl
    PROVE  Threads
  <1> DEFINE held == Holds(pc + CellSize, CellSize)
  <1>1. CASE Aborts /\ Moves(0)
    <2>1. RunTypeOK'
      BY <1>1, MovesTyped
    <2> QED BY <1>1, <2>1, FailuresTyped DEF Threads, Aborts, Stops
  <1>2. CASE Depth >= 2 /\ EntersLoop /\ Moves(0)
    BY <1>2, MovesTyped, EntersLoopThreads
  <1>3. CASE (Aborts \/ Undefined) /\ UNCHANGED runVars
    BY <1>3, StopsThreads
  <1>4. CASE held /\ Replace(2, <<>>) /\ Jumps
    <2>1. <<>> \in Seq(Cell)
      OBVIOUS
    <2> QED BY <1>4, <2>1, JumpsTyped, ReplaceThreads
  <1>5. CASE held /\ Depth >= 2 /\ EntersLoop /\ Moves(CellSize)
    BY <1>5, JumpsTyped, EntersLoopThreads
  <1> QED BY <1>1, <1>2, <1>3, <1>4, <1>5 DEF DoImpl, DoQImpl, Needs, WithOperand

\* n values are popped, and the index is a cell.
LEMMA EndOfBodyThreads ==
    ASSUME WordsTypeOK, RunTypeOK, NEW n \in {0, 1}, NEW index \in Cell, NEW done,
           InLoop(n, EndOfBody(n, index, done))
    PROVE  Threads
  <1> DEFINE held == Holds(pc + CellSize, CellSize)
  <1>1. CASE (Aborts \/ Undefined) /\ UNCHANGED runVars
    BY <1>1, StopsThreads
  <1>2. CASE /\ retstacktop >= 1 /\ Depth >= n /\ held
             /\ stack' = Rest(n)
             /\ \/ retstacktop' = retstacktop - 2 /\ UNCHANGED retstack /\ Moves(CellSize)
                \/ /\ UNCHANGED retstacktop
                   /\ retstack' = [retstack EXCEPT ![retstacktop] = index] /\ Jumps
             /\ UNCHANGED <<mem, here, output, status>>
    <2>1. RunTypeOK'
      BY <1>2, JumpsTyped
    <2>2. stack' \in Seq(Cell) /\ Len(stack') <= StackSize
      <3>1. n \in Nat
        OBVIOUS
      <3> QED BY <1>2, <3>1, PopTyped
    <2>3. /\ retstack' \in [Slot -> Cell]
          /\ retstacktop' \in Int /\ retstacktop' < StackSize
      BY <1>2, SmallCells DEF WordsTypeOK, Slot
    <2> QED BY <1>2, <2>1, <2>2, <2>3 DEF Threads, WordsTypeOK, Depth
  <1> QED BY <1>1, <1>2 DEF InLoop, EndOfBody, WithOperand

LEMMA LoopEndsThread ==
    ASSUME WordsTypeOK, RunTypeOK, LoopImpl \/ PLoopImpl \/ LeaveImpl
    PROVE  Threads
  <1> DEFINE held == Holds(pc + CellSize, CellSize)
  <1>1. ASSUME NEW delta \in Int, retstacktop >= 1 PROVE Moved(delta) \in Cell
    <2>1. Index \in Int
      BY <1>1, SmallCells DEF Index, WordsTypeOK, Slot, Cell
    <2>2. Index + delta \in Int
      BY <2>1
    <2> QED BY <2>2, WrapIsCell DEF Moved
  <1>2. CASE LoopImpl
    <2>1. CASE retstacktop >= 1
      BY <1>1, <1>2, <2>1, EndOfBodyThreads DEF LoopImpl
    <2>2. CASE ~ (retstacktop >= 1)
      BY <1>2, <2>2, StopsThreads DEF LoopImpl, InLoop
    <2> QED BY <2>1, <2>2
  <1>3. CASE PLoopImpl
    <2>1. CASE retstacktop >= 1 /\ Depth >= 1
      <3>1. Top \in Int
        BY <2>1, TopsAreCells
      <3> QED BY <1>1, <1>3, <2>1, <3>1, EndOfBodyThreads DEF PLoopImpl
    <2>2. CASE ~ (retstacktop >= 1 /\ Depth >= 1)
      BY <1>3, <2>2, StopsThreads DEF PLoopImpl, InLoop
    <2> QED BY <2>1, <2>2
  <1>4. CASE LeaveImpl
    <2>1. CASE ~ held /\ Undefined /\ UNCHANGED runVars
      BY <2>1, StopsThreads
    <2>2. CASE /\ held /\ Jumps /\ retstacktop' = retstacktop - 2
               /\ UNCHANGED <<mem, here, stack, retstack, output, status>>
      <3>1. RunTypeOK'
        BY <2>2, JumpsTyped
      <3>2. retstacktop' \in Int /\ retstacktop' < StackSize
        BY <2>2, SmallCells DEF WordsTypeOK
      <3> QED BY <2>2, <3>1, <3>2 DEF Threads, WordsTypeOK, Depth
    <2> QED BY <1>4, <2>1, <2>2 DEF LeaveImpl, WithOperand
  <1> QED BY <1>2, <1>3, <1>4

LEMMA ThreadedWordThreads ==
    ASSUME WordsTypeOK, RunTypeOK, NEW w, ThreadedWord(w)
    PROVE  Threads
  <1>1. \/ Litnumber \/ Litstring \/ Branch \/ Branch0
        \/ DoImpl \/ DoQImpl
        \/ LoopImpl \/ PLoopImpl \/ LeaveImpl
    BY DEF ThreadedWord
  <1> QED BY <1>1, LiteralsThread, EntriesThread, LoopEndsThread

-----------------------------------------------------------------------------
(* .D                                                                      *)

LEMMA CodeAddrIsInt ==
    ASSUME WordsTypeOK, NEW e \in Int, Holds(e, HeaderSize)
    PROVE  CodeAddr(e) \in Int
  <1>1. e + CellSize + 1 \in Address
    BY Sizes DEF Holds, Address
  <1>2. mem[e + CellSize + 1] \in Byte
    BY <1>1 DEF WordsTypeOK
  <1>3. SignedByte(mem[e + CellSize + 1]) \in Int
    BY <1>2, SignedByteIsCell, Sizes DEF Cell
  <1>4. NameAddr(e) \in Int
    BY Sizes DEF NameAddr
  <1> QED BY <1>3, <1>4 DEF CodeAddr, CodeIn

LEMMA DumpEntryIs ==
    ASSUME WordsTypeOK, NEW s \in DumpStates
    PROVE  DumpEntry(s) \in DumpStates
  <1> DEFINE e == s.entry
  <1>1. s.entry \in Int /\ mem \in [Address -> Byte]
    BY DEF DumpStates, WordsTypeOK
  <1>2. \A x \in Int, y \in Int, ph \in {"entry", "code"} :
           [s EXCEPT !.entry = x, !.cell = y, !.phase = ph] \in DumpStates
    BY DEF DumpStates
  <1>3. [s EXCEPT !.phase = "done"] \in DumpStates /\ [s EXCEPT !.phase = "undefined"] \in DumpStates
    BY DEF DumpStates
  <1>4. Holds(e, HeaderSize) => CellAt(mem, e) \in Int /\ CodeAddr(e) \in Int
    <2>1. Holds(e, HeaderSize) => Holds(e, CellSize)
      BY <1>1, Sizes DEF Holds
    <2> QED BY <1>1, <2>1, CellIn, CodeAddrIsInt
  <1>5. (IF IsBuiltin(e) THEN "entry" ELSE "code") \in {"entry", "code"}
    OBVIOUS
  <1> QED BY <1>2, <1>3, <1>4, <1>5 DEF DumpEntry

LEMMA DumpCellIs ==
    ASSUME WordsTypeOK, NEW s \in DumpStates
    PROVE  DumpCell(s) \in DumpStates
  <1>1. s.cell \in Int /\ s.shown \in SUBSET Int /\ mem \in [Address -> Byte]
    BY DEF DumpStates, WordsTypeOK
  <1>2. [s EXCEPT !.phase = "entry"] \in DumpStates /\ [s EXCEPT !.phase = "undefined"] \in DumpStates
    BY DEF DumpStates
  <1>3. ASSUME NEW n \in Int
        PROVE  [s EXCEPT !.shown = @ \cup {s.cell}, !.cell = s.cell + n] \in DumpStates
    <2>1. s.cell + n \in Int /\ s.shown \cup {s.cell} \in SUBSET Int
      BY <1>1
    <2>2. \A x \in SUBSET Int, y \in Int : [s EXCEPT !.shown = x, !.cell = y] \in DumpStates
      BY DEF DumpStates
    <2> QED BY <2>1, <2>2
  <1>4. ASSUME NEW c PROVE DumpWord(s, c) \in DumpStates
    <2> DEFINE n == CellAt(mem, s.cell + CellSize)
    <2>1. Holds(s.cell + CellSize, CellSize) => 3 * CellSize + n \in Int
      <3>1. s.cell + CellSize \in Int
        BY <1>1, Sizes
      <3>2. Holds(s.cell + CellSize, CellSize) => n \in Int
        BY <1>1, <3>1, CellIn
      <3> HIDE DEF n
      <3> QED BY <3>2, Sizes
    <2>2. 2 * CellSize \in Int /\ CellSize \in Int
      BY Sizes
    <2> QED BY <1>2, <1>3, <2>1, <2>2 DEF DumpWord
  <1> QED BY <1>2, <1>4 DEF DumpCell

\* How .D goes on from s, when next gives what the rest of it does.
Dumps(s, more, next) ==
    CASE s.phase \in {"done", "undefined"} \/ ~ more -> s
      [] more /\ s.phase = "entry" -> next[DumpEntry(s)]
      [] OTHER -> next[DumpCell(s)]

LEMMA DumpedIs ==
    ASSUME WordsTypeOK, latest \in Int
    PROVE  Dumped \in DumpStates
  <1> DEFINE W     == [DumpStates -> DumpStates]
             first == [s \in DumpStates |-> s]
             step  == [w \in W |-> [s \in DumpStates |-> Dumps(s, TRUE, w)]]
  <1>1. ASSUME NEW w \in W, NEW s \in DumpStates, NEW more \in BOOLEAN
        PROVE  Dumps(s, more, w) \in DumpStates
    <2>1. w[DumpEntry(s)] \in DumpStates /\ w[DumpCell(s)] \in DumpStates
      BY DumpEntryIs, DumpCellIs
    <2> QED BY <2>1 DEF Dumps
  <1>2. first \in W /\ step \in [W -> W]
    BY <1>1
  <1>3. PICK f \in [Nat -> W] : f[0] = first /\ \A n \in Nat : f[n + 1] = step[f[n]]
    <2> HIDE DEF W, first, step
    <2>1. \E f \in [Nat -> W] : f[0] = first /\ \A n \in Nat : f[n + 1] = step[f[n]]
      BY ONLY <1>2, Repeats, SMT
    <2> QED BY <2>1
  <1>4. ASSUME NEW steps \in Nat, NEW s \in DumpStates
        PROVE  f[steps][s] = Dumps(s, steps # 0, f[steps - 1])
    <2>1. CASE steps = 0
      BY <1>3, <2>1 DEF Dumps
    <2>2. CASE steps # 0
      <3>1. steps - 1 \in Nat /\ steps - 1 + 1 = steps
        BY <2>2
      <3>2. f[steps] = step[f[steps - 1]] /\ f[steps - 1] \in W
        BY <1>3, <3>1
      <3> QED BY <2>2, <3>2
    <2> QED BY <2>1, <2>2
  <1> DEFINE Body(g) == [steps \in Nat |->
               [s \in DumpStates |->
                  CASE s.phase \in {"done", "undefined"} \/ steps = 0 -> s
                    [] steps # 0 /\ s.phase = "entry" -> g[steps - 1][DumpEntry(s)]
                    [] OTHER -> g[steps - 1][DumpCell(s)]]]
             dump[steps \in Nat] ==
               [s \in DumpStates |->
                  CASE s.phase \in {"done", "undefined"} \/ steps = 0 -> s
                    [] steps # 0 /\ s.phase = "entry" -> dump[steps - 1][DumpEntry(s)]
                    [] OTHER -> dump[steps - 1][DumpCell(s)]]
  <1>5. f = Body(f)
    <2>1. ASSUME NEW steps \in Nat, NEW s \in DumpStates
          PROVE  f[steps][s] = Body(f)[steps][s]
      BY <1>4 DEF Dumps
    <2>2. f \in [Nat -> [DumpStates -> DumpStates]]
      BY <1>3
    <2>3. \A steps \in Nat : DOMAIN Body(f)[steps] = DumpStates /\ f[steps] = Body(f)[steps]
      BY <2>1, <2>2
    <2> QED BY <2>2, <2>3
  <1>6. dump = Body(dump)
    <2>1. dump = CHOOSE g : g = Body(g)
      OBVIOUS
    <2> HIDE DEF dump, Body
    <2> QED BY <1>5, <2>1
  <1> DEFINE start == [phase |-> "entry", entry |-> latest, cell |-> 0, shown |-> {}]
             N     == (MemSize + 1) * (MemSize + 1)
  <1>7. Dumped = dump[N][start]
    BY DEF Dumped
  <1>8. \A steps \in Nat : dump[steps] = [s \in DumpStates |-> Dumps(s, steps # 0, dump[steps - 1])]
    <2> HIDE DEF dump
    <2>1. \A steps \in Nat : Body(dump)[steps]
                              = [s \in DumpStates |-> Dumps(s, steps # 0, dump[steps - 1])]
      BY DEF Dumps
    <2> HIDE DEF Body
    <2> QED BY <1>6, <2>1
  <1> HIDE DEF dump, Body
  <1> DEFINE Typed == {n \in Nat : dump[n] \in W}
  <1>9. 0 \in Typed
    <2>1. dump[0] = [s \in DumpStates |-> Dumps(s, 0 # 0, dump[0 - 1])]
      BY <1>8
    <2>2. \A s \in DumpStates : Dumps(s, 0 # 0, dump[0 - 1]) \in DumpStates
      BY DEF Dumps
    <2> QED BY <2>1, <2>2
  <1>10. ASSUME NEW n \in Nat, n \in Typed PROVE n + 1 \in Typed
    <2>1. n + 1 - 1 = n /\ n + 1 \in Nat /\ dump[n] \in W
      BY <1>10
    <2>2. dump[n + 1] = [s \in DumpStates |-> Dumps(s, n + 1 # 0, dump[n + 1 - 1])]
      BY <1>8, <2>1
    <2>3. dump[n + 1] = [s \in DumpStates |-> Dumps(s, n + 1 # 0, dump[n])]
      BY <2>1, <2>2
    <2>4. \A s \in DumpStates : Dumps(s, n + 1 # 0, dump[n]) \in DumpStates
      <3> HIDE DEF W
      <3> QED BY <1>1, <2>1
    <2>5. dump[n + 1] \in W
      BY <2>3, <2>4
    <2> QED BY <2>1, <2>5
  <1>11. \A n \in Nat : n \in Typed
    <2> HIDE DEF Typed
    <2> QED BY <1>9, <1>10, AllNumbers
  <1>12. N \in Nat /\ start \in DumpStates
    BY Sizes DEF DumpStates
  <1>13. dump[N] \in W
    <2> HIDE DEF N
    <2> QED BY <1>11, <1>12
  <1> HIDE DEF N, start
  <1> QED BY <1>7, <1>12, <1>13

LEMMA DotDShows ==
    ASSUME WordsTypeOK, latest \in Int, DotD
    PROVE  WordsTypeOK' /\ mem' = mem
  <1>1. CASE Writes(0, <<"dump", Dumped.shown, DumpedMem>>)
    <2>1. Dumped.shown \in SUBSET Int
      BY DumpedIs DEF DumpStates
    <2>2. <<"dump", Dumped.shown, DumpedMem>> \in Items
      <3>1. DumpedMem \in SUBSET Int
        BY DEF DumpedMem
      <3> HIDE DEF Dumped
      <3> QED BY <2>1, <3>1 DEF Items
    <2> HIDE DEF Dumped
    <2>3. WordsTypeOK'
      BY <1>1, <2>2, WritesTyped
    <2> QED BY <1>1, <2>3 DEF Writes, Needs, Aborts, Stops
  <1>2. CASE Undefined \/ Stops("hangs")
    <2>1. WordsTypeOK'
      BY <1>2, StopsTyped DEF Undefined, Statuses
    <2> QED BY <1>2, <2>1 DEF Undefined, Stops
  <1> QED BY <1>1, <1>2 DEF DotD

-----------------------------------------------------------------------------
(* Compiling.                                                              *)

LEMMA CompilesKeeps ==
    ASSUME DictInv, NEW d, Grows(Dict, d), Compiles(d)
    PROVE  DictInv' /\ Untouched
  <1>1. stack' \in Seq(Cell) /\ Len(stack') <= StackSize
    BY DEF DictInv, WordsTypeOK, Depth, Compiles
  <1> QED BY <1>1, BecomesKeeps DEF Compiles

\* While ctil runs, the last cell that was compiled fits.
LEMMA PlaceCellFits ==
    ASSUME NEW d, IsDict(d), NEW v \in Cell, PlaceCell(d, v).status = "running"
    PROVE  PlaceCell(d, v).here \in 0 .. MemSize
  <1> DEFINE next == [d EXCEPT !.mem = PutCell(d.mem, d.here, v), !.here = d.here + CellSize]
  <1>1. d.here \in Int /\ d.here >= 0 /\ next.here = d.here + CellSize
    BY Sizes DEF IsDict
  <1>2. PlaceCell(d, v) \in {d, next, Failed(d, "undefined")}
    BY DEF PlaceCell, Extends
  <1>3. Failed(d, "undefined").status = "undefined"
    BY DEF Failed, IsDict
  <1>4. d.status = "running" /\ Holds(d.here, CellSize)
    <2> HIDE DEF next
    <2>1. CASE d.status # "running"
      BY <2>1 DEF PlaceCell, Extends
    <2>2. CASE d.status = "running" /\ ~ Holds(d.here, CellSize)
      BY <1>3, <2>2 DEF PlaceCell, Extends
    <2> QED BY <2>1, <2>2
  <1>5. PlaceCell(d, v) = next
    BY <1>4 DEF PlaceCell, Extends
  <1> HIDE DEF next
  <1> QED BY <1>1, <1>4, <1>5, Sizes DEF Holds

LEMMA PlaceWordFits ==
    ASSUME NEW d, IsDict(d), NEW w, PlaceWord(d, w).status = "running"
    PROVE  PlaceWord(d, w).here \in 0 .. MemSize
  <1> DEFINE e == FindIn(d, WordName(w))
  <1>1. \A s \in {"abort", "hangs", "undefined"} : Failed(d, s).status = s
    BY DEF Failed, IsDict
  <1>2. e \in Address /\ PlaceWord(d, w) = PlaceCell(d, e)
    <2> HIDE DEF e
    <2>1. CASE d.status # "running"
      BY <2>1 DEF PlaceWord
    <2>2. CASE d.status = "running"
      <3>1. \/ PlaceWord(d, w) \in {Failed(d, "abort"), Failed(d, "hangs"), Failed(d, "undefined")}
            \/ e \in Address /\ PlaceWord(d, w) = PlaceCell(d, e)
        BY <2>2 DEF PlaceWord, e
      <3> QED BY <1>1, <3>1
    <2> QED BY <2>1, <2>2
  <1> HIDE DEF e
  <1>3. e \in Cell
    BY <1>2, Sizes DEF Address
  <1> QED BY <1>2, <1>3, PlaceCellFits

LEMMA ReserveGrows ==
    ASSUME NEW d, IsDict(d), d.status = "running" => d.here \in 0 .. MemSize
    PROVE  Grows(d, Reserve(d))
  <1>1. Grows(d, d)
    BY Sizes DEF IsDict, Grows
  <1>2. CASE d.status = "running"
    <2> DEFINE next == [d EXCEPT !.here = d.here + CellSize]
    <2>1. d.here + CellSize \in 0 .. MemSize + CellSize /\ d.here + CellSize >= d.here /\ d.here \in Int
      BY <1>2, Sizes
    <2>2. /\ next \in [mem : [Address -> Byte], here : 0 .. MemSize + CellSize, latest : Int,
                       status : Statuses]
          /\ next.mem = d.mem /\ next.here = d.here + CellSize /\ next.latest = d.latest
      BY <2>1 DEF IsDict
    <2>3. Reserve(d) = next
      BY <1>2 DEF Reserve
    <2> HIDE DEF next
    <2> QED BY <2>1, <2>2, <2>3 DEF Grows, IsDict
  <1> QED BY <1>1, <1>2 DEF Reserve

\* Bytes are written at here, which moves behind them.
LEMMA BytesGrow ==
    ASSUME NEW d, IsDict(d), NEW bytes \in Seq(Byte), NEW n \in Int, n >= 0,
           n <= Len(bytes) + 2
    PROVE  Grows(d, Extends(d, Len(bytes), [d EXCEPT !.mem  = PlaceBytes(d.mem, d.here, bytes),
                                                     !.here = d.here + n]))
  <1> DEFINE next == [d EXCEPT !.mem = PlaceBytes(d.mem, d.here, bytes), !.here = d.here + n]
  <1>1. /\ d.mem \in [Address -> Byte] /\ d.here \in Int /\ d.here >= 0
        /\ Len(bytes) \in Nat /\ DOMAIN d.mem = Address /\ \A a \in Address : a \in Int
    BY Sizes DEF IsDict, Address
  <1>2. ASSUME Holds(d.here, Len(bytes)) PROVE Grows(d, next)
    <2>1. d.here + n \in 0 .. MemSize + CellSize /\ d.here + n >= d.here
      BY <1>1, <1>2, Sizes DEF Holds
    <2>2. ASSUME NEW b \in Address, b \in d.here .. d.here + Len(bytes) - 1
          PROVE  bytes[b - d.here + 1] \in Byte /\ b >= d.here
      <3>1. b - d.here + 1 \in 1 .. Len(bytes)
        BY <1>1, <2>2
      <3> QED BY <1>1, <2>2, <3>1
    <2>3. /\ PlaceBytes(d.mem, d.here, bytes) \in [Address -> Byte]
          /\ \A a \in Address : a < d.here => PlaceBytes(d.mem, d.here, bytes)[a] = d.mem[a]
      BY <1>1, <2>2 DEF PlaceBytes
    <2>4. /\ next \in [mem : [Address -> Byte], here : 0 .. MemSize + CellSize, latest : Int,
                       status : Statuses]
          /\ next.mem = PlaceBytes(d.mem, d.here, bytes) /\ next.here = d.here + n
          /\ next.latest = d.latest
      BY <2>1, <2>3 DEF IsDict
    <2> HIDE DEF next
    <2> QED BY <2>1, <2>3, <2>4 DEF Grows, IsDict
  <1> HIDE DEF next
  <1>3. Grows(d, Extends(d, Len(bytes), next))
    BY <1>1, <1>2, ExtendsGrows
  <1> QED BY <1>3 DEF next

-----------------------------------------------------------------------------
(* Loops.                                                                  *)

\* e is d, but for the operands at patches.
PatchesOf(d, e, patches) ==
    /\ IsDict(e) /\ e.here = d.here
    /\ \A a \in Address : e.mem[a] # d.mem[a] =>
          \E i \in DOMAIN patches : a - patches[i] \in 0 .. CellSize - 1

LEMMA PatchIs ==
    ASSUME NEW d, IsDict(d), NEW p \in 0 .. MemSize
    PROVE  /\ IsDict(Patch(d, p)) /\ Patch(d, p).here = d.here
           /\ \A a \in Address : Patch(d, p).mem[a] # d.mem[a] => a - p \in 0 .. CellSize - 1
  <1> DEFINE next == [d EXCEPT !.mem = PutCell(d.mem, p, Wrap(d.here - p))]
  <1>1. /\ d.mem \in [Address -> Byte] /\ d.here \in Int /\ p \in Int /\ p >= 0
        /\ \A a \in Address : a \in Int
    BY Sizes DEF IsDict, Address
  <1>2. ASSUME NEW s \in {"fatal", "undefined"}
        PROVE  IsDict(Failed(d, s)) /\ Failed(d, s).here = d.here /\ Failed(d, s).mem = d.mem
    BY DEF Failed, IsDict, Statuses
  <1>3. ASSUME Holds(p, CellSize)
        PROVE  /\ IsDict(next) /\ next.here = d.here
               /\ \A a \in Address : next.mem[a] # d.mem[a] => a - p \in 0 .. CellSize - 1
    <2> DEFINE v == Wrap(d.here - p)
    <2>1. v \in Cell
      <3>1. d.here - p \in Int
        BY <1>1
      <3> QED BY <3>1, WrapIsCell
    <2> HIDE DEF v
    <2>2. ByteOf(v, 0) \in Byte /\ ByteOf(v, 1) \in Byte
      BY <2>1, ByteOfIsByte
    <2>3. p \in Address /\ p + 1 \in Address
      BY <1>1, <1>3, Sizes DEF Holds, Address
    <2>4. /\ PutCell(d.mem, p, v) \in [Address -> Byte]
          /\ \A a \in Address : PutCell(d.mem, p, v)[a] # d.mem[a] => a = p \/ a = p + 1
      BY <1>1, <2>2, <2>3 DEF PutCell
    <2>5. /\ next \in [mem : [Address -> Byte], here : 0 .. MemSize + CellSize, latest : Int,
                       status : Statuses]
          /\ next.mem = PutCell(d.mem, p, v) /\ next.here = d.here /\ next.latest = d.latest
      BY <2>4 DEF IsDict, v
    <2> HIDE DEF next
    <2> QED BY <1>1, <2>4, <2>5, Sizes DEF IsDict
  <1>4. \/ Patch(d, p) \in {d, Failed(d, "fatal"), Failed(d, "undefined")}
        \/ Holds(p, CellSize) /\ Patch(d, p) = next
    BY DEF Patch
  <1> HIDE DEF next
  <1> QED BY <1>2, <1>3, <1>4

\* f gives the dictionary after so many patches.
IsPatching(f, d, patches) ==
    /\ Patched(d, patches) = f[Len(patches)] /\ f[0] = d
    /\ \A i \in 1 .. Len(patches) : f[i] = Patch(f[i - 1], patches[i])

LEMMA MembersAre ==
    ASSUME NEW S, NEW s, s \in Seq(S)
    PROVE  Len(s) \in Nat /\ DOMAIN s = 1 .. Len(s) /\ \A i \in 1 .. Len(s) : s[i] \in S
  OBVIOUS

LEMMA FrontIs ==
    ASSUME NEW S, NEW s, s \in Seq(S), s # <<>>
    PROVE  LET front == SubSeq(s, 1, Len(s) - 1)
           IN  /\ front \in Seq(S) /\ Len(front) = Len(s) - 1
               /\ \A i \in DOMAIN front : i \in DOMAIN s /\ front[i] = s[i]
  <1> DEFINE front == SubSeq(s, 1, Len(s) - 1)
             n     == Len(s) - 1
  <1>1. n \in Nat /\ Len(s) = n + 1 /\ \A i \in 1 .. Len(s) : s[i] \in S
    OBVIOUS
  <1>2. \A i \in 1 .. n : s[i] \in S
    BY <1>1
  <1>3. /\ front \in Seq(S) /\ Len(front) = IF 1 <= n THEN n - 1 + 1 ELSE 0
        /\ \A i \in 1 .. n - 1 + 1 : front[i] = s[1 + i - 1]
    <2> HIDE DEF n
    <2>1. front = SubSeq(s, 1, n)
      BY DEF n
    <2> HIDE DEF front
    <2>2. n \in Int /\ 1 \in Int
      BY <1>1
    <2> QED BY <1>2, <2>1, <2>2, SubSeqProperties
  <1> HIDE DEF front, n
  <1>4. Len(front) = n /\ DOMAIN front = 1 .. n /\ DOMAIN s = 1 .. n + 1
    BY <1>1, <1>3
  <1>5. \A i \in 1 .. n : front[i] = s[i]
    BY <1>1, <1>3
  <1> QED BY <1>1, <1>3, <1>4, <1>5 DEF front

LEMMA ReplacedIs ==
    ASSUME NEW S, NEW s, s \in Seq(S), NEW n \in 1 .. Len(s), NEW x, x \in S
    PROVE  [s EXCEPT ![n] = x] \in Seq(S) /\ Len([s EXCEPT ![n] = x]) = Len(s)
  <1>1. Len(s) \in Nat /\ DOMAIN s = 1 .. Len(s) /\ \A i \in 1 .. Len(s) : s[i] \in S
    OBVIOUS
  <1>2. DOMAIN [s EXCEPT ![n] = x] = 1 .. Len(s)
    BY <1>1
  <1>3. [s EXCEPT ![n] = x] \in [1 .. Len(s) -> S]
    BY <1>1
  <1> QED BY <1>1, <1>2, <1>3

LEMMA OperandsAre ==
    ASSUME NEW s, s \in Seq(0 .. MemSize)
    PROVE  /\ Len(s) \in Nat /\ DOMAIN s = 1 .. Len(s)
           /\ \A i \in 1 .. Len(s) : s[i] \in 0 .. MemSize
  <1> DEFINE P == 0 .. MemSize
  <1>1. s \in Seq(P)
    OBVIOUS
  <1> HIDE DEF P
  <1>2. Len(s) \in Nat /\ DOMAIN s = 1 .. Len(s) /\ \A i \in 1 .. Len(s) : s[i] \in P
    BY <1>1, MembersAre
  <1> QED BY <1>2 DEF P

\* A step that can be repeated from w on.
LEMMA RepeatsFrom ==
    ASSUME NEW W, NEW w \in W, NEW step, step \in [W -> W]
    PROVE  \E g \in [Nat -> W] : g[0] = w /\ \A n \in Nat : g[n + 1] = step[g[n]]
  BY Repeats

LEMMA PatchingIs ==
    ASSUME NEW d, IsDict(d), NEW patches, patches \in Seq(0 .. MemSize)
    PROVE  \E f : IsPatching(f, d, patches)
  <1> DEFINE L == Len(patches)
             R == [mem : [Address -> Byte], here : 0 .. MemSize + CellSize, latest : Int,
                   status : Statuses]
             D == {e \in R : LatestIs(e.latest)}
             W == Nat \X D
             After(n, e) == IF n \in 1 .. L THEN Patch(e, patches[n]) ELSE e
             first == <<0, d>>
             step  == [w \in W |-> <<w[1] + 1, After(w[1] + 1, w[2])>>]
  <1>0. L \in Nat /\ \A i \in 1 .. L : patches[i] \in 0 .. MemSize
    BY OperandsAre
  <1>1. \A e : e \in D <=> IsDict(e)
    BY DEF IsDict
  <1>2. ASSUME NEW n \in Nat, NEW e \in D PROVE After(n, e) \in D
    <2> HIDE DEF D
    <2>1. CASE n \in 1 .. L
      <3>1. patches[n] \in 0 .. MemSize
        BY ONLY <1>0, <2>1
      <3> QED BY <1>1, <2>1, <3>1, PatchIs
    <2>2. CASE n \notin 1 .. L
      BY <2>2
    <2> QED BY <2>1, <2>2
  <1>3. first \in W
    <2> HIDE DEF D
    <2> QED BY <1>1
  <1>4. step \in [W -> W]
    <2> HIDE DEF D, After
    <2> QED BY <1>2
  <1>5. PICK g \in [Nat -> W] : g[0] = first /\ \A n \in Nat : g[n + 1] = step[g[n]]
    <2> HIDE DEF W, first, step, D, After
    <2>1. \E g \in [Nat -> W] : g[0] = first /\ \A n \in Nat : g[n + 1] = step[g[n]]
      BY ONLY <1>3, <1>4, RepeatsFrom
    <2> QED BY <2>1
  <1> HIDE DEF D, After
  <1>6. \A n \in Nat : g[n + 1] = <<g[n][1] + 1, After(g[n][1] + 1, g[n][2])>>
    BY <1>5
  <1> DEFINE Counts == {n \in Nat : g[n][1] = n}
  <1>7. \A n \in Nat : n \in Counts
    <2>1. 0 \in Counts
      BY <1>5
    <2>2. ASSUME NEW n \in Nat, n \in Counts PROVE n + 1 \in Counts
      <3>1. g[n + 1] = <<g[n][1] + 1, After(g[n][1] + 1, g[n][2])>> /\ g[n][1] = n
        BY <1>6, <2>2
      <3> QED BY <3>1
    <2> HIDE DEF Counts
    <2> QED BY <2>1, <2>2, AllNumbers
  <1> DEFINE f == [i \in 0 .. L |-> g[i][2]]
  <1>8. L \in Nat
    OBVIOUS
  <1>9. ASSUME NEW i \in 1 .. L PROVE f[i] = Patch(f[i - 1], patches[i])
    <2>1. i - 1 \in Nat /\ i - 1 + 1 = i /\ i \in 0 .. L /\ i - 1 \in 0 .. L
      BY <1>8
    <2>2. g[i - 1][1] = i - 1
      BY <1>7, <2>1
    <2>3. g[i] = <<i, After(i, g[i - 1][2])>>
      <3>1. g[i - 1 + 1] = <<g[i - 1][1] + 1, After(g[i - 1][1] + 1, g[i - 1][2])>>
        BY <1>6, <2>1
      <3> QED BY <2>1, <2>2, <3>1
    <2> QED BY <2>1, <2>3 DEF After
  <1>10. f[0] = d
    BY <1>5, <1>8
  <1> DEFINE Body(h) == [i \in 0 .. Len(patches) |-> IF i = 0 THEN d
                                                     ELSE Patch(h[i - 1], patches[i])]
             after[i \in 0 .. Len(patches)] == IF i = 0 THEN d ELSE Patch(after[i - 1], patches[i])
  <1>11. f = Body(f)
    <2>1. \A i \in 0 .. L : f[i] = Body(f)[i]
      <3> HIDE DEF f
      <3>1. \A i \in 0 .. L : i = 0 \/ i \in 1 .. L
        BY <1>8
      <3> QED BY <1>9, <1>10, <3>1
    <2>2. DOMAIN f = 0 .. L /\ DOMAIN Body(f) = 0 .. L
      OBVIOUS
    <2>3. f = [i \in 0 .. L |-> f[i]] /\ Body(f) = [i \in 0 .. L |-> Body(f)[i]]
      OBVIOUS
    <2> QED BY <2>1, <2>3
  <1>12. after = Body(after)
    <2>1. after = CHOOSE h : h = Body(h)
      OBVIOUS
    <2> HIDE DEF after, Body, f
    <2> QED BY <1>11, <2>1
  <1>13. Patched(d, patches) = after[L]
    BY DEF Patched
  <1>14. after[0] = d /\ \A i \in 1 .. L : after[i] = Patch(after[i - 1], patches[i])
    <2> HIDE DEF after
    <2>1. Body(after)[0] = d
      BY <1>8
    <2>2. \A i \in 1 .. L : Body(after)[i] = Patch(after[i - 1], patches[i])
      BY <1>8
    <2> HIDE DEF Body
    <2> QED BY <1>12, <2>1, <2>2
  <1> HIDE DEF after
  <1>15. IsPatching(after, d, patches)
    BY <1>13, <1>14 DEF IsPatching
  <1> QED BY <1>15

LEMMA PatchedIs ==
    ASSUME NEW d, IsDict(d), NEW patches, patches \in Seq(0 .. MemSize)
    PROVE  PatchesOf(d, Patched(d, patches), patches)
  <1>1. PICK f : IsPatching(f, d, patches)
    BY PatchingIs
  <1>2. /\ Len(patches) \in Nat /\ DOMAIN patches = 1 .. Len(patches)
        /\ \A i \in 1 .. Len(patches) : patches[i] \in 0 .. MemSize
    BY OperandsAre
  <1> DEFINE Good == {n \in Nat : n <= Len(patches) => PatchesOf(d, f[n], patches)}
  <1>3. 0 \in Good
    BY <1>1 DEF IsPatching, PatchesOf
  <1>4. ASSUME NEW n \in Nat, n \in Good, n + 1 <= Len(patches)
        PROVE  PatchesOf(d, f[n + 1], patches)
    <2>1. PatchesOf(d, f[n], patches) /\ n + 1 \in DOMAIN patches
      BY <1>2, <1>4
    <2>1a. patches[n + 1] \in 0 .. MemSize
      BY <1>2, <2>1
    <2>2. f[n + 1] = Patch(f[n], patches[n + 1])
      <3>1. n + 1 \in 1 .. Len(patches) /\ n + 1 - 1 = n
        BY <1>2, <2>1
      <3>2. f[n + 1] = Patch(f[n + 1 - 1], patches[n + 1])
        BY <1>1, <3>1 DEF IsPatching
      <3> QED BY <3>1, <3>2
    <2>3. /\ IsDict(f[n + 1]) /\ f[n + 1].here = f[n].here
          /\ \A a \in Address : f[n + 1].mem[a] # f[n].mem[a] => a - patches[n + 1] \in 0 .. CellSize - 1
      BY <2>1, <2>1a, <2>2, PatchIs DEF PatchesOf
    <2> QED BY <2>1, <2>3 DEF PatchesOf
  <1>5. \A n \in Nat : n \in Good => n + 1 \in Good
    BY <1>4
  <1>6. \A n \in Nat : n \in Good
    <2> HIDE DEF Good
    <2> QED BY <1>3, <1>5, AllNumbers
  <1>7. PatchesOf(d, f[Len(patches)], patches)
    BY <1>2, <1>6
  <1> QED BY <1>1, <1>7 DEF IsPatching

LoopsTypeOK ==
    /\ loops \in Seq([start : 0 .. MemSize + CellSize, patches : Seq(0 .. MemSize)])
    /\ Len(loops) <= MaxLoops /\ \A i \in DOMAIN loops : Len(loops[i].patches) <= MaxPatches

\* What WritesBelowHere says of a step.
Writing ==
    \A a \in Address : a < here /\ mem'[a] # mem[a] =>
       \/ Depth >= 2 /\ a \in Top .. Top + CellSize - 1 /\ stack' = Rest(2)
       \/ a = latest + CellSize /\ mem'[a] = mem[a] + F_IMMEDIATE
       \/ /\ loops # <<>> /\ loops' = SubSeq(loops, 1, Len(loops) - 1)
          /\ \E i \in DOMAIN loops[Len(loops)].patches :
                a - loops[Len(loops)].patches[i] \in 0 .. CellSize - 1

LEMMA StopsKeeps ==
    ASSUME DictInv, NEW s \in Statuses, Stops(s), UNCHANGED latest
    PROVE  DictInv' /\ Untouched
  <1>1. WordsTypeOK' /\ mem' = mem
    BY StopsTyped DEF DictInv, Stops
  <1> QED BY <1>1 DEF DictInv, Untouched, LatestIs

LEMMA FailingKeeps ==
    ASSUME DictInv, Aborts \/ Dies \/ Undefined, UNCHANGED latest
    PROVE  DictInv' /\ Untouched
  BY StopsKeeps DEF Aborts, Dies, Undefined, Statuses

LEMMA OpensLoopKeeps ==
    ASSUME DictInv, LoopsTypeOK, NEW d, Grows(Dict, d), NEW start, NEW patches,
           d.status = "running" => /\ start \in 0 .. MemSize + CellSize
                                   /\ patches \in Seq(0 .. MemSize) /\ Len(patches) <= MaxPatches,
           OpensLoop(d, start, patches)
    PROVE  DictInv' /\ Untouched /\ LoopsTypeOK'
  <1>1. ASSUME UNCHANGED loops PROVE LoopsTypeOK'
    BY <1>1 DEF LoopsTypeOK
  <1>2. CASE Aborts /\ UNCHANGED <<latest, loops>>
    BY <1>1, <1>2, FailingKeeps
  <1>3. CASE Compiles(d) /\ UNCHANGED loops
    BY <1>1, <1>3, CompilesKeeps
  <1>4. CASE /\ d.status = "running" /\ Len(loops) < MaxLoops
             /\ Compiles(d) /\ loops' = Append(loops, [start |-> start, patches |-> patches])
    <2> DEFINE L    == [start : 0 .. MemSize + CellSize, patches : Seq(0 .. MemSize)]
               loop == [start |-> start, patches |-> patches]
    <2>1. loop \in L /\ Len(loop.patches) <= MaxPatches
      BY <1>4
    <2>2. /\ loops \in Seq(L) /\ Len(loops) \in Nat /\ MaxLoops \in Nat
          /\ \A i \in DOMAIN loops : Len(loops[i].patches) <= MaxPatches
      BY CtilCompilerAssumption DEF LoopsTypeOK
    <2>3. loops' = Append(loops, loop)
      BY <1>4
    <2> HIDE DEF L, loop
    <2>4. loops' \in Seq(L) /\ Len(loops') = Len(loops) + 1
      BY <2>1, <2>2, <2>3
    <2>5. \A i \in DOMAIN loops' : loops'[i] = loop \/ (i \in DOMAIN loops /\ loops'[i] = loops[i])
      BY <2>1, <2>2, <2>3
    <2>6. \A i \in DOMAIN loops' : Len(loops'[i].patches) <= MaxPatches
      BY <2>1, <2>2, <2>5
    <2>7. Len(loops') <= MaxLoops
      BY <1>4, <2>2, <2>4
    <2>8. LoopsTypeOK'
      BY <2>4, <2>6, <2>7 DEF LoopsTypeOK, L
    <2> QED BY <1>4, <2>8, CompilesKeeps
  <1> QED BY <1>2, <1>3, <1>4 DEF OpensLoop

LEMMA DoKeeps ==
    ASSUME DictInv, LoopsTypeOK, Do \/ DoQ
    PROVE  DictInv' /\ Untouched /\ LoopsTypeOK'
  <1>1. IsDict(Dict)
    BY DictIsDict
  <1>2. CASE Do
    <2> DEFINE d == PlaceWord(Dict, "_DOIMPL")
    <2>1. OpensLoop(d, d.here, <<>>)
      BY <1>2 DEF Do
    <2>2. Grows(Dict, d)
      BY <1>1, PlaceWordGrows
    <2> HIDE DEF d
    <2>3. /\ d.here \in 0 .. MemSize + CellSize /\ <<>> \in Seq(0 .. MemSize)
          /\ Len(<<>>) <= MaxPatches
      BY <2>2, CtilCompilerAssumption DEF Grows, IsDict
    <2> QED BY <2>1, <2>2, <2>3, OpensLoopKeeps
  <1>3. CASE DoQ
    <2> DEFINE d == PlaceWord(Dict, "_DOQIMPL")
    <2>1. OpensLoop(Reserve(d), Reserve(d).here, <<d.here>>)
      BY <1>3 DEF DoQ
    <2>2. Grows(Dict, d) /\ (d.status = "running" => d.here \in 0 .. MemSize)
      BY <1>1, PlaceWordGrows, PlaceWordFits
    <2> HIDE DEF d
    <2>3. Grows(d, Reserve(d)) /\ Reserve(d).status = d.status
      BY <2>2, ReserveGrows DEF Grows, Reserve, IsDict
    <2>4. Grows(Dict, Reserve(d)) /\ Reserve(d).here \in 0 .. MemSize + CellSize
      BY <1>1, <2>2, <2>3, GrowsTwice DEF Grows, IsDict
    <2>5. d.status = "running" => <<d.here>> \in Seq(0 .. MemSize) /\ Len(<<d.here>>) <= MaxPatches
      BY <2>2, CtilCompilerAssumption
    <2> QED BY <2>1, <2>3, <2>4, <2>5, OpensLoopKeeps
  <1> QED BY <1>2, <1>3

LEMMA BecomesTyped ==
    ASSUME DictInv, NEW d, IsDict(d), Compiles(d)
    PROVE  DictInv' /\ mem' = d.mem
  <1>1. /\ mem' = d.mem /\ here' = d.here /\ latest' = d.latest /\ status' = d.status
        /\ UNCHANGED <<stack, retstack, retstacktop, output>>
    BY DEF Compiles, Becomes
  <1> QED BY <1>1 DEF DictInv, IsDict, WordsTypeOK, Depth

LEMMA ClosesLoopKeeps ==
    ASSUME DictInv, LoopsTypeOK, NEW impl, ClosesLoop(impl)
    PROVE  DictInv' /\ LoopsTypeOK' /\ Writing
  <1> DEFINE d    == PlaceWord(Dict, impl)
             n    == Len(loops)
             loop == loops[n]
             back == PlaceCell(d, Wrap(loop.start - d.here))
             e    == Patched(back, loop.patches)
             L    == [start : 0 .. MemSize + CellSize, patches : Seq(0 .. MemSize)]
  <1>1. IsDict(Dict) /\ Dict.here = here /\ Dict.mem = mem
    BY DictIsDict DEF Dict
  <1>2. Grows(Dict, d)
    BY <1>1, PlaceWordGrows
  <1>3. CASE Compiles(d) /\ UNCHANGED loops
    BY <1>2, <1>3, CompilesKeeps DEF LoopsTypeOK, Untouched, Writing
  <1>4. CASE Aborts /\ UNCHANGED <<latest, loops>>
    BY <1>4, FailingKeeps DEF LoopsTypeOK, Untouched, Writing
  <1>5. CASE loops # <<>> /\ Compiles(e) /\ loops' = SubSeq(loops, 1, n - 1)
    <2>1. loops \in Seq(L) /\ n \in Nat /\ n <= MaxLoops /\ MaxLoops \in Nat
      BY CtilCompilerAssumption DEF LoopsTypeOK
    <2> HIDE DEF L
    <2>2. n >= 1 /\ loop \in L
      BY <1>5, <2>1
    <2>3. loop.start \in 0 .. MemSize + CellSize /\ loop.patches \in Seq(0 .. MemSize)
      BY <2>2 DEF L
    <2>4. Wrap(loop.start - d.here) \in Cell
      <3>1. loop.start - d.here \in Int
        BY <1>2, <2>3, Sizes DEF Grows, IsDict
      <3> QED BY <3>1, WrapIsCell
    <2>5. Grows(d, back)
      BY <1>2, <2>4, PlaceCellGrows DEF Grows
    <2>6. Grows(Dict, back)
      BY <1>1, <1>2, <2>5, GrowsTwice
    <2> HIDE DEF d, back
    <2>7. PatchesOf(back, e, loop.patches)
      BY <2>3, <2>6, PatchedIs DEF Grows
    <2> HIDE DEF e
    <2>8. DictInv' /\ mem' = e.mem
      BY <1>5, <2>7, BecomesTyped DEF PatchesOf
    <2>9. LoopsTypeOK'
      <3>1. /\ loops' \in Seq(L) /\ Len(loops') = n - 1
            /\ \A i \in DOMAIN loops' : i \in DOMAIN loops /\ loops'[i] = loops[i]
        BY <1>5, <2>1, FrontIs
      <3>2. Len(loops') <= MaxLoops
        BY <2>1, <3>1
      <3> QED BY <3>1, <3>2 DEF LoopsTypeOK, L
    <2>10. ASSUME NEW a \in Address, a < here, mem'[a] # mem[a]
           PROVE  \E i \in DOMAIN loop.patches : a - loop.patches[i] \in 0 .. CellSize - 1
      <3>1. back.mem[a] = mem[a]
        BY <1>1, <2>6, <2>10 DEF Grows
      <3>2. e.mem[a] # back.mem[a]
        BY <2>8, <2>10, <3>1
      <3> QED BY <2>7, <3>2 DEF PatchesOf
    <2> QED BY <1>5, <2>8, <2>9, <2>10 DEF Writing
  <1> QED BY <1>3, <1>4, <1>5 DEF ClosesLoop

LEMMA LeaveKeeps ==
    ASSUME DictInv, LoopsTypeOK, Leave
    PROVE  DictInv' /\ Untouched /\ LoopsTypeOK'
  <1> DEFINE d == PlaceWord(Dict, "_LEAVEIMPL")
             n == Len(loops)
             L == [start : 0 .. MemSize + CellSize, patches : Seq(0 .. MemSize)]
  <1>1. IsDict(Dict)
    BY DictIsDict
  <1>2. Grows(Dict, d) /\ (d.status = "running" => d.here \in 0 .. MemSize)
    BY <1>1, PlaceWordGrows, PlaceWordFits
  <1>3. CASE (Dies \/ Undefined) /\ UNCHANGED <<latest, loops>>
    BY <1>3, FailingKeeps DEF LoopsTypeOK
  <1>4. CASE Compiles(d) /\ UNCHANGED loops
    BY <1>2, <1>4, CompilesKeeps DEF LoopsTypeOK
  <1>5. CASE /\ n > 0 /\ d.status = "running" /\ Len(loops[n].patches) < MaxPatches
             /\ Compiles(Reserve(d))
             /\ loops' = [loops EXCEPT ![n].patches = Append(@, d.here)]
    <2> HIDE DEF d
    <2>1. Grows(Dict, Reserve(d))
      BY <1>1, <1>2, ReserveGrows, GrowsTwice DEF Grows
    <2> DEFINE loop == [loops[n] EXCEPT !.patches = Append(@, d.here)]
    <2>2. /\ loops \in Seq(L) /\ n \in Nat /\ n <= MaxLoops /\ MaxLoops \in Nat /\ MaxPatches \in Nat
          /\ \A i \in DOMAIN loops : Len(loops[i].patches) <= MaxPatches
      BY CtilCompilerAssumption DEF LoopsTypeOK
    <2>3. loops[n] \in L
      <3> HIDE DEF L
      <3> QED BY <1>5, <2>2
    <2>4. loop \in L /\ Len(loop.patches) = Len(loops[n].patches) + 1
      <3>1. loops[n].patches \in Seq(0 .. MemSize) /\ d.here \in 0 .. MemSize
        BY <1>2, <1>5, <2>3
      <3>2. /\ Append(loops[n].patches, d.here) \in Seq(0 .. MemSize)
            /\ Len(Append(loops[n].patches, d.here)) = Len(loops[n].patches) + 1
        BY <3>1
      <3> QED BY <2>3, <3>2
    <2>5. loops' = [loops EXCEPT ![n] = loop]
      BY <1>5
    <2>6. Len(loop.patches) <= MaxPatches
      <3>1. Len(loops[n].patches) \in Nat
        BY <2>3
      <3> QED BY ONLY <1>5, <2>2, <2>4, <3>1
    <2> HIDE DEF L, loop
    <2>7. loops' \in Seq(L) /\ Len(loops') = Len(loops)
      <3>1. n \in 1 .. Len(loops)
        BY <1>5, <2>2
      <3> QED BY <2>2, <2>4, <2>5, <3>1, ReplacedIs
    <2>8. \A i \in DOMAIN loops' : i \in DOMAIN loops /\ (loops'[i] = loop \/ loops'[i] = loops[i])
      BY <2>2, <2>5
    <2>9. \A i \in DOMAIN loops' : Len(loops'[i].patches) <= MaxPatches
      BY <2>2, <2>6, <2>8
    <2>10. LoopsTypeOK'
      BY <2>2, <2>7, <2>9 DEF LoopsTypeOK, L
    <2> QED BY <1>5, <2>1, <2>10, CompilesKeeps
  <1> QED BY <1>3, <1>4, <1>5 DEF Leave

LEMMA LoopWordKeeps ==
    ASSUME DictInv, LoopsTypeOK, compiling \in BOOLEAN, NEW w, LoopWord(w)
    PROVE  DictInv' /\ LoopsTypeOK' /\ compiling' \in BOOLEAN /\ Writing
  <1>1. ASSUME Untouched PROVE Writing
    BY <1>1 DEF Untouched, Writing
  <1>2. CASE Dies /\ UNCHANGED <<latest, compiling, loops>>
    BY <1>1, <1>2, FailingKeeps DEF LoopsTypeOK
  <1>3. CASE UNCHANGED compiling /\ (Do \/ DoQ)
    BY <1>1, <1>3, DoKeeps
  <1>4. CASE UNCHANGED compiling /\ (ClosesLoop("_LOOPIMPL") \/ ClosesLoop("_PLOOPIMPL"))
    BY <1>4, ClosesLoopKeeps
  <1>5. CASE UNCHANGED compiling /\ Leave
    BY <1>1, <1>5, LeaveKeeps
  <1> QED BY <1>2, <1>3, <1>4, <1>5 DEF LoopWord

-----------------------------------------------------------------------------
(* Words that read the input.                                              *)

InputTypeOK ==
    /\ stream \in {"builtins", "file", "stdin"}
    /\ input \in Seq(DOMAIN Code) /\ at \in 0 .. Len(input)

LEMMA MachineParts ==
    /\ MachineTypeOK <=> /\ DictInv /\ compiling \in BOOLEAN
                         /\ LoopsTypeOK /\ RunTypeOK /\ InputTypeOK
    /\ MachineTypeOK' <=> /\ DictInv' /\ compiling' \in BOOLEAN
                          /\ LoopsTypeOK' /\ RunTypeOK' /\ InputTypeOK'
  BY DEF MachineTypeOK, DictInv, LoopsTypeOK, RunTypeOK, InputTypeOK

\* What a builtin keeps, whatever becomes of pc and of the input.
Keeps == DictInv' /\ LoopsTypeOK' /\ compiling' \in BOOLEAN /\ Writing

LEMMA QuietKeeps ==
    ASSUME MachineTypeOK, WordsTypeOK', mem' = mem, KeepsCode
    PROVE  Keeps
  BY DEF MachineTypeOK, KeepsCode, Keeps, DictInv, LatestIs, LoopsTypeOK, Writing

LEMMA ExtendingKeeps ==
    ASSUME MachineTypeOK, DictInv', Untouched, compiling' \in BOOLEAN, UNCHANGED loops
    PROVE  Keeps
  BY DEF MachineTypeOK, Keeps, LoopsTypeOK, Untouched, Writing

LEMMA StoppingKeeps ==
    ASSUME MachineTypeOK, NEW s \in Statuses, Stops(s), KeepsCode
    PROVE  Keeps
  BY StopsTyped, QuietKeeps DEF Stops, MachineTypeOK

LEMMA CompilingKeeps ==
    ASSUME MachineTypeOK, NEW d, Grows(Dict, d), Compiles(d), UNCHANGED <<compiling, loops>>
    PROVE  Keeps
  <1>1. DictInv' /\ Untouched
    BY MachineParts, CompilesKeeps
  <1> QED BY <1>1, ExtendingKeeps DEF MachineTypeOK

LEMMA PushKeeps ==
    ASSUME MachineTypeOK, NEW v \in Cell, Push(v), KeepsCode
    PROVE  Keeps
  <1>1. WordsTypeOK'
    BY PushTyped DEF MachineTypeOK
  <1>2. mem' = mem
    BY DEF Push, Replace, Needs, Aborts, Stops
  <1> QED BY <1>1, <1>2, QuietKeeps

LEMMA ReadsTyped ==
    ASSUME MachineTypeOK, NEW p \in 0 .. Len(input), Reads(p)
    PROVE  InputTypeOK'
  BY DEF MachineTypeOK, Reads, InputTypeOK

LEMMA PlaceTextGrows ==
    ASSUME IsDict(Dict), NEW text \in Seq(Byte)
    PROVE  Grows(Dict, PlaceText(text))
  <1> DEFINE n == AlignNameLen(Len(text))
             c == PlaceWord(Dict, "LITSTRING")
             d == PlaceCell(c, n)
             e == Extends(d, Len(text), [d EXCEPT !.mem  = PlaceBytes(d.mem, d.here, text),
                                                  !.here = d.here + n])
  <1>1. n \in Byte /\ n <= Len(text) + 2 /\ Len(text) \in Nat
    BY AlignedIs
  <1>2. n \in Cell /\ n \in Int /\ n >= 0
    <2> HIDE DEF n
    <2> QED BY <1>1, SmallCells DEF Byte
  <1>3. Grows(Dict, c)
    BY PlaceWordGrows
  <1> HIDE DEF n, c
  <1>4. Grows(c, d)
    BY <1>2, <1>3, PlaceCellGrows DEF Grows
  <1> HIDE DEF d
  <1>5. Grows(d, e)
    BY <1>1, <1>2, <1>4, BytesGrow DEF Grows
  <1>6. Grows(Dict, e)
    <2> HIDE DEF e
    <2> QED BY <1>3, <1>4, <1>5, GrowsTwice
  <1> HIDE DEF e
  <1>7. Grows(e, PlaceWord(e, "TYPE"))
    BY <1>6, PlaceWordGrows DEF Grows
  <1>8. PlaceText(text) = PlaceWord(e, "TYPE")
    BY DEF PlaceText, n, c, d, e
  <1> QED BY <1>6, <1>7, <1>8, GrowsTwice

LEMMA PlaceCharGrows ==
    ASSUME IsDict(Dict), NEW c \in Byte
    PROVE  Grows(Dict, PlaceChar(c))
  <1> DEFINE d == PlaceWord(Dict, "LITNUMBER")
             e == Extends(d, 1, [d EXCEPT !.mem = PlaceBytes(d.mem, d.here, <<c>>),
                                          !.here = d.here + CellSize])
  <1>1. Grows(Dict, d)
    BY PlaceWordGrows
  <1> HIDE DEF d
  <1>2. <<c>> \in Seq(Byte) /\ Len(<<c>>) = 1 /\ CellSize \in Int /\ CellSize >= 0 /\ CellSize <= 1 + 2
    BY Sizes
  <1>3. Grows(d, e)
    BY <1>1, <1>2, BytesGrow DEF Grows
  <1> HIDE DEF e
  <1>4. PlaceChar(c) = e
    BY DEF PlaceChar, d, e
  <1> QED BY <1>1, <1>3, <1>4, GrowsTwice

LEMMA DiesReading ==
    ASSUME MachineTypeOK, NEW q \in 0 .. Len(input), Dies, KeepsCode, Reads(q)
    PROVE  Keeps /\ InputTypeOK'
  BY StoppingKeeps, ReadsTyped DEF Dies, Statuses

LEMMA CommentsKeep ==
    ASSUME MachineTypeOK, NEW p \in 0 .. Len(input), Backslash(p) \/ Paren(p)
    PROVE  Keeps /\ InputTypeOK'
  <1>1. /\ input \in Seq(DOMAIN Code) /\ Len(input) \in Nat
        /\ 0 \in 0 .. Len(input) /\ Len(input) \in 0 .. Len(input)
    BY DEF MachineTypeOK
  <1>2. ASSUME NEW c PROVE Closing(input, p, c) \in 0 .. Len(input)
    <2> DEFINE q == Closing(input, p, c)
    <2>1. q = 0 \/ q \in p + 1 .. Len(input)
      BY <1>1, ClosingIsIn
    <2> HIDE DEF q
    <2>2. q \in 0 .. Len(input)
      BY <1>1, <2>1
    <2> QED BY <2>2 DEF q
  <1>3. ASSUME KeepsCode, UNCHANGED wordVars PROVE Keeps
    <2>1. WordsTypeOK' /\ mem' = mem
      BY <1>3 DEF MachineTypeOK, wordVars, WordsTypeOK, Depth
    <2> QED BY <1>3, <2>1, QuietKeeps
  <1>4. CASE Backslash(p)
    <2>1. ToNewline(p) \in 0 .. Len(input)
      BY <1>1, <1>2 DEF ToNewline
    <2> QED BY <1>3, <1>4, <2>1, ReadsTyped DEF Backslash
  <1>5. CASE Paren(p)
    BY <1>1, <1>2, <1>3, <1>5, DiesReading, ReadsTyped DEF Paren, Wanted
  <1> QED BY <1>4, <1>5

LEMMA DotQuoteKeeps ==
    ASSUME MachineTypeOK, NEW p \in 0 .. Len(input), DotQuote(p)
    PROVE  Keeps /\ InputTypeOK'
  <1> DEFINE q    == Closing(input, p, "\"")
             text == Name(TextFrom(input, p))
  <1>1. /\ input \in Seq(DOMAIN Code) /\ Len(input) \in Nat
        /\ 0 \in 0 .. Len(input) /\ Len(input) \in 0 .. Len(input)
    BY DEF MachineTypeOK
  <1>2. q = 0 \/ q \in p + 1 .. Len(input)
    BY <1>1, ClosingIsIn
  <1>3. q # 0 => text \in Seq(Byte)
    <2>1. q # 0 => TextFrom(input, p) \in Seq(DOMAIN Code)
      BY <1>1, TextIsIn DEF Quote
    <2> QED BY <2>1, NameIsBytes
  <1>4. \/ q = 0 /\ Dies /\ KeepsCode /\ Reads(Len(input))
        \/ q # 0 /\ Compiles(PlaceText(text)) /\ UNCHANGED <<compiling, loops>> /\ Reads(q)
        \/ q # 0 /\ Writes(0, <<"text", text>>) /\ KeepsCode /\ Reads(q)
    BY DEF DotQuote, Wanted
  <1> HIDE DEF q, text
  <1>5. q \in 0 .. Len(input)
    BY <1>1, <1>2
  <1>6. CASE Dies /\ KeepsCode /\ Reads(Len(input))
    BY <1>1, <1>6, DiesReading
  <1>7. CASE q # 0 /\ Compiles(PlaceText(text)) /\ UNCHANGED <<compiling, loops>> /\ Reads(q)
    <2>1. Grows(Dict, PlaceText(text))
      BY <1>3, <1>7, MachineParts, DictIsDict, PlaceTextGrows
    <2> QED BY <1>5, <1>7, <2>1, CompilingKeeps, ReadsTyped
  <1>8. CASE q # 0 /\ Writes(0, <<"text", text>>) /\ KeepsCode /\ Reads(q)
    <2>1. <<"text", text>> \in Items
      <3>1. text \in Seq(Byte)
        BY <1>3, <1>8
      <3> QED BY ONLY <3>1 DEF Items
    <2>2. WordsTypeOK'
      BY <1>8, <2>1, WritesTyped DEF MachineTypeOK
    <2>3. mem' = mem
      BY <1>8 DEF Writes, Needs, Aborts, Stops
    <2> QED BY <1>5, <1>8, <2>2, <2>3, QuietKeeps, ReadsTyped
  <1> QED BY <1>4, <1>6, <1>7, <1>8

LEMMA KeyKeeps ==
    ASSUME MachineTypeOK, NEW p \in 0 .. Len(input), Key(p)
    PROVE  Keeps /\ InputTypeOK'
  <1>1. input \in Seq(DOMAIN Code) /\ Len(input) \in Nat
    BY DEF MachineTypeOK
  <1>2. CASE p < Len(input) /\ Push(Code[input[p + 1]]) /\ Reads(p + 1) /\ KeepsCode
    <2>1. p + 1 \in 0 .. Len(input) /\ input[p + 1] \in DOMAIN Code
      BY <1>1, <1>2
    <2>2. Code[input[p + 1]] \in Cell
      BY <2>1, CodeAssumption, SmallCells
    <2> QED BY <1>2, <2>1, <2>2, PushKeeps, ReadsTyped
  <1>3. CASE Stops("exited") /\ Reads(p) /\ KeepsCode
    BY <1>3, StoppingKeeps, ReadsTyped DEF Statuses
  <1> QED BY <1>2, <1>3 DEF Key

\* The name that is read, and the position behind it.
LEMMA NameIsRead ==
    ASSUME MachineTypeOK, NEW p \in 0 .. Len(input)
    PROVE  /\ GetWord(input, p) \in Seq(DOMAIN Code)
           /\ Name(GetWord(input, p)) \in Seq(Byte)
           /\ AfterWord(input, p) \in 0 .. Len(input)
  <1>1. input \in Seq(DOMAIN Code)
    BY DEF MachineTypeOK
  <1>2. GetWord(input, p) \in Seq(DOMAIN Code) /\ AfterWord(input, p) \in 0 .. Len(input)
    BY <1>1, WordIsIn
  <1> QED BY <1>2, NameIsBytes

LEMMA CharsKeep ==
    ASSUME MachineTypeOK, NEW p \in 0 .. Len(input), Char(p) \/ CompChar(p)
    PROVE  Keeps /\ InputTypeOK'
  <1> DEFINE name == Name(GetWord(input, p))
             q    == AfterWord(input, p)
  <1>1. input \in Seq(DOMAIN Code) /\ Len(input) \in Nat /\ Len(input) \in 0 .. Len(input)
    BY DEF MachineTypeOK
  <1>2. name \in Seq(Byte) /\ q \in 0 .. Len(input)
    BY NameIsRead
  <1>3. CASE Char(p)
    <2>1. \/ name # <<>> /\ Push(SignedByte(name[1])) /\ KeepsCode /\ Reads(q)
          \/ Dies /\ KeepsCode /\ Reads(Len(input))
      BY <1>3 DEF Char, WithWord, Wanted
    <2> HIDE DEF name, q
    <2>2. name # <<>> => SignedByte(name[1]) \in Cell
      <3>1. name # <<>> => name[1] \in Byte
        BY <1>2
      <3> QED BY <3>1, SignedByteIsCell
    <2> QED BY <1>1, <1>2, <2>1, <2>2, PushKeeps, ReadsTyped, DiesReading
  <1>4. CASE CompChar(p)
    <2> DEFINE c == Code[input[p + 1]]
    <2>1. \/ p < Len(input) /\ Compiles(PlaceChar(c)) /\ UNCHANGED <<compiling, loops>> /\ Reads(p + 1)
          \/ Dies /\ KeepsCode /\ Reads(Len(input))
          \/ Dies /\ KeepsCode /\ Reads(p)
      BY <1>4 DEF CompChar, Wanted
    <2>2. CASE p < Len(input) /\ Compiles(PlaceChar(c)) /\ UNCHANGED <<compiling, loops>> /\ Reads(p + 1)
      <3>1. p + 1 \in 0 .. Len(input) /\ input[p + 1] \in DOMAIN Code
        BY <1>1, <2>2
      <3>2. c \in Byte
        BY <3>1, CodeAssumption
      <3> HIDE DEF c
      <3>3. Grows(Dict, PlaceChar(c))
        BY <3>2, MachineParts, DictIsDict, PlaceCharGrows
      <3> QED BY <2>2, <3>1, <3>3, CompilingKeeps, ReadsTyped
    <2> QED BY <1>1, <2>1, <2>2, DiesReading
  <1> QED BY <1>3, <1>4

LEMMA DefinersKeep ==
    ASSUME MachineTypeOK, NEW p \in 0 .. Len(input),
           NEW name \in Seq(Byte),
           \/ (Create(name) \/ Constant(name)) /\ UNCHANGED <<compiling, loops>>
           \/ DefinesWord(name)
    PROVE  Keeps
  <1>1. CASE (Create(name) \/ Constant(name)) /\ UNCHANGED <<compiling, loops>>
    <2>1. DictInv' /\ Untouched
      BY <1>1, MachineParts, DefiningKeeps
    <2> QED BY <1>1, <2>1, ExtendingKeeps DEF MachineTypeOK
  <1>2. CASE Colon(name) /\ compiling' = TRUE /\ UNCHANGED loops
    <2>1. DictInv' /\ Untouched
      BY <1>2, MachineParts, DefiningKeeps
    <2> QED BY <1>2, <2>1, ExtendingKeeps
  <1>3. CASE UNCHANGED wordVars /\ KeepsCode
    <2>1. WordsTypeOK' /\ mem' = mem
      BY <1>3 DEF MachineTypeOK, wordVars, WordsTypeOK, Depth
    <2> QED BY <1>3, <2>1, QuietKeeps
  <1> QED BY <1>1, <1>2, <1>3 DEF DefinesWord

LEMMA ReadingWordKeeps ==
    ASSUME MachineTypeOK, NEW p \in 0 .. Len(input), NEW w, ReadingWord(w, p)
    PROVE  Keeps /\ InputTypeOK'
  <1> DEFINE name == Name(GetWord(input, p))
             q    == AfterWord(input, p)
             Defines == \/ (Create(name) \/ Constant(name)) /\ UNCHANGED <<compiling, loops>>
                        \/ DefinesWord(name)
  <1>1. name \in Seq(Byte) /\ q \in 0 .. Len(input) /\ Len(input) \in 0 .. Len(input)
    BY NameIsRead DEF MachineTypeOK
  <1>2. \/ Backslash(p) \/ Paren(p) \/ DotQuote(p) \/ Key(p) \/ Char(p) \/ CompChar(p)
        \/ Defines /\ Reads(q)
        \/ Dies /\ KeepsCode /\ Reads(Len(input))
    BY DEF ReadingWord, WithWord, Wanted
  <1>3. CASE Defines /\ Reads(q)
    <2> HIDE DEF name, q
    <2> QED BY <1>1, <1>3, DefinersKeep, ReadsTyped
  <1> QED BY <1>1, <1>2, <1>3, CommentsKeep, DotQuoteKeeps, KeyKeeps, CharsKeep, DiesReading

-----------------------------------------------------------------------------
(* Steps.                                                                  *)

LEMMA MovesOnTyped ==
    ASSUME MachineTypeOK, Moves(0)
    PROVE  RunTypeOK'
  BY MachineParts, MovesTyped

LEMMA RunKeeps ==
    ASSUME MachineTypeOK, NEW p \in 0 .. Len(input), NEW w, Run(w, p)
    PROVE  MachineTypeOK' /\ Writing
  <1> SUFFICES Keeps /\ RunTypeOK' /\ InputTypeOK'
    BY MachineParts DEF Keeps
  <1>0. WordsTypeOK /\ RunTypeOK /\ DictInv /\ LoopsTypeOK /\ compiling \in BOOLEAN
    BY MachineParts DEF DictInv
  <1>1. CASE DataWord(w) /\ Moves(0) /\ Reads(p) /\ KeepsCode
    <2>1. WordsTypeOK' /\ Stored
      BY <1>0, <1>1, DataWordStores
    <2>2. Keeps
      BY <1>0, <1>1, <2>1 DEF Keeps, KeepsCode, DictInv, LatestIs, LoopsTypeOK, Stored, Writing
    <2> QED BY <1>1, <2>2, MovesOnTyped, ReadsTyped
  <1>2. CASE DotD /\ Moves(0) /\ Reads(p) /\ KeepsCode
    <2>1. latest \in Int
      BY <1>0 DEF DictInv, LatestIs
    <2>2. WordsTypeOK' /\ mem' = mem
      BY <1>0, <1>2, <2>1, DotDShows
    <2> QED BY <1>2, <2>2, QuietKeeps, MovesOnTyped, ReadsTyped
  <1>3. CASE ThreadedWord(w) /\ Reads(p) /\ KeepsCode
    <2>1. Threads
      BY <1>0, <1>3, ThreadedWordThreads
    <2> QED BY <1>3, <2>1, QuietKeeps, ReadsTyped DEF Threads
  <1>4. CASE LoopWord(w) /\ Moves(0) /\ Reads(p)
    <2>1. DictInv' /\ LoopsTypeOK' /\ compiling' \in BOOLEAN /\ Writing
      BY <1>0, <1>4, LoopWordKeeps
    <2> QED BY <1>4, <2>1, MovesOnTyped, ReadsTyped DEF Keeps
  <1>5. CASE Immediate /\ Moves(0) /\ Reads(p) /\ UNCHANGED <<compiling, loops>>
    <2>1. DictInv' /\ \A a \in Address : mem'[a] # mem[a] =>
                          a = latest + CellSize /\ mem'[a] = mem[a] + F_IMMEDIATE
      BY <1>0, <1>5, ImmediateKeeps
    <2>2. Keeps
      BY <1>0, <1>5, <2>1 DEF Keeps, LoopsTypeOK, Writing
    <2> QED BY <1>5, <2>2, MovesOnTyped, ReadsTyped
  <1>6. CASE Semicolon /\ compiling' = FALSE /\ Moves(0) /\ Reads(p) /\ UNCHANGED loops
    <2>1. DictInv' /\ Untouched
      BY <1>0, <1>6, CompileKeeps, SmallCells DEF Semicolon
    <2> QED BY <1>6, <2>1, ExtendingKeeps, MovesOnTyped, ReadsTyped
  <1>7. CASE ReadingWord(w, p) /\ Moves(0)
    BY <1>7, ReadingWordKeeps, MovesOnTyped
  <1> QED BY <1>1, <1>2, <1>3, <1>4, <1>5, <1>6, <1>7 DEF Run

LEMMA GivesKeeps ==
    ASSUME MachineTypeOK, NEW p \in 0 .. Len(input), NEW s \in Statuses, Gives(s, p)
    PROVE  MachineTypeOK' /\ Writing
  <1>1. Keeps
    BY StoppingKeeps DEF Gives
  <1>2. InputTypeOK'
    BY ReadsTyped DEF Gives
  <1>3. RunTypeOK'
    BY MachineParts DEF Gives, runVars, RunTypeOK
  <1> QED BY <1>1, <1>2, <1>3, MachineParts DEF Keeps

LEMMA RunEntryKeeps ==
    ASSUME MachineTypeOK, NEW p \in 0 .. Len(input), NEW e, RunEntry(e, p)
    PROVE  MachineTypeOK' /\ Writing
  <1>1. CASE Run(Builtins[Func(e)], p)
    BY <1>1, RunKeeps
  <1>2. CASE Gives("undefined", p)
    BY <1>2, GivesKeeps DEF Statuses
  <1> QED BY <1>1, <1>2 DEF RunEntry

LEMMA KnowsKeeps ==
    ASSUME MachineTypeOK, NEW p \in 0 .. Len(input), NEW e \in Address, Holds(e, HeaderSize),
           Knows(e, p)
    PROVE  MachineTypeOK' /\ Writing
  <1>1. CASE Compile(e) /\ Reads(p) /\ UNCHANGED <<compiling, loops, runVars>>
    <2>1. e \in Cell
      BY Sizes DEF Address
    <2>2. DictInv' /\ Untouched
      BY <1>1, <2>1, MachineParts, CompileKeeps
    <2>3. Keeps
      BY <1>1, <2>2, ExtendingKeeps DEF MachineTypeOK
    <2>4. RunTypeOK'
      BY <1>1, MachineParts DEF runVars, RunTypeOK
    <2> QED BY <1>1, <2>3, <2>4, ReadsTyped, MachineParts DEF Keeps
  <1>2. CASE Execute(e, p)
    <2>1. CASE RunEntry(e, p)
      BY <2>1, RunEntryKeeps
    <2>2. CASE /\ executing' = TRUE /\ pc' = CodeAddr(e)
               /\ Reads(p) /\ KeepsCode /\ UNCHANGED wordVars
      <3>1. CodeAddr(e) \in Int
        BY CodeAddrIsInt, Sizes DEF MachineTypeOK, Address
      <3>2. WordsTypeOK' /\ mem' = mem
        BY <2>2 DEF MachineTypeOK, wordVars, WordsTypeOK, Depth
      <3>3. RunTypeOK'
        BY <2>2, <3>1 DEF RunTypeOK
      <3> QED BY <2>2, <3>2, <3>3, QuietKeeps, ReadsTyped, MachineParts DEF Keeps
    <2> QED BY <1>2, <2>1, <2>2 DEF Execute
  <1> QED BY <1>1, <1>2 DEF Knows

LEMMA NumberKeeps ==
    ASSUME MachineTypeOK, NEW p \in 0 .. Len(input), NEW n \in Cell, Number(n, p)
    PROVE  MachineTypeOK' /\ Writing
  <1> DEFINE c == PlaceWord(Dict, "LITNUMBER")
             d == PlaceCell(c, n)
  <1>1. IsDict(Dict)
    BY MachineParts, DictIsDict
  <1>2. Grows(Dict, c)
    BY <1>1, PlaceWordGrows
  <1>3. Compiles(d) \/ (Push(n) /\ UNCHANGED latest)
    BY DEF Number
  <1> HIDE DEF c
  <1>4. Grows(c, d)
    BY <1>2, PlaceCellGrows DEF Grows
  <1> HIDE DEF d
  <1>5. Grows(Dict, d)
    BY <1>1, <1>2, <1>4, GrowsTwice
  <1>6. Keeps
    BY <1>3, <1>5, CompilingKeeps, PushKeeps DEF Number, KeepsCode
  <1>7. RunTypeOK' /\ InputTypeOK'
    BY MachineParts, ReadsTyped DEF Number, runVars, RunTypeOK
  <1> QED BY <1>6, <1>7, MachineParts DEF Keeps

\* The builtins are registered in the order of the list.
MachineInv == MachineTypeOK /\ (stream = "builtins" => input = Builtins)

LEMMA RegistersKeeps ==
    ASSUME MachineInv, Registers
    PROVE  MachineTypeOK' /\ Writing
  <1> DEFINE c     == input[at + 1]
             flags == IF c \in ImmediateBuiltins THEN F_IMMEDIATE ELSE 0
  <1>1. /\ stream = "builtins" /\ at < Len(input) /\ Reads(at + 1)
        /\ UNCHANGED <<compiling, loops, runVars>>
        /\ Compiles(Register(Dict, WordName(c), flags, at + 1))
    BY DEF Registers
  <1>2. /\ input \in Seq(DOMAIN Code) /\ at \in 0 .. Len(input) /\ Len(input) \in Nat
        /\ DOMAIN input \subseteq Cell
    BY <1>1, CtilAssumption DEF MachineInv, MachineTypeOK
  <1>3. at + 1 \in 0 .. Len(input) /\ at + 1 \in Cell /\ c \in DOMAIN Code
    <2>1. at + 1 \in DOMAIN input
      BY <1>1, <1>2
    <2> QED BY <1>2, <2>1
  <1>4. WordName(c) \in Seq(Byte)
    BY <1>3, CodeAssumption DEF WordName
  <1>5. F_BUILTIN + flags \in Byte
    <2>1. F_BUILTIN + F_IMMEDIATE \in Byte
      BY CtilAssumption
    <2>2. F_BUILTIN \in Nat /\ ByteBase \in Nat
      BY Sizes DEF F_BUILTIN
    <2>3. F_BUILTIN + 0 \in Byte
      BY <2>1, <2>2 DEF Byte, F_IMMEDIATE
    <2> QED BY <2>1, <2>3
  <1> HIDE DEF c, flags
  <1>6. DictInv' /\ Untouched
    BY <1>1, <1>3, <1>4, <1>5, MachineParts, RegisterKeeps DEF MachineInv, Compiles
  <1>7. Keeps
    BY <1>1, <1>6, ExtendingKeeps DEF MachineInv, MachineTypeOK
  <1>8. RunTypeOK' /\ InputTypeOK'
    BY <1>1, <1>3, MachineParts, ReadsTyped DEF MachineInv, runVars, RunTypeOK
  <1> QED BY <1>7, <1>8, MachineParts DEF Keeps

LEMMA SourcesKeep ==
    ASSUME MachineTypeOK, OpensFile \/ EndOfInput
    PROVE  MachineTypeOK' /\ Writing
  <1>1. ASSUME NEW s \in {"file", "stdin"}, NEW text \in Seq(DOMAIN Code), Reading(s, text)
        PROVE  InputTypeOK'
    BY <1>1 DEF Reading, InputTypeOK
  <1>2. /\ KeepsCode /\ UNCHANGED runVars
        /\ \/ UNCHANGED wordVars \/ Dies \/ Stops("done")
        /\ InputTypeOK'
    <2>1. /\ Prelude \in Seq(DOMAIN Code)
          /\ \A text \in Programs : text \in Seq(DOMAIN Code)
      BY CtilAssumption
    <2>2. UNCHANGED readVars => InputTypeOK'
      BY MachineParts DEF readVars, InputTypeOK
    <2> QED BY <1>1, <2>1, <2>2 DEF OpensFile, EndOfInput
  <1>3. ASSUME UNCHANGED wordVars PROVE Keeps
    <2>1. WordsTypeOK' /\ mem' = mem
      BY <1>3 DEF MachineTypeOK, wordVars, WordsTypeOK, Depth
    <2> QED BY <1>2, <2>1, QuietKeeps
  <1>4. Keeps
    BY <1>2, <1>3, StoppingKeeps DEF Dies, Statuses
  <1>5. RunTypeOK'
    BY <1>2, MachineParts DEF runVars, RunTypeOK
  <1> QED BY <1>2, <1>4, <1>5, MachineParts DEF Keeps

LEMMA InterpretKeeps ==
    ASSUME MachineTypeOK, Interpret
    PROVE  MachineTypeOK' /\ Writing
  <1> DEFINE word == GetWord(input, at)
             p    == AfterWord(input, at)
             e    == Find(Name(word))
  <1>1. word \in Seq(DOMAIN Code) /\ Name(word) \in Seq(Byte) /\ p \in 0 .. Len(input)
    BY NameIsRead DEF MachineTypeOK
  <1>2. e \in Address => Holds(e, HeaderSize)
    <2>1. IsDict(Dict)
      BY MachineParts, DictIsDict
    <2> HIDE DEF word
    <2> QED BY <1>1, <2>1, FoundHolds DEF Find
  <1>3. \/ EndOfInput
        \/ e \in Address /\ Knows(e, p)
        \/ IsNumber(word) /\ Number(Numbers[word[1]], p)
        \/ \E s \in {"fatal", "hangs", "undefined"} : Gives(s, p)
    BY DEF Interpret
  <1> HIDE DEF word, p, e
  <1>4. CASE IsNumber(word) /\ Number(Numbers[word[1]], p)
    <2>1. Numbers[word[1]] \in Cell
      BY <1>4, CtilAssumption DEF IsNumber
    <2> QED BY <1>1, <1>4, <2>1, NumberKeeps
  <1>5. CASE \E s \in {"fatal", "hangs", "undefined"} : Gives(s, p)
    BY <1>1, <1>5, GivesKeeps DEF Statuses
  <1>6. CASE e \in Address /\ Knows(e, p)
    BY <1>1, <1>2, <1>6, KnowsKeeps
  <1> QED BY <1>3, <1>4, <1>5, <1>6, SourcesKeep

LEMMA ReturnsAndCallsKeep ==
    ASSUME MachineTypeOK, KeepsCode, Reads(at),
           Return \/ \E c \in Int : Holds(c, HeaderSize) /\ Call(c)
    PROVE  MachineTypeOK' /\ Writing
  <1>1. /\ retstack \in [Slot -> Cell] /\ retstacktop \in Int /\ retstacktop < StackSize
        /\ pc \in Int /\ executing \in BOOLEAN /\ WordsTypeOK /\ at \in 0 .. Len(input)
        /\ StackSize \in Nat /\ Cell \subseteq Int
    BY SmallCells DEF MachineTypeOK, WordsTypeOK, Cell
  <1> SUFFICES WordsTypeOK' /\ RunTypeOK' /\ mem' = mem
    BY <1>1, QuietKeeps, ReadsTyped, MachineParts DEF Keeps
  <1>2. CASE Return
    <2>1. CASE retstacktop < 0 /\ executing' = FALSE /\ UNCHANGED <<wordVars, pc>>
      BY <1>1, <2>1 DEF wordVars, WordsTypeOK, Depth, RunTypeOK
    <2>2. CASE /\ retstacktop >= 0
               /\ pc' = retstack[retstacktop] /\ retstacktop' = retstacktop - 1
               /\ UNCHANGED <<mem, here, stack, retstack, output, status, executing>>
      <3>1. retstacktop \in Slot
        BY <1>1, <2>2 DEF Slot
      <3>2. pc' \in Int
        BY <1>1, <2>2, <3>1
      <3>3. retstacktop' \in Int /\ retstacktop' < StackSize
        BY <1>1, <2>2
      <3> QED BY <1>1, <2>2, <3>2, <3>3 DEF WordsTypeOK, Depth, RunTypeOK
    <2> QED BY <1>2, <2>1, <2>2 DEF Return
  <1>3. ASSUME NEW c \in Int, Holds(c, HeaderSize), Call(c)
        PROVE  WordsTypeOK' /\ RunTypeOK' /\ mem' = mem
    <2>1. CASE /\ retstacktop + 1 \in Slot
               /\ retstacktop' = retstacktop + 1
               /\ retstack' = [retstack EXCEPT ![retstacktop + 1] = Wrap(pc + CellSize)]
               /\ pc' = CodeAddr(c)
               /\ UNCHANGED <<mem, here, stack, output, status, executing>>
      <3>1. Wrap(pc + CellSize) \in Cell
        <4>1. pc + CellSize \in Int
          BY <1>1, Sizes
        <4> QED BY <4>1, WrapIsCell
      <3>2. CodeAddr(c) \in Int
        BY <1>1, <1>3, CodeAddrIsInt
      <3>3. retstack' \in [Slot -> Cell]
        BY <1>1, <2>1, <3>1
      <3>4. retstacktop' \in Int /\ retstacktop' < StackSize
        BY <1>1, <2>1 DEF Slot
      <3> QED BY <1>1, <2>1, <3>2, <3>3, <3>4 DEF WordsTypeOK, Depth, RunTypeOK
    <2>2. CASE Undefined /\ UNCHANGED runVars
      <3>1. WordsTypeOK'
        BY <1>1, <2>2, FailuresTyped
      <3> QED BY <1>1, <2>2, <3>1 DEF Undefined, Stops, runVars, RunTypeOK
    <2> QED BY <1>3, <2>1, <2>2 DEF Call
  <1> QED BY <1>2, <1>3

LEMMA CycleKeeps ==
    ASSUME MachineTypeOK, Cycle
    PROVE  MachineTypeOK' /\ Writing
  <1> DEFINE c == CellAt(mem, pc)
  <1>1. at \in 0 .. Len(input) /\ mem \in [Address -> Byte] /\ pc \in Int
    BY DEF MachineTypeOK, WordsTypeOK
  <1>2. \/ Gives("undefined", at)
        \/ Return /\ KeepsCode /\ Reads(at)
        \/ RunEntry(c, at)
        \/ Holds(pc, CellSize) /\ Holds(c, HeaderSize) /\ Call(c) /\ KeepsCode /\ Reads(at)
    BY DEF Cycle
  <1>3. Holds(pc, CellSize) => c \in Int
    BY <1>1, CellIn
  <1> HIDE DEF c
  <1>4. CASE Gives("undefined", at)
    BY <1>1, <1>4, GivesKeeps DEF Statuses
  <1>5. CASE RunEntry(c, at)
    BY <1>1, <1>5, RunEntryKeeps
  <1> QED BY <1>2, <1>3, <1>4, <1>5, ReturnsAndCallsKeep

LEMMA InitTyped == Init => MachineInv
  <1> SUFFICES ASSUME Init PROVE MachineInv
    OBVIOUS
  <1>1. mem \in [Address -> Byte] /\ retstack \in [Slot -> Cell]
    BY SmallCells DEF Init, WordsInit
  <1>2. /\ stack = <<>> /\ output = <<>> /\ status = "running" /\ here = 0
        /\ retstacktop = -1 /\ latest = -1 /\ loops = <<>> /\ pc = 0 /\ at = 0
        /\ stream = "builtins" /\ input = Builtins /\ compiling = FALSE /\ executing = FALSE
    BY DEF Init, WordsInit
  <1>3. /\ <<>> \in Seq(Cell) /\ Len(<<>>) = 0 /\ <<>> \in Seq(Items) /\ DOMAIN <<>> = {}
        /\ <<>> \in Seq([start : 0 .. MemSize + CellSize, patches : Seq(0 .. MemSize)])
    OBVIOUS
  <1>4. Depth <= StackSize /\ status \in Statuses
    BY <1>2, <1>3, SmallCells DEF Depth, Statuses
  <1>5. WordsTypeOK
    BY <1>1, <1>2, <1>3, <1>4, SmallCells DEF WordsTypeOK
  <1>6. Len(loops) <= MaxLoops /\ \A i \in DOMAIN loops : Len(loops[i].patches) <= MaxPatches
    BY <1>2, <1>3, CtilCompilerAssumption
  <1>7. input \in Seq(DOMAIN Code) /\ at \in 0 .. Len(input)
    BY <1>2, CtilAssumption
  <1>8. LatestIs(latest) /\ compiling \in BOOLEAN /\ executing \in BOOLEAN /\ pc \in Int
    <2>1. LatestIs(latest)
      BY <1>2 DEF LatestIs
    <2>2. compiling \in BOOLEAN /\ executing \in BOOLEAN
      BY ONLY <1>2, Zenon
    <2>3. pc \in Int
      BY <1>2
    <2> QED BY <2>1, <2>2, <2>3
  <1>9. loops \in Seq([start : 0 .. MemSize + CellSize, patches : Seq(0 .. MemSize)])
    BY <1>2, <1>3
  <1> QED BY <1>2, <1>5, <1>6, <1>7, <1>8, <1>9 DEF MachineInv, MachineTypeOK

LEMMA NextKeeps == MachineInv /\ [Next]_vars => MachineInv' /\ Writing
  <1> SUFFICES ASSUME MachineInv, [Next]_vars PROVE MachineInv' /\ Writing
    OBVIOUS
  <1>1. MachineTypeOK
    BY DEF MachineInv
  <1>2. CASE UNCHANGED vars
    BY <1>2 DEF vars, codeVars, dictVars, wordVars, runVars, readVars, MachineInv, MachineTypeOK,
                WordsTypeOK, Depth, Writing
  <1>3. MachineTypeOK' /\ Writing
    <2>1. Registers \/ OpensFile \/ Interpret \/ Cycle \/ UNCHANGED vars
      BY DEF Next, Step, Terminated
    <2>2. MachineInv' => MachineTypeOK'
      BY DEF MachineInv
    <2> QED BY <1>1, <1>2, <2>1, <2>2, RegistersKeeps, SourcesKeep, InterpretKeeps, CycleKeeps
  <1>4. stream' = "builtins" => input' = Builtins
    <2>1. \/ UNCHANGED <<stream, input>> \/ stream' \in {"file", "stdin"}
      <3>1. CASE Registers \/ OpensFile
        BY <3>1 DEF Registers, OpensFile, Reads, Reading, readVars
      <3>2. ASSUME NEW w, NEW p, Run(w, p) PROVE UNCHANGED <<stream, input>>
        <4>1. CASE ReadingWord(w, p)
          BY <4>1 DEF ReadingWord, WithWord, Wanted, Backslash, Paren, DotQuote, Key, Char,
                      CompChar, Reads
        <4>2. CASE Reads(p)
          BY <4>2 DEF Reads
        <4> QED BY <3>2, <4>1, <4>2 DEF Run
      <3>3. ASSUME NEW e, NEW p, RunEntry(e, p) PROVE UNCHANGED <<stream, input>>
        BY <3>2, <3>3 DEF RunEntry, Gives, Reads
      <3>4. ASSUME NEW e, NEW p, Knows(e, p) PROVE UNCHANGED <<stream, input>>
        BY <3>3, <3>4 DEF Knows, Execute, Reads
      <3>5. CASE Interpret
        BY <3>4, <3>5 DEF Interpret, EndOfInput, Number, Gives, Reads, Reading, readVars
      <3>6. CASE Cycle
        BY <3>3, <3>6 DEF Cycle, Gives, Reads
      <3> QED BY <1>2, <3>1, <3>5, <3>6
              DEF Next, Step, Terminated, vars, readVars
    <2> QED BY <2>1 DEF MachineInv
  <1> QED BY <1>3, <1>4 DEF MachineInv

\* ctil never leaves the states of MachineTypeOK, whatever the prelude and the
\* program are: here passes the end of memory by a cell at most, latest is -1 or
\* the address of a header that lies in memory, loop_compile_stack is never
\* longer than its array, nor are the lists of operands in it, and these lie in
\* memory (state.c:36-47, builtins.c:522-638).
THEOREM MachineTypes == Spec => []MachineTypeOK
  <1>1. MachineInv /\ [Next]_vars => MachineInv'
    BY NextKeeps
  <1>2. MachineInv => MachineTypeOK
    BY DEF MachineInv
  <1> QED BY InitTyped, <1>1, <1>2, PTL DEF Spec

\* Bytes below here change only by a store of the program, by IMMEDIATE in the
\* newest header, and where LOOP and +LOOP fill in the operands that were noted
\* in the loop they close (builtins.c:497-638).
THEOREM CodeIsNotOverwritten == Spec => WritesBelowHere
  <1>1. MachineInv /\ [Next]_vars => MachineInv'
    BY NextKeeps
  <1>2. MachineInv /\ [Next]_vars =>
           [\A a \in Address : a < here /\ mem'[a] # mem[a] =>
              \/ Depth >= 2 /\ a \in Top .. Top + CellSize - 1 /\ stack' = Rest(2)
              \/ a = latest + CellSize /\ mem'[a] = mem[a] + F_IMMEDIATE
              \/ /\ loops # <<>> /\ loops' = SubSeq(loops, 1, Len(loops) - 1)
                 /\ \E i \in DOMAIN loops[Len(loops)].patches :
                       a - loops[Len(loops)].patches[i] \in 0 .. CellSize - 1]_vars
    BY NextKeeps DEF Writing
  <1> QED BY InitTyped, <1>1, <1>2, PTL DEF Spec, WritesBelowHere
=============================================================================
