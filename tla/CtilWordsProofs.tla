-------------------------- MODULE CtilWordsProofs --------------------------
(***************************************************************************)
(* What the data words of ctil keep, and that they agree with goforth's,   *)
(* for every size of memory and of the stacks, every width of a byte and   *)
(* programs of every length.                                               *)
(***************************************************************************)
EXTENDS CtilWordsMC, CtilTyped

-----------------------------------------------------------------------------
\* What is known of a program of data words: the types, and that it leaves
\* the return stack no lower than empty.
Typed == WordsTypeOK /\ retstacktop >= -1

LEMMA DataWordKeepsTyped == ASSUME Typed, NEW w, DataWord(w) PROVE Typed'
  <1>1. WordsTypeOK'
    BY DataWordTyped DEF Typed
  <1>2. retstacktop \in Int /\ retstacktop >= -1
    BY DEF Typed, WordsTypeOK
  <1> USE DEF Stops, Aborts, Dies, Undefined
  <1>3. CASE ToR \/ FromR \/ DropR
    BY <1>1, <1>2, <1>3 DEF ToR, FromR, DropR, Needs, Typed
  <1>4. ASSUME NEW d, NEW least, Peek(d, least) PROVE UNCHANGED retstacktop
    BY <1>4 DEF Peek, Push, Replace, Needs
  <1>5. CASE \/ Clearstack \/ Drop \/ Swap \/ Dup \/ Over \/ Invert
             \/ Here \/ At \/ CAt \/ Comma \/ Allot
    BY <1>1, <1>2, <1>5
       DEF Clearstack, Drop, Swap, Dup, Over, Invert, Here, At, CAt, Comma, Allot, Access, Copies,
           Push, Replace, Needs, Typed
  <1>6. CASE Divmod \/ \E op \in BinopWords : Binop(op)
    BY <1>1, <1>2, <1>6 DEF Divmod, Binop, Replace, Needs, Typed
  <1>7. CASE Question \/ Exclamation \/ CExclamation \/ Dot \/ DotS \/ Emit \/ Type \/ Bye
    BY <1>1, <1>2, <1>7
       DEF Question, Exclamation, CExclamation, Dot, DotS, Emit, Type, Bye, Access, Stores,
           Writes, Needs, Typed
  <1> QED BY <1>1, <1>2, <1>3, <1>4, <1>5, <1>6, <1>7 DEF DataWord, Typed

LEMMA InitTyped == MCInit => Typed
  <1> SUFFICES ASSUME MCInit PROVE Typed
    OBVIOUS
  <1>1. mem \in [Address -> Byte] /\ retstack \in [Slot -> Cell]
    BY SmallCells DEF MCInit, WordsInit
  <1>2. /\ stack = <<>> /\ output = <<>> /\ status = "running"
        /\ here = 0 /\ retstacktop = -1
    BY DEF MCInit, WordsInit
  <1>3. /\ <<>> \in Seq(Cell) /\ Len(<<>>) = 0 /\ <<>> \in Seq(Items)
    OBVIOUS
  <1>4. Depth <= StackSize
    BY <1>2, <1>3, SmallCells DEF Depth
  <1>5. status \in Statuses
    BY <1>2 DEF Statuses
  <1> QED BY <1>1, <1>2, <1>3, <1>4, <1>5, SmallCells DEF Typed, WordsTypeOK

LEMMA NextTyped == Typed /\ [MCNext]_mcVars => Typed'
  <1> SUFFICES ASSUME Typed, [MCNext]_mcVars PROVE Typed'
    OBVIOUS
  <1>1. CASE UNCHANGED mcVars
    BY <1>1 DEF mcVars, wordVars, Typed, WordsTypeOK, Depth
  <1>2. ASSUME NEW v \in Literals, Push(v) PROVE Typed'
    <2>1. WordsTypeOK'
      BY <1>2, MCLiteralsAssumption, PushTyped DEF Typed
    <2>2. UNCHANGED retstacktop
      BY <1>2 DEF Push, Replace, Needs, Aborts, Stops
    <2> QED BY <2>1, <2>2 DEF Typed
  <1> QED BY <1>1, <1>2, DataWordKeepsTyped DEF MCNext

\* Whatever sequence of data words is run, for every size of memory and of
\* the stacks: the stacks hold int64 cells and stay within their arrays, the
\* memory holds bytes and here is at most a cell beyond it.  Every access a
\* word makes without being undefined is therefore inside the array.
THEOREM CtilWordsTypes == MCSpec => []WordsTypeOK
  <1>1. Typed => WordsTypeOK
    BY DEF Typed
  <1> QED BY <1>1, InitTyped, NextTyped, PTL DEF MCSpec

-----------------------------------------------------------------------------
(* The bounds of the arrays.                                               *)

\* Only four words, and TYPE, can become undefined, at the end of an array.
LEMMA UndefinedStep ==
    ASSUME Typed, status = "running", NEW w, DataWord(w), status' = "undefined"
    PROVE  \/ w = "TYPE"
           \/ Depth' = StackSize \/ retstacktop' + 1 = StackSize
           \/ here' + CellSize > MemSize
  <1>0. /\ retstacktop \in Int /\ retstacktop >= -1 /\ retstacktop < StackSize
        /\ StackSize \in Nat /\ here \in Int /\ here >= 0 /\ MemSize \in Nat /\ CellSize = 2
    BY SmallCells DEF Typed, WordsTypeOK
  <1> USE DEF Needs, Replace, Push, Writes, Aborts, Dies, Stops
  <1>1. CASE Dup \/ Over
    BY <1>1 DEF Dup, Over, Copies, Undefined, Depth
  <1>2. CASE ToR
    <2>1. retstacktop + 1 \notin Slot /\ retstacktop' = retstacktop
      BY <1>2 DEF ToR, Undefined
    <2> QED BY <1>0, <2>1 DEF Slot
  <1>3. CASE Comma
    <2>1. ~ Holds(here, CellSize) /\ here' = here
      BY <1>3 DEF Comma, Undefined
    <2> QED BY <1>0, <2>1 DEF Holds
  <1>4. CASE w = "TYPE"
    BY <1>4
  <1>5. \/ Dup \/ Over \/ ToR \/ Comma \/ w = "TYPE"
    <2> SUFFICES ASSUME ~ Dup, ~ Over, ~ ToR, ~ Comma, w # "TYPE"
                 PROVE  status' # "undefined"
      OBVIOUS
    <2>1. CASE Clearstack \/ Drop \/ Swap \/ Invert \/ Divmod \/ \E op \in BinopWords : Binop(op)
      BY <2>1 DEF Clearstack, Drop, Swap, Invert, Divmod, Binop
    <2>2. CASE FromR \/ DropR \/ Peek(0, 1) \/ Peek(0, 2) \/ Peek(2, 4) \/ Peek(4, 6)
      BY <2>2 DEF FromR, DropR, Peek
    <2>3. CASE At \/ Question \/ CAt \/ Exclamation \/ CExclamation \/ Here \/ Allot
      BY <2>3 DEF At, Question, CAt, Exclamation, CExclamation, Here, Allot, Access, Stores
    <2>4. CASE Dot \/ DotS \/ Emit \/ Bye
      BY <2>4 DEF Dot, DotS, Emit, Bye
    <2> QED BY <2>1, <2>2, <2>3, <2>4 DEF DataWord
  <1> QED BY <1>1, <1>2, <1>3, <1>4, <1>5

\* The asserts and bounds checks of the data words keep their accesses inside
\* the arrays of state_t, except for a DUP, OVER or >R on a full stack, a comma
\* at the end of memory and a TYPE of what is no string.
THEOREM BoundsSuffice == MCSpec => []UndefinedOnlyAtABound
  <1>1. MCInit => UndefinedOnlyAtABound
    BY DEF MCInit, WordsInit, UndefinedOnlyAtABound
  <1>2. Typed /\ UndefinedOnlyAtABound /\ [MCNext]_mcVars => UndefinedOnlyAtABound'
    <2> SUFFICES ASSUME Typed, UndefinedOnlyAtABound, [MCNext]_mcVars, status' = "undefined"
                 PROVE  UndefinedOnlyAtABound'
      BY DEF UndefinedOnlyAtABound
    <2>1. CASE UNCHANGED mcVars
      BY <2>1 DEF mcVars, wordVars, UndefinedOnlyAtABound, Depth
    <2>2. ASSUME status = "running", NEW v, Push(v) PROVE FALSE
      BY <2>2 DEF Push, Replace, Needs, Aborts, Stops
    <2>3. ASSUME status = "running", NEW w, word' = w, DataWord(w)
          PROVE  UndefinedOnlyAtABound'
      BY <2>3, UndefinedStep DEF UndefinedOnlyAtABound
    <2> QED BY <2>1, <2>2, <2>3 DEF MCNext
  <1> QED BY <1>1, <1>2, InitTyped, NextTyped, PTL DEF MCSpec

-----------------------------------------------------------------------------
(* The words that goforth has as well.                                     *)

\* The return stack, as goforth has it.
ReturnStack == [i \in 1 .. retstacktop + 1 |-> retstack[i - 1]]

LEMMA ReturnStackIs ==
    ASSUME Typed
    PROVE  /\ ReturnStack \in Seq(Cell) /\ Len(ReturnStack) = retstacktop + 1
           /\ \A i \in 1 .. retstacktop + 1 : ReturnStack[i] = retstack[i - 1]
  <1>1. /\ retstacktop \in Int /\ retstacktop >= -1 /\ retstacktop < StackSize
        /\ StackSize \in Nat /\ retstack \in [Slot -> Cell]
    BY SmallCells DEF Typed, WordsTypeOK
  <1>2. \A i \in 1 .. retstacktop + 1 : i - 1 \in Slot
    BY <1>1 DEF Slot
  <1>3. retstacktop + 1 \in Nat
    BY <1>1
  <1> QED BY <1>1, <1>2, <1>3 DEF ReturnStack

\* A word that only touches the stack does in goforth what it does in ctil.
LEMMA ReplaceAgrees ==
    ASSUME NEW n, NEW vals, Replace(n, vals), status' = "running"
    PROVE  /\ Depth >= n /\ stack' = Rest(n) \o vals
           /\ Go!Replace(n, vals)
  <1>1. /\ Depth >= n /\ stack' = Rest(n) \o vals
        /\ UNCHANGED <<mem, here, retstack, retstacktop, output, status>>
    BY DEF Replace, Needs, Aborts, Stops
  <1> QED BY <1>1 DEF Go!Replace, Go!Needs, Go!Depth, Go!Rest, Depth, Rest

LEMMA WritesAgrees ==
    ASSUME NEW n, NEW item, Writes(n, item), status' = "running"
    PROVE  Depth >= n /\ Go!Write(n, item)
  <1>1. /\ Depth >= n /\ stack' = Rest(n) /\ output' = Append(output, item)
        /\ UNCHANGED <<mem, here, retstack, retstacktop, status>>
    BY DEF Writes, Needs, Aborts, Stops
  <1> QED BY <1>1 DEF Go!Write, Go!Depth, Go!Rest, Depth, Rest

LEMMA GoTops == Go!Depth = Depth /\ Go!Top = Top /\ Go!Second = Second
                  /\ \A n : Go!Rest(n) = Rest(n)
  BY DEF Go!Depth, Go!Top, Go!Second, Go!Rest, Depth, Top, Second, Rest

LEMMA PrefixIs ==
    ASSUME NEW S, NEW s \in Seq(S), NEW n \in Nat, n <= Len(s)
    PROVE  /\ SubSeq(s, 1, Len(s) - n) \in Seq(S) /\ Len(SubSeq(s, 1, Len(s) - n)) = Len(s) - n
           /\ \A i \in 1 .. Len(s) - n : SubSeq(s, 1, Len(s) - n)[i] = s[i]
  OBVIOUS

LEMMA GoCells ==
    /\ \A n : Go!Wrap(n) = Wrap(n)
    /\ \A b : Go!Flag(b) = Flag(b)
    /\ \A x, y : Go!Ands(x, y) = Ands(x, y) /\ Go!Ors(x, y) = Ors(x, y)
  <1>1. /\ Go!CellBase = CellBase /\ Go!MinInt = MinInt /\ Go!MaxInt = MaxInt
        /\ Go!Byte = Byte /\ Go!BitIndex = BitIndex
    BY DEF Go!CellBase, CellBase, Go!MinInt, MinInt, Go!MaxInt, MaxInt, Go!Byte, Byte,
           Go!BitIndex, BitIndex
  <1>2. \A n : Go!Wrap(n) = Wrap(n)
    BY <1>1 DEF Go!Wrap, Wrap
  <1>3. \A b : Go!Flag(b) = Flag(b)
    BY DEF Go!Flag, Flag
  <1>4. ASSUME NEW x, NEW y PROVE Go!Ands(x, y) = Ands(x, y) /\ Go!Ors(x, y) = Ors(x, y)
    BY DEF Go!Ands, Ands, Go!Ors, Ors, Go!AndBytes, AndBytes, Go!OrBytes, OrBytes, Go!Bit, Bit,
           Go!ByteOf, ByteOf, Go!FromBytes, FromBytes, Go!Unsigned, Unsigned, Go!Signed, Signed,
           Go!CellBase, CellBase, Go!MaxInt, MaxInt, Go!Byte, Byte, Go!BitIndex, BitIndex
  <1> QED BY <1>2, <1>3, <1>4

\* A copy that is pushed on s, and the values above rest pushed with it.
LEMMA CopyAgain ==
    ASSUME NEW S, NEW s \in Seq(S), NEW n \in Nat, n <= Len(s), NEW v \in S,
           NEW vals \in Seq(S), Len(vals) = n + 1, vals[n + 1] = v,
           \A i \in 1 .. n : vals[i] = s[Len(s) - n + i]
    PROVE  SubSeq(s, 1, Len(s) - 0) \o <<v>> = SubSeq(s, 1, Len(s) - n) \o vals
  <1> DEFINE rest == SubSeq(s, 1, Len(s) - n)
             whole == SubSeq(s, 1, Len(s) - 0)
  <1>1. /\ rest \in Seq(S) /\ Len(rest) = Len(s) - n
        /\ \A i \in 1 .. Len(s) - n : rest[i] = s[i]
    BY PrefixIs
  <1>2. /\ whole \in Seq(S) /\ Len(whole) = Len(s) /\ \A i \in 1 .. Len(s) : whole[i] = s[i]
    <2>1. 0 <= Len(s) /\ Len(s) - 0 = Len(s) /\ Len(s) \in Nat
      OBVIOUS
    <2> QED BY <2>1, PrefixIs
  <1>4. <<v>> \in Seq(S) /\ Len(<<v>>) = 1 /\ <<v>>[1] = v
    OBVIOUS
  <1> DEFINE one == <<v>>
             a == whole \o one
             b == rest \o vals
  <1>5. one \in Seq(S) /\ Len(one) = 1 /\ one[1] = v
    BY <1>4
  <1> HIDE DEF rest, whole, one
  <1>6. /\ a \in Seq(S) /\ Len(a) = Len(s) + 1
        /\ \A i \in 1 .. Len(s) + 1 : a[i] = IF i <= Len(s) THEN whole[i] ELSE one[i - Len(s)]
    <2>1. Len(whole) + Len(one) = Len(s) + 1 /\ Len(whole) = Len(s)
      BY <1>2, <1>5
    <2>2. /\ a \in Seq(S) /\ Len(a) = Len(whole) + Len(one)
          /\ \A i \in 1 .. Len(whole) + Len(one) :
                a[i] = IF i <= Len(whole) THEN whole[i] ELSE one[i - Len(whole)]
      <3>1. whole \in Seq(S) /\ one \in Seq(S)
        BY <1>2, <1>5
      <3> QED BY <3>1, ConcatProperties
    <2> HIDE DEF a
    <2> QED BY <2>1, <2>2
  <1>7. /\ b \in Seq(S) /\ Len(b) = Len(s) + 1
        /\ \A i \in 1 .. Len(s) + 1 : b[i] = IF i <= Len(s) - n THEN rest[i] ELSE vals[i - (Len(s) - n)]
    <2>1. Len(rest) + Len(vals) = Len(s) + 1
      BY <1>1
    <2>2. /\ b \in Seq(S) /\ Len(b) = Len(rest) + Len(vals)
          /\ \A i \in 1 .. Len(rest) + Len(vals) :
                b[i] = IF i <= Len(rest) THEN rest[i] ELSE vals[i - Len(rest)]
      <3>1. rest \in Seq(S)
        BY <1>1
      <3>2. b \in Seq(S) /\ Len(b) = Len(rest) + Len(vals)
        BY <3>1, ConcatIsSeq
      <3>3. ASSUME NEW i \in 1 .. Len(rest) + Len(vals)
            PROVE  b[i] = IF i <= Len(rest) THEN rest[i] ELSE vals[i - Len(rest)]
        BY <3>1, ConcatProperties
      <3> QED BY <3>2, <3>3
    <2> HIDE DEF b
    <2> QED BY <1>1, <2>1, <2>2
  <1> HIDE DEF a, b
  <1>8. ASSUME NEW i \in 1 .. Len(s) + 1 PROVE a[i] = b[i]
    <2>1. CASE i <= Len(s) - n
      <3>1. i <= Len(s) /\ i \in 1 .. Len(s) /\ i \in 1 .. Len(s) - n
        BY <2>1
      <3> QED BY <1>1, <1>2, <1>6, <1>7, <2>1, <3>1
    <2>2. CASE i > Len(s) - n /\ i <= Len(s)
      <3> DEFINE j == i - (Len(s) - n)
      <3>1. j \in 1 .. n /\ Len(s) - n + j = i /\ ~ (i <= Len(s) - n) /\ i \in 1 .. Len(s)
        BY <2>2
      <3>2. a[i] = s[i] /\ b[i] = vals[j]
        BY <1>2, <1>6, <1>7, <2>2, <3>1
      <3> HIDE DEF j
      <3> QED BY <3>1, <3>2
    <2>3. CASE i = Len(s) + 1
      <3>1. i - Len(s) = 1 /\ i - (Len(s) - n) = n + 1 /\ ~ (i <= Len(s)) /\ ~ (i <= Len(s) - n)
        BY <2>3
      <3> QED BY <1>5, <1>6, <1>7, <3>1
    <2>4. Len(s) \in Nat /\ i \in Int /\ i <= Len(s) + 1
      OBVIOUS
    <2>5. i <= Len(s) - n \/ (i > Len(s) - n /\ i <= Len(s)) \/ i = Len(s) + 1
      BY <2>4
    <2> QED BY <2>1, <2>2, <2>3, <2>5
  <1>9. a = b
    BY <1>6, <1>7, <1>8, SeqEqual
  <1> QED BY <1>9 DEF a, b, rest, whole, one

LEMMA StackWordsAgree ==
    ASSUME Typed, status' = "running"
    PROVE  /\ Drop => Go!Drop
           /\ Swap => Go!Swap
           /\ Dup => Go!Dup
           /\ Over => Go!Over
           /\ Clearstack => Go!Clearstack
           /\ Invert => Go!Unop("INVERT")
           /\ \A op \in BinopWords : Binop(op) => Go!Binop(op)
  <1>0. /\ Depth \in Nat /\ stack \in Seq(Cell) /\ Depth = Len(stack)
        /\ Depth >= 1 => Top \in Cell
        /\ Depth >= 2 => Second \in Cell
    BY TopsAreCells DEF Typed, WordsTypeOK, Depth
  <1>1. ASSUME Drop PROVE Go!Drop
    BY <1>1, ReplaceAgrees DEF Drop, Go!Drop
  <1>2. ASSUME Swap PROVE Go!Swap
    BY <1>2, ReplaceAgrees, GoTops DEF Swap, Go!Swap
  <1>3. ASSUME NEW n \in {1, 2}, Copies(n, stack[Depth + 1 - n])
        PROVE  /\ Depth >= n
               /\ stack' = SubSeq(stack, 1, Len(stack) - 0) \o <<stack[Depth + 1 - n]>>
               /\ UNCHANGED <<mem, here, retstack, retstacktop, output, status>>
    <2>1. Depth >= n /\ Push(stack[Depth + 1 - n])
      BY <1>3 DEF Copies, Needs, Aborts, Undefined, Stops
    <2> QED BY <2>1 DEF Push, Replace, Needs, Aborts, Stops, Rest, Depth
  <1>4. ASSUME Dup PROVE Go!Dup
    <2>1. Top = stack[Depth + 1 - 1]
      BY <1>0 DEF Top
    <2>2. /\ Depth >= 1
          /\ stack' = SubSeq(stack, 1, Len(stack) - 0) \o <<Top>>
          /\ UNCHANGED <<mem, here, retstack, retstacktop, output, status>>
      BY <1>3, <1>4, <2>1 DEF Dup
    <2>3. /\ <<Top, Top>> \in Seq(Cell) /\ Len(<<Top, Top>>) = 1 + 1
          /\ <<Top, Top>>[1 + 1] = Top
      BY <1>0, <2>2
    <2>4. \A i \in 1 .. 1 : <<Top, Top>>[i] = stack[Len(stack) - 1 + i]
      BY <1>0, <2>2 DEF Top
    <2>5. stack' = SubSeq(stack, 1, Len(stack) - 1) \o <<Top, Top>>
      BY <1>0, <2>2, <2>3, <2>4, CopyAgain
    <2> QED BY <2>2, <2>5 DEF Go!Dup, Go!Replace, Go!Needs, Go!Depth, Go!Rest, Go!Top, Depth, Top
  <1>5. ASSUME Over PROVE Go!Over
    <2>1. Second = stack[Depth + 1 - 2]
      BY <1>0 DEF Second
    <2>2. /\ Depth >= 2
          /\ stack' = SubSeq(stack, 1, Len(stack) - 0) \o <<Second>>
          /\ UNCHANGED <<mem, here, retstack, retstacktop, output, status>>
      BY <1>3, <1>5, <2>1 DEF Over
    <2>3. /\ <<Second, Top, Second>> \in Seq(Cell) /\ Len(<<Second, Top, Second>>) = 2 + 1
          /\ <<Second, Top, Second>>[2 + 1] = Second
      BY <1>0, <2>2
    <2>4. \A i \in 1 .. 2 : <<Second, Top, Second>>[i] = stack[Len(stack) - 2 + i]
      BY <1>0, <2>2 DEF Top, Second
    <2>5. stack' = SubSeq(stack, 1, Len(stack) - 2) \o <<Second, Top, Second>>
      <3> DEFINE vals == <<Second, Top, Second>>
      <3>1. /\ vals \in Seq(Cell) /\ Len(vals) = 2 + 1 /\ vals[2 + 1] = Second
            /\ \A i \in 1 .. 2 : vals[i] = stack[Len(stack) - 2 + i]
        BY <2>3, <2>4
      <3> HIDE DEF vals
      <3>2. 2 \in Nat /\ 2 <= Len(stack) /\ Second \in Cell
        BY <1>0, <2>2
      <3>3. stack' = SubSeq(stack, 1, Len(stack) - 2) \o vals
        BY <1>0, <2>2, <3>1, <3>2, CopyAgain
      <3> QED BY <3>3 DEF vals
    <2> QED BY <2>2, <2>5 DEF Go!Over, Go!Replace, Go!Needs, Go!Depth, Go!Rest, Go!Top,
                              Go!Second, Depth, Top, Second
  <1>6. ASSUME Clearstack PROVE Go!Clearstack
    BY <1>6, ReplaceAgrees, GoTops DEF Clearstack, Go!Clearstack
  <1>7. ASSUME Invert PROVE Go!Unop("INVERT")
    <2>1. Go!UnopResult("INVERT", Top) = -Top - 1
      BY DEF Go!UnopResult
    <2>2. Go!Replace(1, <<-Top - 1>>)
      BY <1>7, ReplaceAgrees DEF Invert
    <2> QED BY <2>1, <2>2, GoTops DEF Go!Unop
  <1>8. ASSUME NEW op \in BinopWords, Binop(op) PROVE Go!Binop(op)
    <2>1. PICK r \in BinopResults(op, Second, Top) : Depth >= 2 /\ Replace(2, <<r>>)
      BY <1>8 DEF Binop, Needs, Aborts, Stops
    <2>2. Go!Replace(2, <<r>>)
      BY <2>1, ReplaceAgrees
    <2>3. BinopResults(op, Second, Top) = Go!BinopResults(op, Second, Top)
      BY GoCells DEF BinopResults, BinopWords, Go!BinopResults
    <2>4. op \notin {"MOD", "/"}
      BY DEF BinopWords
    <2> QED BY <2>1, <2>2, <2>3, <2>4, GoTops DEF Go!Binop, Go!Needs
  <1> QED BY <1>1, <1>2, <1>4, <1>5, <1>6, <1>7, <1>8

LEMMA ReturnWordsAgree ==
    ASSUME Typed, Typed', status' = "running"
    PROVE  /\ ToR => Go!ToR
           /\ FromR => Go!FromR
           /\ DropR => Go!DropR
           /\ Peek(0, 1) => Go!CopyFromR
  <1> DEFINE R == ReturnStack
  <1>0. /\ R \in Seq(Cell) /\ Len(R) = retstacktop + 1
        /\ \A i \in 1 .. retstacktop + 1 : R[i] = retstack[i - 1]
        /\ R' \in Seq(Cell) /\ Len(R') = retstacktop' + 1
        /\ \A i \in 1 .. retstacktop' + 1 : R'[i] = retstack'[i - 1]
    <2>1. /\ R \in Seq(Cell) /\ Len(R) = retstacktop + 1
          /\ \A i \in 1 .. retstacktop + 1 : R[i] = retstack[i - 1]
      BY ReturnStackIs
    <2>2. Typed => /\ R \in Seq(Cell) /\ Len(R) = retstacktop + 1
                   /\ \A i \in 1 .. retstacktop + 1 : R[i] = retstack[i - 1]
      BY ReturnStackIs
    <2>3. (Typed => /\ R \in Seq(Cell) /\ Len(R) = retstacktop + 1
                    /\ \A i \in 1 .. retstacktop + 1 : R[i] = retstack[i - 1])'
      BY ReturnStackIs, PTL
    <2> QED BY <2>1, <2>3
  <1>1. /\ retstacktop \in Int /\ retstacktop >= -1 /\ retstacktop < StackSize
        /\ retstack \in [Slot -> Cell] /\ Depth \in Nat
        /\ Depth >= 1 => Top \in Cell
    BY TopsAreCells DEF Typed, WordsTypeOK
  <1>2. ASSUME retstacktop >= 0, retstacktop' = retstacktop - 1, UNCHANGED retstack
        PROVE  R # <<>> /\ R' = SubSeq(R, 1, Len(R) - 1)
    <2>1. Len(R) >= 1 /\ Len(R) - 1 = retstacktop /\ Len(R') = retstacktop
      BY <1>0, <1>1, <1>2
    <2> DEFINE rest == SubSeq(R, 1, Len(R) - 1)
    <2>2. rest \in Seq(Cell) /\ Len(rest) = Len(R) - 1 /\ \A i \in 1 .. Len(R) - 1 : rest[i] = R[i]
      <3> HIDE DEF R
      <3> QED BY <1>0, <2>1, PrefixIs
    <2>3. \A i \in 1 .. Len(R') : R'[i] = rest[i]
      <3>1. \A i \in 1 .. retstacktop : i \in 1 .. retstacktop + 1
        BY <1>1
      <3> HIDE DEF R, rest
      <3> QED BY <1>0, <1>1, <1>2, <2>1, <2>2, <3>1
    <2>4. R' = rest
      <3> HIDE DEF R, rest
      <3> QED BY <1>0, <2>1, <2>2, <2>3, SeqEqual
    <2>5. R # <<>>
      <3> HIDE DEF R
      <3> QED BY <2>1
    <2> QED BY <2>4, <2>5
  <1>3. ASSUME ToR PROVE Go!ToR
    <2>1. /\ Depth >= 1 /\ retstacktop + 1 \in Slot
          /\ retstacktop' = retstacktop + 1
          /\ retstack' = [retstack EXCEPT ![retstacktop + 1] = Top]
          /\ stack' = Rest(1)
          /\ UNCHANGED <<mem, here, output, status>>
      BY <1>3 DEF ToR, Needs, Aborts, Undefined, Stops
    <2> DEFINE more == Append(R, Top)
    <2>2. /\ more \in Seq(Cell) /\ Len(more) = Len(R) + 1 /\ more[Len(R) + 1] = Top
          /\ \A i \in 1 .. Len(R) : more[i] = R[i]
      <3> HIDE DEF R
      <3> QED BY <1>0, <1>1, <2>1, AppendProperties
    <2>3. \A i \in 1 .. Len(R') : R'[i] = more[i]
      <3> HIDE DEF R, more
      <3> SUFFICES ASSUME NEW i \in 1 .. retstacktop + 2 PROVE R'[i] = more[i]
        BY <1>0, <1>1, <2>1
      <3>1. R'[i] = retstack'[i - 1] /\ i - 1 \in Slot
        BY <1>0, <1>1, <2>1, SmallCells DEF Slot
      <3>2. CASE i = retstacktop + 2
        BY <1>0, <1>1, <2>1, <2>2, <3>1, <3>2
      <3>3. CASE i \in 1 .. retstacktop + 1
        BY <1>0, <1>1, <2>1, <2>2, <3>1, <3>3
      <3> QED BY <1>1, <3>2, <3>3
    <2>4. R' = more
      <3> HIDE DEF R, more
      <3>1. Len(R') = Len(more)
        BY <1>0, <1>1, <2>1, <2>2
      <3> QED BY <1>0, <2>2, <2>3, <3>1, SeqEqual
    <2> QED BY <2>1, <2>4, GoTops DEF Go!ToR, Go!Needs, ReturnStack
  <1>4. ASSUME FromR PROVE Go!FromR
    <2>1. /\ retstacktop >= 0 /\ stack' = Append(stack, retstack[retstacktop])
          /\ retstacktop' = retstacktop - 1
          /\ UNCHANGED <<mem, here, retstack, output, status>>
      BY <1>4 DEF FromR, Aborts, Stops
    <2>2. R[Len(R)] = retstack[retstacktop]
      <3> HIDE DEF R
      <3> QED BY <1>0, <1>1, <2>1
    <2> QED BY <1>2, <2>1, <2>2 DEF Go!FromR, Go!RTop, Go!RRest, ReturnStack
  <1>5. ASSUME DropR PROVE Go!DropR
    <2>1. /\ retstacktop >= 0 /\ retstacktop' = retstacktop - 1
          /\ UNCHANGED <<mem, here, stack, retstack, output, status>>
      BY <1>5 DEF DropR, Aborts, Stops
    <2> QED BY <1>2, <2>1 DEF Go!DropR, Go!RRest, ReturnStack
  <1>6. ASSUME Peek(0, 1) PROVE Go!CopyFromR
    <2>1. retstacktop >= 0 /\ Push(retstack[retstacktop])
      <3>1. retstacktop >= 1 - 1 /\ Push(retstack[retstacktop - 0])
        BY <1>6 DEF Peek, Aborts, Stops
      <3> QED BY <1>1, <3>1
    <2>2. R[Len(R)] = retstack[retstacktop] /\ R # <<>>
      <3> HIDE DEF R
      <3> QED BY <1>0, <1>1, <2>1
    <2>3. Go!Push(retstack[retstacktop])
      BY <2>1, ReplaceAgrees DEF Push, Go!Push
    <2> QED BY <2>2, <2>3 DEF Go!CopyFromR, Go!RTop, ReturnStack
  <1> QED BY <1>3, <1>4, <1>5, <1>6

LEMMA GoAccess ==
    /\ \A a : Go!CellAt(a) = CellAt(mem, a)
    /\ Go!CellSize = CellSize /\ Go!Address = Address /\ Go!Byte = Byte
  BY DEF Go!CellAt, CellAt, Go!FromBytes, FromBytes, Go!Signed, Signed, Go!CellBase, CellBase,
         Go!MaxInt, MaxInt, Go!CellSize, CellSize, Go!Address, Address, Go!Byte, Byte

\* Two bytes replaced one after the other, and both at once.
LEMMA PutAgrees ==
    ASSUME Typed, NEW a \in Int, NEW v, Holds(a, CellSize), mem' = PutCell(mem, a, v)
    PROVE  Go!PutCell(a, v)
  <1>1. a \in Address /\ a + 1 \in Address /\ CellSize = 2
    BY SmallCells DEF Holds, Address
  <1>2. mem \in [Address -> Byte]
    BY DEF Typed, WordsTypeOK
  <1>3. Go!ByteOf(v, 0) = ByteOf(v, 0) /\ Go!ByteOf(v, 1) = ByteOf(v, 1)
    BY DEF Go!ByteOf, ByteOf, Go!Unsigned, Unsigned, Go!CellBase, CellBase
  <1>4. mem' = [b \in Address |-> IF b \in a .. a + 1 THEN Go!ByteOf(v, b - a) ELSE mem[b]]
    <2>1. mem' = [b \in Address |-> IF b = a + 1 THEN ByteOf(v, 1)
                                    ELSE IF b = a THEN ByteOf(v, 0) ELSE mem[b]]
      BY <1>1, <1>2 DEF PutCell
    <2>2. ASSUME NEW b \in Address
          PROVE  (IF b \in a .. a + 1 THEN Go!ByteOf(v, b - a) ELSE mem[b])
                   = IF b = a + 1 THEN ByteOf(v, 1) ELSE IF b = a THEN ByteOf(v, 0) ELSE mem[b]
      <3>1. b \in Int
        BY SmallCells DEF Address
      <3>2. CASE b = a
        <4>1. b - a = 0 /\ b \in a .. a + 1 /\ b # a + 1
          BY <3>2
        <4> QED BY <1>3, <3>2, <4>1
      <3>3. CASE b = a + 1
        <4>1. b - a = 1 /\ b \in a .. a + 1
          BY <3>3
        <4> QED BY <1>3, <3>3, <4>1
      <3>4. CASE b # a /\ b # a + 1
        BY <3>1, <3>4
      <3> QED BY <3>2, <3>3, <3>4
    <2> QED BY <2>1, <2>2
  <1>5. a + CellSize - 1 = a + 1
    BY <1>1
  <1> QED BY <1>4, <1>5, GoAccess DEF Go!PutCell

LEMMA MemoryWordsAgree ==
    ASSUME Typed, status' = "running"
    PROVE  /\ At /\ Top < here => Go!At
           /\ Question /\ Top < here => Go!Question
           /\ CAt /\ Top < here /\ ~ (mem[Top] > ByteBase \div 2 - 1) => Go!CAt
           /\ Exclamation /\ Top < here => Go!Exclamation
           /\ CExclamation /\ Top < here => Go!CExclamation
           /\ Here => Go!Here
           /\ Comma => Go!Comma
           /\ Allot /\ Top >= 0 => Go!Allot
  <1>0. /\ mem \in [Address -> Byte] /\ here \in Int /\ here >= 0 /\ Depth \in Nat
        /\ Depth >= 1 => Top \in Cell /\ Top \in Int
        /\ MemSize \in Nat /\ CellSize = 2
    BY TopsAreCells, SmallCells DEF Typed, WordsTypeOK
  <1>1. ASSUME Depth >= 1, CellInBounds(Top), Top < here
        PROVE  Top \in 0 .. here - 1 /\ Top + CellSize <= MemSize /\ Holds(Top, CellSize)
    BY <1>0, <1>1 DEF CellInBounds, Holds
  <1>2. ASSUME Depth >= 1, Top \in Address, Top < here
        PROVE  Top \in 0 .. here - 1 /\ Top + 1 <= MemSize
    BY <1>0, <1>2 DEF Address
  <1> USE GoTops, GoAccess DEF Go!Access, Go!Needs
  <1>3. ASSUME At, Top < here PROVE Go!At
    <2>1. Depth >= 1 /\ CellInBounds(Top) /\ Replace(1, <<CellAt(mem, Top)>>)
      BY <1>3 DEF At, Access, Needs, Aborts, Dies, Stops
    <2>2. Go!Replace(1, <<CellAt(mem, Top)>>)
      BY <2>1, ReplaceAgrees
    <2> QED BY <1>1, <1>3, <2>1, <2>2 DEF Go!At
  <1>4. ASSUME Question, Top < here PROVE Go!Question
    <2>1. Depth >= 1 /\ CellInBounds(Top) /\ Writes(1, <<"num", CellAt(mem, Top)>>)
      BY <1>4 DEF Question, Access, Needs, Aborts, Dies, Stops
    <2>2. Go!Write(1, <<"num", CellAt(mem, Top)>>)
      BY <2>1, WritesAgrees
    <2> QED BY <1>1, <1>4, <2>1, <2>2 DEF Go!Question
  <1>5. ASSUME CAt, Top < here, ~ (mem[Top] > ByteBase \div 2 - 1) PROVE Go!CAt
    <2>1. Depth >= 1 /\ Top \in Address /\ Replace(1, <<SignedByte(mem[Top])>>)
      BY <1>5 DEF CAt, Access, Needs, Aborts, Dies, Stops
    <2>2. SignedByte(mem[Top]) = mem[Top]
      <3>1. mem[Top] \in Int /\ ByteBase \div 2 \in Int
        BY <1>0, <2>1, SmallCells DEF Byte
      <3> QED BY <1>5, <3>1 DEF SignedByte
    <2>3. Go!Replace(1, <<mem[Top]>>)
      BY <2>1, <2>2, ReplaceAgrees
    <2> QED BY <1>2, <1>5, <2>1, <2>3 DEF Go!CAt
  <1>6. ASSUME Exclamation, Top < here PROVE Go!Exclamation
    <2>1. /\ Depth >= 2 /\ CellInBounds(Top) /\ mem' = PutCell(mem, Top, Second)
          /\ stack' = Rest(2) /\ UNCHANGED <<here, retstack, retstacktop, output, status>>
      BY <1>6 DEF Exclamation, Access, Stores, Needs, Aborts, Dies, Stops
    <2>2. Depth >= 1 /\ Top \in Int
      BY <1>0, <2>1
    <2>3. Go!PutCell(Top, Second)
      BY <1>1, <1>6, <2>1, <2>2, PutAgrees
    <2> QED BY <1>1, <1>6, <2>1, <2>2, <2>3 DEF Go!Exclamation, Go!Stores
  <1>7. ASSUME CExclamation, Top < here PROVE Go!CExclamation
    <2>1. /\ Depth >= 2 /\ Top \in Address /\ mem' = [mem EXCEPT ![Top] = Second % ByteBase]
          /\ stack' = Rest(2) /\ UNCHANGED <<here, retstack, retstacktop, output, status>>
      BY <1>7 DEF CExclamation, Access, Stores, Needs, Aborts, Dies, Stops
    <2>2. Depth >= 1
      BY <1>0, <2>1
    <2> QED BY <1>2, <1>7, <2>1, <2>2 DEF Go!CExclamation
  <1>8. ASSUME Here PROVE Go!Here
    BY <1>8, ReplaceAgrees DEF Here, Push, Go!Here, Go!Push
  <1>9. ASSUME Comma PROVE Go!Comma
    <2>1. /\ Depth >= 1 /\ Holds(here, CellSize)
          /\ mem' = PutCell(mem, here, Top) /\ here' = here + CellSize /\ stack' = Rest(1)
          /\ UNCHANGED <<retstack, retstacktop, output, status>>
      BY <1>9 DEF Comma, Needs, Aborts, Undefined, Stops
    <2>2. Go!PutCell(here, Top)
      BY <1>0, <2>1, PutAgrees
    <2>3. Wrap(here + CellSize) = here + CellSize
      <3> DEFINE sum == here + CellSize
      <3>1. /\ sum \in Int /\ sum >= MinInt /\ sum <= MaxInt /\ MaxInt \in Int
            /\ CellBase \in Int /\ CellBase >= 0
        <4>1. PICK h \in Nat : CellBase = 2 * h
          BY CellRange
        <4> QED BY <1>0, <2>1, <4>1, SmallCells DEF Holds
      <3>2. sum <= MaxInt + CellBase
        BY <3>1
      <3> HIDE DEF sum
      <3>3. Wrap(sum) = sum
        BY <3>1, <3>2, WrapOnce
      <3> QED BY <3>3 DEF sum
    <2>4. here \in Address /\ here + CellSize <= MemSize
      BY <1>0, <2>1 DEF Holds, Address
    <2> QED BY <2>1, <2>2, <2>3, <2>4, GoCells DEF Go!Comma
  <1>10. ASSUME Allot, Top >= 0 PROVE Go!Allot
    <2>1. /\ Depth >= 1 /\ Wrap(here + Top) \in 0 .. MemSize
          /\ here' = Wrap(here + Top) /\ stack' = Rest(1)
          /\ UNCHANGED <<mem, retstack, retstacktop, output, status>>
      BY <1>10 DEF Allot, Needs, Aborts, Dies, Stops
    <2>2. Wrap(here + Top) <= MemSize
      BY <1>0, <2>1
    <2> QED BY <1>10, <2>1, <2>2, GoCells DEF Go!Allot
  <1> QED BY <1>3, <1>4, <1>5, <1>6, <1>7, <1>8, <1>9, <1>10

LEMMA OutputWordsAgree ==
    ASSUME Typed, status' = "running"
    PROVE  /\ Dot => Go!Dot
           /\ DotS => Go!DotS
           /\ Emit /\ Top \in Byte => Go!Emit
  <1>1. ASSUME Dot PROVE Go!Dot
    BY <1>1, WritesAgrees, GoTops DEF Dot, Go!Dot, Go!Needs
  <1>2. ASSUME DotS PROVE Go!DotS
    BY <1>2, WritesAgrees DEF DotS, Go!DotS
  <1>3. ASSUME Emit, Top \in Byte PROVE Go!Emit
    <2>1. Top % ByteBase = Top
      BY <1>3, SmallCells DEF Byte
    <2> QED BY <1>3, <2>1, WritesAgrees, GoTops, GoAccess DEF Emit, Go!Emit, Go!Needs
  <1> QED BY <1>1, <1>2, <1>3

LEMMA SharedWordAgrees ==
    ASSUME Typed, Typed', NEW w \in Go!DataWords, DataWord(w), status' = "running", ~ Differ(w)
    PROVE  Go!DataWord(w)
  <1>0. w \notin {"TYPE", "/MOD", "I", "J", "K"}
    BY DEF Go!DataWords, Go!PlainWords, Go!UnopWords, Go!BinopWords
  <1>1. CASE w \in BinopWords /\ Binop(w)
    <2>1. w \in Go!BinopWords
      BY <1>1 DEF BinopWords, Go!BinopWords
    <2> QED BY <1>1, <2>1, StackWordsAgree DEF Go!DataWord
  <1> USE DEF Go!DataWord, Go!PlainWord
  <1>2. CASE \/ (w = "DROP" /\ Drop) \/ (w = "SWAP" /\ Swap) \/ (w = "DUP" /\ Dup)
             \/ (w = "OVER" /\ Over) \/ (w = "CLEARSTACK" /\ Clearstack)
    BY <1>2, StackWordsAgree
  <1>3. CASE w = "INVERT" /\ Invert
    BY <1>3, StackWordsAgree DEF Go!UnopWords
  <1>4. CASE \/ (w = ">R" /\ ToR) \/ (w = "R>" /\ FromR) \/ (w = "RDROP" /\ DropR)
             \/ (w = "R@" /\ Peek(0, 1))
    BY <1>4, ReturnWordsAgree
  <1>5. CASE \/ (w = "@" /\ At) \/ (w = "?" /\ Question) \/ (w = "C@" /\ CAt)
             \/ (w = "!" /\ Exclamation) \/ (w = "C!" /\ CExclamation)
             \/ (w = "ALLOT" /\ Allot)
    <2>1. Depth >= 1
      <3>1. Depth \in Nat
        BY TopsAreCells DEF Typed
      <3> QED BY <1>5, <3>1 DEF At, Question, CAt, Exclamation, CExclamation, Allot, Access,
                                Needs, Aborts, Stops
    <2>2. Top \in Int /\ here \in Int
      BY <2>1, TopsAreCells, SmallCells DEF Typed, WordsTypeOK
    <2>3. /\ w \in {"@", "?", "C@", "!", "C!"} => Top < here
          /\ w = "C@" => ~ (mem[Top] > ByteBase \div 2 - 1)
          /\ w = "ALLOT" => Top >= 0
      BY <2>2 DEF Differ
    <2> QED BY <1>5, <2>3, MemoryWordsAgree
  <1>6. CASE (w = "HERE" /\ Here) \/ (w = "," /\ Comma)
    BY <1>6, MemoryWordsAgree
  <1>7. CASE (w = "." /\ Dot) \/ (w = ".S" /\ DotS) \/ (w = "EMIT" /\ Emit)
    BY <1>7, OutputWordsAgree DEF Differ
  <1>8. CASE w = "BYE" /\ Bye
    BY <1>8 DEF Bye, Stops
  <1> HIDE DEF Go!DataWord, Go!PlainWord
  <1> QED BY <1>0, <1>1, <1>2, <1>3, <1>4, <1>5, <1>6, <1>7, <1>8 DEF DataWord

\* Whatever the sizes of memory and of the stacks and however wide a byte is,
\* a data word that both systems have does in ctil what it does in goforth, in
\* every state a program can reach, whenever ctil goes on after it; apart from
\* the four differences that Differ lists.
THEOREM CtilAgrees == MCSpec => SharedWordsAgree
  <1>1. Typed /\ Typed' /\ [MCNext]_mcVars =>
          [(word' \in Go!DataWords /\ status' = "running" /\ ~ Differ(word'))
              => Go!DataWord(word')]_mcVars
    <2> SUFFICES ASSUME Typed, Typed', MCNext, word' \in Go!DataWords, status' = "running",
                        ~ Differ(word')
                 PROVE  Go!DataWord(word')
      OBVIOUS
    <2>1. word' # ""
      BY DEF Go!DataWords, Go!PlainWords, Go!UnopWords, Go!BinopWords
    <2>2. PICK w \in DataWords : word' = w /\ DataWord(w)
      BY <2>1 DEF MCNext
    <2>3. w \in Go!DataWords /\ ~ Differ(w)
      BY <2>2
    <2>4. Go!DataWord(w)
      BY <2>2, <2>3, SharedWordAgrees
    <2> QED BY <2>2, <2>4
  <1> QED BY <1>1, InitTyped, NextTyped, PTL DEF MCSpec, SharedWordsAgree
=============================================================================
