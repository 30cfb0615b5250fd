--------------------------- MODULE GoInputProofs ---------------------------
(***************************************************************************)
(* The loops of goforth on characters move among the words of GoReading,   *)
(* for every text.                                                         *)
(*                                                                         *)
(* A position in the characters is one in the words by counting the words  *)
(* that begin before it.  The proof is about this count: it grows by one   *)
(* where a word begins and nowhere else, so that the words are numbered by *)
(* it.                                                                     *)
(***************************************************************************)
EXTENDS GoInputMC, FiniteSetTheorems, WellFoundedInduction, SequenceTheorems, TLAPS

-----------------------------------------------------------------------------
(* Numbers.                                                                *)

\* Every set of natural numbers that is not empty has a least element.
LEMMA LeastExists ==
    ASSUME NEW S \in SUBSET Nat, S # {}
    PROVE  \E q \in S : \A r \in S : q <= r
  <1> DEFINE Below == OpToRel(<, Nat)
  <1>1. \A x, y \in Nat : <<x, y>> \in Below <=> x < y
    BY DEF OpToRel
  <1>2. PICK q \in S : \A r \in S : ~ (<<r, q>> \in Below)
    <2> HIDE DEF Below
    <2>1. IsWellFoundedOn(Below, Nat)
      BY NatLessThanWellFounded DEF Below
    <2> QED BY <2>1, WFMin
  <1> HIDE DEF Below
  <1>3. \A r \in S : q <= r
    <2> TAKE r \in S
    <2>1. q \in Nat /\ r \in Nat /\ ~ (r < q)
      BY <1>1, <1>2
    <2> QED BY <2>1
  <1> QED BY <1>3

-----------------------------------------------------------------------------
(* The number of words that begin before a position.                       *)

LEMMA StartsAre ==
    ASSUME NEW T, NEW s \in Seq(T)
    PROVE  /\ Len(s) \in Nat /\ DOMAIN s = 1 .. Len(s)
           /\ Starts(s) \in SUBSET (1 .. Len(s))
  BY DEF Starts

LEMMA CountIs ==
    ASSUME NEW T, NEW s \in Seq(T), NEW p \in Nat
    PROVE  /\ IsFiniteSet({q \in Starts(s) : q <= p})
           /\ Count(s, p) \in Nat
  <1>1. {q \in Starts(s) : q <= p} \in SUBSET (1 .. Len(s)) /\ Len(s) \in Nat
    BY StartsAre
  <1>2. IsFiniteSet(1 .. Len(s))
    BY <1>1, FS_Interval
  <1>3. IsFiniteSet({q \in Starts(s) : q <= p})
    BY <1>1, <1>2, FS_Subset
  <1> QED BY <1>3, FS_CardinalityType DEF Count

\* No word begins in between.
LEMMA CountStays ==
    ASSUME NEW T, NEW s \in Seq(T), NEW p \in Nat, NEW r \in Nat, p <= r,
           \A q \in p + 1 .. r : q \notin Starts(s)
    PROVE  Count(s, r) = Count(s, p)
  <1>1. {q \in Starts(s) : q <= r} = {q \in Starts(s) : q <= p}
    BY StartsAre
  <1> QED BY <1>1 DEF Count

\* Just one does.
LEMMA CountGrows ==
    ASSUME NEW T, NEW s \in Seq(T), NEW p \in Nat, NEW r \in Nat,
           NEW q \in Starts(s), q \in p + 1 .. r,
           \A i \in p + 1 .. r : i \in Starts(s) => i = q
    PROVE  Count(s, r) = Count(s, p) + 1
  <1>1. {i \in Starts(s) : i <= r} = {i \in Starts(s) : i <= p} \cup {q}
    BY StartsAre
  <1>2. q \notin {i \in Starts(s) : i <= p}
    BY StartsAre
  <1>3. IsFiniteSet({i \in Starts(s) : i <= p})
    BY CountIs
  <1> QED BY <1>1, <1>2, <1>3, FS_AddElement DEF Count

LEMMA CountIsMonotone ==
    ASSUME NEW T, NEW s \in Seq(T), NEW p \in Nat, NEW r \in Nat, p <= r
    PROVE  Count(s, p) <= Count(s, r)
  <1>1. {q \in Starts(s) : q <= p} \in SUBSET {q \in Starts(s) : q <= r}
    BY StartsAre
  <1>2. IsFiniteSet({q \in Starts(s) : q <= r})
    BY CountIs
  <1> QED BY <1>1, <1>2, FS_Subset DEF Count

LEMMA CountIncreases ==
    ASSUME NEW T, NEW s \in Seq(T), NEW p \in Nat, NEW q \in Starts(s), p < q
    PROVE  Count(s, p) < Count(s, q)
  <1>1. q \in Nat /\ q - 1 \in Nat /\ p <= q - 1 /\ q \in (q - 1) + 1 .. q
    BY StartsAre
  <1>2. \A i \in (q - 1) + 1 .. q : i = q
    BY <1>1
  <1>3. Count(s, q) = Count(s, q - 1) + 1
    BY <1>1, <1>2, CountGrows
  <1>4. Count(s, p) <= Count(s, q - 1) /\ Count(s, p) \in Nat /\ Count(s, q - 1) \in Nat
    BY <1>1, CountIsMonotone, CountIs
  <1> QED BY <1>3, <1>4

LEMMA CountFromZero ==
    ASSUME NEW T, NEW s \in Seq(T)
    PROVE  Count(s, 0) = 0
  <1>1. {q \in Starts(s) : q <= 0} = {}
    BY StartsAre
  <1> QED BY <1>1, FS_EmptySet DEF Count

\* The i-th word begins somewhere.
LEMMA EachWordStarts ==
    ASSUME NEW T, NEW s \in Seq(T), NEW i \in 1 .. Count(s, Len(s))
    PROVE  \E q \in Starts(s) : Count(s, q) = i
  <1> DEFINE S == {n \in Nat : i <= Count(s, n)}
  <1>0. Len(s) \in Nat /\ Count(s, Len(s)) \in Nat /\ i \in Nat /\ i > 0
    <2>1. Len(s) \in Nat
      OBVIOUS
    <2>2. Count(s, Len(s)) \in Nat
      BY <2>1, CountIs
    <2> QED BY <2>1, <2>2
  <1>1. PICK n \in S : \A m \in S : n <= m
    <2>1. Len(s) \in S /\ S \in SUBSET Nat
      BY <1>0
    <2> QED BY <2>1, LeastExists
  <1>2. n # 0
    BY <1>0, <1>1, CountFromZero
  <1>3. n - 1 \in Nat /\ n - 1 \notin S
    BY <1>1, <1>2
  <1>4. Count(s, n) \in Nat /\ Count(s, n - 1) \in Nat
    BY <1>1, <1>3, CountIs
  <1>5. Count(s, n - 1) < i /\ i <= Count(s, n)
    BY <1>0, <1>1, <1>3, <1>4
  <1>6. n \in Starts(s)
    <2> SUFFICES ASSUME n \notin Starts(s) PROVE FALSE
      OBVIOUS
    <2>1. \A q \in (n - 1) + 1 .. n : q \notin Starts(s)
      BY <1>3
    <2>2. Count(s, n) = Count(s, n - 1)
      BY <1>3, <2>1, CountStays
    <2> QED BY <1>4, <1>5, <2>2
  <1>7. Count(s, n) = Count(s, n - 1) + 1
    <2>1. n \in (n - 1) + 1 .. n /\ \A q \in (n - 1) + 1 .. n : q = n
      BY <1>3
    <2> QED BY <1>3, <1>6, <2>1, CountGrows
  <1> QED BY <1>4, <1>5, <1>6, <1>7

LEMMA OneStart ==
    ASSUME NEW T, NEW s \in Seq(T), NEW q \in Starts(s), NEW r \in Starts(s),
           Count(s, q) = Count(s, r)
    PROVE  q = r
  <1>1. q \in Nat /\ r \in Nat
    BY StartsAre
  <1>2. Count(s, q) \in Nat /\ Count(s, r) \in Nat
    BY <1>1, CountIs
  <1> QED BY <1>1, <1>2, CountIncreases

\* The words, each numbered by the count at its start.
LEMMA WordsAre ==
    ASSUME NEW T, NEW s \in Seq(T)
    PROVE  /\ Count(s, Len(s)) \in Nat
           /\ Words(s) \in Seq({Kind(s[q]) : q \in Starts(s)})
           /\ Len(Words(s)) = Count(s, Len(s))
           /\ \A q \in Starts(s) : /\ Count(s, q) \in 1 .. Len(Words(s))
                                  /\ Words(s)[Count(s, q)] = Kind(s[q])
           /\ \A i \in 1 .. Len(Words(s)) : \E q \in Starts(s) : Count(s, q) = i
  <1>1. Len(s) \in Nat /\ Count(s, Len(s)) \in Nat
    BY StartsAre, CountIs
  <1>2. \A i \in 1 .. Count(s, Len(s)) : \E q \in Starts(s) : Count(s, q) = i
    BY EachWordStarts
  <1>3. \A q \in Starts(s) : Count(s, q) \in 1 .. Count(s, Len(s))
    <2> TAKE q \in Starts(s)
    <2>1. q \in Nat /\ q <= Len(s) /\ 0 < q
      BY StartsAre
    <2>2. Count(s, q) <= Count(s, Len(s)) /\ Count(s, 0) < Count(s, q) /\ Count(s, q) \in Nat
      BY <1>1, <2>1, CountIsMonotone, CountIncreases, CountIs
    <2> QED BY <1>1, <2>2, CountFromZero
  <1>4. ASSUME NEW q \in Starts(s)
        PROVE  (CHOOSE r \in Starts(s) : Count(s, r) = Count(s, q)) = q
    BY OneStart
  <1>5. \A i \in 1 .. Count(s, Len(s)) : Words(s)[i] \in {Kind(s[q]) : q \in Starts(s)}
    BY <1>2 DEF Words
  <1>6. Words(s) \in Seq({Kind(s[q]) : q \in Starts(s)}) /\ Len(Words(s)) = Count(s, Len(s))
    <2>1. Words(s) \in [1 .. Count(s, Len(s)) -> {Kind(s[q]) : q \in Starts(s)}]
      BY <1>5 DEF Words
    <2> QED BY <1>1, <2>1
  <1>7. \A q \in Starts(s) : Words(s)[Count(s, q)] = Kind(s[q])
    BY <1>3, <1>4 DEF Words
  <1> QED BY <1>1, <1>2, <1>3, <1>6, <1>7

\* The words with a number between those of two positions begin between them.
LEMMA Between ==
    ASSUME NEW T, NEW s \in Seq(T), NEW p \in 0 .. Len(s), NEW r \in 0 .. Len(s),
           NEW i \in Count(s, p) + 1 .. Count(s, r)
    PROVE  \E q \in Starts(s) : q \in p + 1 .. r /\ Count(s, q) = i /\ Words(s)[i] = Kind(s[q])
  <1>0. Len(s) \in Nat /\ p \in Nat /\ r \in Nat /\ r <= Len(s)
    OBVIOUS
  <1>1. /\ Count(s, p) \in Nat /\ Count(s, r) \in Nat /\ Count(s, Len(s)) \in Nat
        /\ Count(s, r) <= Count(s, Len(s)) /\ p \in Nat /\ r \in Nat
    BY <1>0, CountIs, CountIsMonotone
  <1>2. PICK q \in Starts(s) : Count(s, q) = i
    BY <1>1, EachWordStarts
  <1>3. q \in Nat /\ q <= Len(s)
    BY StartsAre
  <1>4. ~ (q <= p)
    <2>1. q <= p => Count(s, q) <= Count(s, p)
      BY <1>1, <1>3, CountIsMonotone
    <2> QED BY <1>1, <1>2, <2>1
  <1>5. ~ (r < q)
    <2>1. r < q => Count(s, r) < Count(s, q)
      BY <1>1, <1>3, CountIncreases
    <2> QED BY <1>1, <1>2, <2>1
  <1>6. Words(s)[i] = Kind(s[q])
    BY <1>2, WordsAre
  <1> QED BY <1>1, <1>2, <1>3, <1>4, <1>5, <1>6

\* The words that begin in white space are line ends.
LEMMA WhiteWords ==
    ASSUME NEW T, NEW s \in Seq(T), NEW p \in 0 .. Len(s), NEW r \in 0 .. Len(s),
           \A i \in p + 1 .. r : s[i] \in Whitespace
    PROVE  \A i \in Count(s, p) + 1 .. Count(s, r) : Words(s)[i] = Go!NL
  <1> TAKE i \in Count(s, p) + 1 .. Count(s, r)
  <1>1. PICK q \in Starts(s) : q \in p + 1 .. r /\ Words(s)[i] = Kind(s[q])
    BY Between
  <1>2. s[q] \in Single /\ s[q] \in Whitespace
    BY <1>1 DEF Starts
  <1> QED BY <1>1, <1>2 DEF Kind, Single, Whitespace, Go!NL

\* Characters that are not white space, with nothing in front of them that belongs
\* to the same word, and no closing characters among them, are one word.
LEMMA OneWord ==
    ASSUME NEW T, NEW s \in Seq(T), NEW a \in 0 .. Len(s), NEW b \in 0 .. Len(s), a < b,
           a = 0 \/ s[a] \in Whitespace \cup Single,
           \A i \in a + 1 .. b : s[i] \notin Whitespace,
           b = a + 1 \/ \A i \in a + 1 .. b : s[i] \notin Single \ Whitespace
    PROVE  /\ a + 1 \in Starts(s) /\ Count(s, b) = Count(s, a) + 1
           /\ Count(s, a + 1) = Count(s, a) + 1
           /\ Words(s)[Count(s, a) + 1] # Go!NL
  <1>1. /\ a \in Nat /\ b \in Nat /\ a + 1 \in Nat /\ a + 1 \in 1 .. Len(s)
        /\ a + 1 \in a + 1 .. b /\ a + 1 \in a + 1 .. a + 1
    OBVIOUS
  <1>2. s[a + 1] \notin Whitespace /\ a + 1 \in DOMAIN s
    BY <1>1
  <1>3. a + 1 \in Starts(s)
    BY <1>1, <1>2 DEF Starts
  <1>4. \A i \in a + 1 .. b : i \in Starts(s) => i = a + 1
    <2> SUFFICES ASSUME NEW i \in a + 2 .. b PROVE i \notin Starts(s)
      BY <1>1
    <2>1. b # a + 1 /\ i \in a + 1 .. b /\ i - 1 \in a + 1 .. b
      BY <1>1
    <2>2. s[i] \notin Whitespace \cup Single /\ s[i - 1] \notin Whitespace \cup Single
      BY <2>1
    <2> QED BY <2>1, <2>2 DEF Starts
  <1>5. Count(s, b) = Count(s, a) + 1
    BY <1>1, <1>3, <1>4, CountGrows
  <1>6. Count(s, a + 1) = Count(s, a) + 1
    <2>1. \A i \in a + 1 .. a + 1 : i = a + 1
      BY <1>1
    <2> QED BY <1>1, <1>3, <2>1, CountGrows
  <1>7. Words(s)[Count(s, a) + 1] = Kind(s[a + 1])
    BY <1>3, <1>6, WordsAre
  <1>8. Kind(s[a + 1]) # Go!NL
    BY <1>2 DEF Kind, Whitespace, Go!NL
  <1> QED BY <1>3, <1>5, <1>6, <1>7, <1>8

-----------------------------------------------------------------------------
(* What is known while a function reads.                                   *)

White(p, r)  == \A i \in p + 1 .. r : input[i] \in Whitespace
Black(p, r)  == \A i \in p + 1 .. r : input[i] \notin Whitespace

\* No word goes across position p, but for the last of a text that was passed.
Stands(p) == \/ p = 0 \/ p = Len(input)
             \/ input[p] \in Whitespace \cup Single
             \/ input[p + 1] \in Whitespace

\* A word of nextWord ends at p.
EndsWord(p) == /\ p \in 1 .. Len(input) /\ input[p] \notin Whitespace
               /\ p = Len(input) \/ input[p + 1] \in Whitespace

\* nextWord has passed over white space, and over the word from start on.
ReadsWord ==
    /\ Stands(called) /\ called <= inputPtr
    /\ start = -1 => White(called, inputPtr)
    /\ start # -1 => /\ start \in called .. inputPtr /\ White(called, start)
                     /\ Black(start, inputPtr)
                     /\ start < Len(input) /\ input[start + 1] \notin Whitespace

\* rewindWord has gone back over the word, in front of which nothing is white.
RewindsWord ==
    /\ EndsWord(called) /\ word = <<>>
    /\ start = -1 => inputPtr = called
    /\ start # -1 => start = called /\ inputPtr <= called /\ Black(inputPtr, called)

InputInv ==
    /\ input \in Texts /\ inputPtr \in 0 .. Len(input) /\ called \in 0 .. Len(input)
    /\ stdout \in Seq(DOMAIN Upper)
    /\ function \in NextWords \cup {"none", "rewindWord"}
    /\ function = "none" /\ status = "running" => Stands(inputPtr)
    /\ function = "none" /\ word # <<>> => EndsWord(inputPtr)
    /\ function \in NextWords => ReadsWord
    /\ function = "rewindWord" => RewindsWord

LEMMA InputIs ==
    ASSUME InputInv
    PROVE  /\ input \in Seq(DOMAIN Upper) /\ Len(input) \in Nat
           /\ inputPtr \in Nat /\ called \in Nat
  <1>1. input \in Seq(DOMAIN Upper)
    BY GoInputAssumption DEF InputInv
  <1>2. Len(input) \in Nat
    BY <1>1
  <1> QED BY <1>1, <1>2 DEF InputInv

LEMMA InitHolds == Init => InputInv
  <1> SUFFICES ASSUME Init PROVE InputInv
    OBVIOUS
  <1>1. input \in Seq(DOMAIN Upper)
    BY GoInputAssumption DEF Init
  <1>2. Len(input) \in Nat
    BY <1>1
  <1> QED BY <1>2 DEF Init, InputInv, Stands, NextWords

LEMMA CallsKeeps == ASSUME InputInv, NEW f \in NextWords, Calls(f) PROVE InputInv'
  <1>1. inputPtr \in 0 .. Len(input) /\ Stands(inputPtr)
    BY DEF Calls, InputInv
  <1>2. /\ UNCHANGED <<input, inputPtr, stdout>> /\ called' = inputPtr /\ start' = -1
        /\ function' \in NextWords
    BY DEF Calls, kept
  <1>3. ReadsWord'
    BY <1>1, <1>2 DEF ReadsWord, Stands, White
  <1>4. function' # "none" /\ function' # "rewindWord"
    BY <1>2 DEF NextWords
  <1> QED BY <1>1, <1>2, <1>3, <1>4 DEF InputInv

LEMMA SkipsKeeps == ASSUME InputInv, SkipWhitespace PROVE InputInv'
  <1>1. /\ UNCHANGED <<input, stdout, function, called, start>> /\ inputPtr' = inputPtr + 1
        /\ function \in NextWords /\ start = -1 /\ inputPtr < Len(input)
        /\ input[inputPtr + 1] \in Whitespace
    BY InputIs DEF SkipWhitespace, kept, EndOfInput, IsWhite
  <1>2. ReadsWord'
    <2>1. ReadsWord
      BY <1>1 DEF InputInv
    <2> QED BY <1>1, <2>1, InputIs DEF ReadsWord, Stands, White
  <1>3. function' # "none" /\ function' # "rewindWord"
    BY <1>1 DEF NextWords
  <1> QED BY <1>1, <1>2, <1>3, InputIs DEF InputInv

LEMMA StartsKeeps == ASSUME InputInv, StartsWord PROVE InputInv'
  <1>1. /\ UNCHANGED <<input, inputPtr, stdout, function, called>> /\ start' = inputPtr
        /\ function \in NextWords /\ start = -1 /\ inputPtr < Len(input)
        /\ input[inputPtr + 1] \notin Whitespace
    BY InputIs DEF StartsWord, kept, EndOfInput, IsWhite
  <1>2. ReadsWord'
    <2>1. ReadsWord
      BY <1>1 DEF InputInv
    <2> QED BY <1>1, <2>1, InputIs DEF ReadsWord, Stands, White, Black
  <1>3. function' # "none" /\ function' # "rewindWord"
    BY <1>1 DEF NextWords
  <1> QED BY <1>1, <1>2, <1>3, InputIs DEF InputInv

LEMMA ReadsKeeps == ASSUME InputInv, ReadsCharacter PROVE InputInv'
  <1>1. /\ UNCHANGED <<input, stdout, function, called, start>> /\ inputPtr' = inputPtr + 1
        /\ function \in NextWords /\ start # -1 /\ inputPtr < Len(input)
        /\ input[inputPtr + 1] \notin Whitespace
    BY InputIs DEF ReadsCharacter, kept, EndOfInput, IsWhite
  <1>2. ReadsWord'
    <2>1. ReadsWord
      BY <1>1 DEF InputInv
    <2> QED BY <1>1, <2>1, InputIs DEF ReadsWord, Stands, White, Black
  <1>3. function' # "none" /\ function' # "rewindWord"
    BY <1>1 DEF NextWords
  <1> QED BY <1>1, <1>2, <1>3, InputIs DEF InputInv

LEMMA UpperIsEmpty == ASSUME NEW s \in Seq(DOMAIN Upper) PROVE (InUpperCase(s) = <<>>) <=> s = <<>>
  <1>1. Len(s) \in Nat /\ DOMAIN s = 1 .. Len(s)
    OBVIOUS
  <1>2. InUpperCase(s) = [i \in 1 .. Len(s) |-> Upper[s[i]]]
    BY <1>1 DEF InUpperCase
  <1>3. InUpperCase(s) \in Seq({Upper[x] : x \in DOMAIN Upper}) /\ Len(InUpperCase(s)) = Len(s)
    BY <1>1, <1>2
  <1> QED BY <1>3, EmptySeq

\* What is returned is empty only at the end of the input.
LEMMA Returned ==
    ASSUME InputInv, ReturnsWord
    PROVE  /\ UNCHANGED <<input, inputPtr, stdout, called, start>> /\ function' = "none"
           /\ function \in NextWords /\ ReadsWord
           /\ (word' = <<>>) <=> (start = -1)
           /\ start = -1 => inputPtr = Len(input)
           /\ start # -1 => start < inputPtr /\ EndsWord(inputPtr)
  <1>1. /\ UNCHANGED <<input, inputPtr, stdout, called, start>> /\ function' = "none"
        /\ function \in NextWords /\ ReadsWord
    BY DEF ReturnsWord, kept, InputInv
  <1>2. inputPtr < Len(input) => start # -1 /\ input[inputPtr + 1] \in Whitespace
    BY InputIs DEF ReturnsWord, EndOfInput, IsWhite
  <1>3. ASSUME start # -1 PROVE start < inputPtr /\ EndsWord(inputPtr)
    <2>1. /\ start \in Nat /\ start <= inputPtr /\ Black(start, inputPtr)
          /\ start < Len(input) /\ input[start + 1] \notin Whitespace
      BY <1>1, <1>3, InputIs DEF ReadsWord
    <2>2. start # inputPtr
      BY <1>2, <2>1
    <2>3. inputPtr \in start + 1 .. inputPtr /\ inputPtr \in 1 .. Len(input)
      BY <2>1, <2>2, InputIs DEF InputInv
    <2> QED BY <1>2, <2>1, <2>2, <2>3, InputIs DEF EndsWord, Black
  <1>4. start = -1 => inputPtr = Len(input)
    BY <1>2, InputIs DEF InputInv
  <1>5. (word' = <<>>) <=> (start = -1)
    <2> DEFINE read == IF start = -1 THEN <<>> ELSE SubSeq(input, start + 1, inputPtr)
    <2>1. word' = IF function = "nextWord" THEN InUpperCase(read) ELSE read
      BY DEF ReturnsWord
    <2>2. read \in Seq(DOMAIN Upper) /\ ((read = <<>>) <=> (start = -1))
      <3>1. CASE start = -1
        BY <3>1
      <3>2. CASE start # -1
        <4>1. start \in Nat /\ start < inputPtr /\ inputPtr \in 1 .. Len(input)
          BY <1>1, <1>3, <3>2, InputIs DEF ReadsWord, EndsWord
        <4>2. /\ SubSeq(input, start + 1, inputPtr) \in Seq(DOMAIN Upper)
              /\ Len(SubSeq(input, start + 1, inputPtr)) = inputPtr - start
          BY <4>1, InputIs
        <4>3. SubSeq(input, start + 1, inputPtr) # <<>>
          BY <4>1, <4>2, InputIs
        <4> QED BY <3>2, <4>2, <4>3
      <3> QED BY <3>1, <3>2
    <2> HIDE DEF read
    <2> QED BY <2>1, <2>2, UpperIsEmpty
  <1> QED BY <1>1, <1>3, <1>4, <1>5

LEMMA ReturnsKeeps == ASSUME InputInv, ReturnsWord PROVE InputInv'
  <1>1. Stands(inputPtr) /\ (word' # <<>> => EndsWord(inputPtr))
    BY Returned DEF Stands, EndsWord
  <1>2. "none" \notin NextWords
    BY DEF NextWords
  <1> QED BY <1>1, <1>2, Returned DEF InputInv, Stands, EndsWord
LEMMA CallsRewindKeeps ==
    ASSUME InputInv, CallsRewind PROVE InputInv' /\ status' = "running"
  <1>1. /\ EndsWord(inputPtr) /\ inputPtr \in 0 .. Len(input) /\ inputPtr > 0
    BY DEF CallsRewind, InputInv, EndsWord
  <1>2. /\ UNCHANGED <<input, inputPtr, stdout>> /\ called' = inputPtr /\ start' = -1
        /\ function' = "rewindWord" /\ status' = "running" /\ word' = <<>>
    BY <1>1, InputIs DEF CallsRewind
  <1>3. RewindsWord'
    BY <1>1, <1>2 DEF RewindsWord, EndsWord
  <1>4. function' # "none" /\ function' \notin NextWords
    BY <1>2 DEF NextWords
  <1> QED BY <1>1, <1>2, <1>3, <1>4 DEF InputInv

LEMMA RewindsWhitespaceKeeps == ASSUME InputInv, RewindsWhitespace PROVE InputInv'
  <1>1. function = "rewindWord" /\ start = -1 /\ RewindsWord
    BY DEF RewindsWhitespace, InputInv
  <1>2. ~ (inputPtr > 0 /\ IsWhite(inputPtr - 1)) /\ inputPtr = called
    BY <1>1, InputIs DEF RewindsWord, EndsWord, IsWhite
  <1>3. /\ UNCHANGED <<input, inputPtr, stdout, called, function, word>> /\ start' = called
    BY <1>2 DEF RewindsWhitespace, kept
  <1>4. RewindsWord'
    BY <1>1, <1>2, <1>3, InputIs DEF RewindsWord, EndsWord, Black
  <1>5. function' # "none" /\ function' \notin NextWords
    BY <1>1, <1>3 DEF NextWords
  <1> QED BY <1>1, <1>3, <1>4, <1>5 DEF InputInv

LEMMA RewindsKeeps == ASSUME InputInv, Rewinds PROVE InputInv'
  <1>1. function = "rewindWord" /\ start # -1 /\ RewindsWord
    BY DEF Rewinds, InputInv
  <1>2. inputPtr > 0 /\ input[inputPtr] \notin Whitespace
    BY InputIs DEF Rewinds, AtFront, IsWhite
  <1>3. /\ UNCHANGED <<input, stdout, called, function, start, word>> /\ inputPtr' = inputPtr - 1
    BY DEF Rewinds, kept
  <1>4. RewindsWord'
    BY <1>1, <1>2, <1>3, InputIs DEF RewindsWord, EndsWord, Black
  <1>5. function' # "none" /\ function' \notin NextWords
    BY <1>1, <1>3 DEF NextWords
  <1>6. inputPtr' \in 0 .. Len(input)
    BY <1>2, <1>3, InputIs DEF InputInv
  <1> QED BY <1>1, <1>3, <1>4, <1>5, <1>6 DEF InputInv

\* rewindWord ends in front of a word.
LEMMA Rewound ==
    ASSUME InputInv, ReturnsRewound
    PROVE  /\ UNCHANGED <<input, inputPtr, stdout, called, word>> /\ function' = "none" /\ word = <<>>
           /\ EndsWord(called) /\ inputPtr < called /\ Black(inputPtr, called)
           /\ inputPtr = 0 \/ input[inputPtr] \in Whitespace
  <1>1. /\ function = "rewindWord" /\ start # -1 /\ RewindsWord
        /\ UNCHANGED <<input, inputPtr, stdout, called, word>> /\ function' = "none"
    BY DEF ReturnsRewound, InputInv, kept
  <1>2. inputPtr = 0 \/ input[inputPtr] \in Whitespace
    BY InputIs DEF ReturnsRewound, AtFront, IsWhite
  <1>3. inputPtr # called
    BY <1>1, <1>2, InputIs DEF RewindsWord, EndsWord
  <1> QED BY <1>1, <1>2, <1>3, InputIs DEF RewindsWord
LEMMA ReturnsRewoundKeeps == ASSUME InputInv, ReturnsRewound PROVE InputInv'
  <1>1. Stands(inputPtr)
    BY Rewound DEF Stands
  <1>2. "none" \notin NextWords
    BY DEF NextWords
  <1> QED BY <1>1, <1>2, Rewound DEF InputInv, Stands

\* A search finds the first of the characters it looks for.
LEMMA BehindIs ==
    ASSUME InputInv, NEW p \in 0 .. Len(input), NEW c, Found(p, c) # {}
    PROVE  /\ Behind(p, c) \in p + 1 .. Len(input) /\ input[Behind(p, c)] = c
           /\ \A q \in p + 1 .. Behind(p, c) - 1 : input[q] # c
  <1>1. Found(p, c) \in SUBSET (p + 1 .. Len(input)) /\ Found(p, c) \in SUBSET Nat
    BY InputIs DEF Found
  <1>2. \E q \in Found(p, c) : \A r \in Found(p, c) : q <= r
    BY <1>1, LeastExists
  <1>3. Behind(p, c) \in Found(p, c) /\ \A r \in Found(p, c) : Behind(p, c) <= r
    BY <1>2 DEF Behind
  <1> QED BY <1>1, <1>3, InputIs DEF Found

LEMMA Singles == {"\n", ")", Go!Quote} \subseteq Single
  BY Zenon DEF Single, Go!Quote

LEMMA CommentKeeps == ASSUME InputInv, NEW c \in {"\n", ")"}, Comment(c) PROVE InputInv'
  <1>1. /\ UNCHANGED <<input, stdout, function>> /\ called' = inputPtr /\ function = "none"
        /\ word' = <<>> /\ inputPtr \in 0 .. Len(input)
    BY DEF Comment, Executed, InputInv
  <1>2. inputPtr' \in 0 .. Len(input) /\ Stands(inputPtr')
    <2>1. CASE Found(inputPtr, c) = {}
      BY <2>1, InputIs DEF Comment, Stands
    <2>2. CASE Found(inputPtr, c) # {}
      <3>1. /\ Behind(inputPtr, c) \in inputPtr + 1 .. Len(input)
            /\ input[Behind(inputPtr, c)] = c
        BY <1>1, <2>2, BehindIs
      <3>2. inputPtr' = Behind(inputPtr, c)
        BY <2>2 DEF Comment
      <3> QED BY <1>1, <3>1, <3>2, InputIs, Singles DEF Stands
    <2> QED BY <2>1, <2>2
  <1>3. "none" \notin NextWords
    BY DEF NextWords
  <1> QED BY <1>1, <1>2, <1>3 DEF InputInv, Stands

\* The ways ." ends: it stands at white space, which it skips.
Texted(e) == SubSeq(input, inputPtr + 2, e - 1)
AtTheEnd == inputPtr = Len(input) /\ status' = "crash" /\ UNCHANGED <<inputPtr, stdout>>
Unterminated ==
    /\ inputPtr < Len(input) /\ input[inputPtr + 1] \in Whitespace
    /\ status' = "fatal" /\ inputPtr' = inputPtr + 1 /\ UNCHANGED stdout
    /\ \A q \in inputPtr + 1 .. Len(input) : input[q] # Go!Quote
Terminated ==
    /\ inputPtr < Len(input) /\ input[inputPtr + 1] \in Whitespace
    /\ status' = "running" /\ inputPtr' \in inputPtr + 2 .. Len(input)
    /\ input[inputPtr'] = Go!Quote
    /\ \A q \in inputPtr + 1 .. inputPtr' - 1 : input[q] # Go!Quote
    /\ stdout' = IF compileMode THEN stdout ELSE stdout \o Texted(inputPtr')

LEMMA Searched ==
    ASSUME InputInv, DotQuote
    PROVE  /\ UNCHANGED <<input, function, compileMode>> /\ called' = inputPtr /\ word' = <<>>
           /\ function = "none" /\ status = "running" /\ EndsWord(inputPtr)
           /\ AtTheEnd \/ Unterminated \/ Terminated
  <1>1. /\ UNCHANGED <<input, function, compileMode>> /\ called' = inputPtr /\ word' = <<>>
        /\ function = "none" /\ status = "running" /\ EndsWord(inputPtr)
    BY DEF DotQuote, Executed, InputInv
  <1>2. CASE EndOfInput
    <2>1. inputPtr = Len(input)
      BY <1>1, <1>2, InputIs DEF EndOfInput, EndsWord
    <2> QED BY <1>1, <1>2, <2>1 DEF DotQuote, AtTheEnd
  <1>3. CASE ~ EndOfInput
    <2> DEFINE p == inputPtr + 1
    <2>0. inputPtr < Len(input) /\ p \in 0 .. Len(input)
      BY <1>3, InputIs DEF EndOfInput
    <2>1. input[p] \in Whitespace
      BY <1>1, <2>0, InputIs DEF EndsWord
    <2>2. \/ Found(p, Go!Quote) = {} /\ status' = "fatal" /\ inputPtr' = p /\ UNCHANGED stdout
          \/ /\ Found(p, Go!Quote) # {} /\ inputPtr' = Behind(p, Go!Quote)
             /\ stdout' = IF compileMode THEN stdout
                          ELSE stdout \o SubSeq(input, p + 1, inputPtr' - 1)
             /\ UNCHANGED status
      <3>1. IsWhite(inputPtr)
        BY <2>1 DEF IsWhite
      <3> QED BY <1>3, <3>1 DEF DotQuote, Go!Quote
    <2>3. input[p] # Go!Quote
      BY <2>1 DEF Whitespace, Go!Quote
    <2>4. CASE Found(p, Go!Quote) = {}
      <3>1. \A q \in p + 1 .. Len(input) : input[q] # Go!Quote
        BY <2>4 DEF Found
      <3>2. \A q \in inputPtr + 1 .. Len(input) : input[q] # Go!Quote
        BY <2>0, <2>3, <3>1, InputIs
      <3>3. Unterminated
        BY <2>0, <2>1, <2>2, <2>4, <3>2 DEF Unterminated
      <3> QED BY <1>1, <3>3
    <2>5. CASE Found(p, Go!Quote) # {}
      <3>1. p + 1 = inputPtr + 2
        BY InputIs
      <3>2. /\ inputPtr' = Behind(p, Go!Quote) /\ status' = "running"
            /\ stdout' = IF compileMode THEN stdout ELSE stdout \o Texted(inputPtr')
        BY <1>1, <2>2, <2>5, <3>1 DEF Texted
      <3>3. /\ Behind(p, Go!Quote) \in p + 1 .. Len(input) /\ input[Behind(p, Go!Quote)] = Go!Quote
            /\ \A q \in p + 1 .. Behind(p, Go!Quote) - 1 : input[q] # Go!Quote
        <4> HIDE DEF p
        <4> QED BY <2>0, <2>5, BehindIs
      <3>4. inputPtr' \in inputPtr + 2 .. Len(input) /\ input[inputPtr'] = Go!Quote
        BY <3>1, <3>2, <3>3
      <3>5. \A q \in inputPtr + 1 .. inputPtr' - 1 : input[q] # Go!Quote
        BY <2>0, <2>3, <3>2, <3>3, <3>4, InputIs
      <3>6. Terminated
        BY <2>0, <2>1, <3>2, <3>4, <3>5 DEF Terminated
      <3> QED BY <1>1, <3>6
    <2> QED BY <2>4, <2>5
  <1> QED BY <1>2, <1>3

LEMMA TextIs ==
    ASSUME InputInv, NEW e \in inputPtr + 2 .. Len(input)
    PROVE  /\ Texted(e) \in Seq(DOMAIN Upper) /\ Len(Texted(e)) = e - inputPtr - 2
           /\ \A i \in 1 .. Len(Texted(e)) : Texted(e)[i] = input[inputPtr + 1 + i]
  <1>1. /\ input \in Seq(DOMAIN Upper) /\ Len(input) \in Nat /\ inputPtr \in Nat /\ e \in Nat
        /\ inputPtr + 2 <= e /\ e <= Len(input)
    BY InputIs
  <1>2. inputPtr + 2 \in 1 .. Len(input) + 1 /\ e - 1 \in inputPtr + 2 - 1 .. Len(input)
    BY <1>1
  <1>3. /\ Texted(e) \in Seq(DOMAIN Upper)
        /\ Len(Texted(e)) = IF inputPtr + 2 <= e - 1 THEN e - 1 - (inputPtr + 2) + 1 ELSE 0
        /\ \A i \in 1 .. e - 1 - (inputPtr + 2) + 1 : Texted(e)[i] = input[inputPtr + 2 + i - 1]
    BY <1>1, <1>2, SubSeqProperties DEF Texted
  <1>4. Len(Texted(e)) = e - inputPtr - 2 /\ e - 1 - (inputPtr + 2) + 1 = e - inputPtr - 2
    BY <1>1, <1>3
  <1>5. ASSUME NEW i \in 1 .. Len(Texted(e)) PROVE Texted(e)[i] = input[inputPtr + 1 + i]
    <2>1. inputPtr + 2 + i - 1 = inputPtr + 1 + i /\ i \in 1 .. e - 1 - (inputPtr + 2) + 1
      BY <1>1, <1>4
    <2> QED BY <1>3, <2>1
  <1> QED BY <1>3, <1>4, <1>5

LEMMA DotQuoteKeeps == ASSUME InputInv, DotQuote PROVE InputInv'
  <1>1. inputPtr' \in 0 .. Len(input) /\ (status' = "running" => Stands(inputPtr'))
    <2>1. CASE AtTheEnd
      BY <2>1, Searched DEF AtTheEnd, InputInv
    <2>2. CASE Unterminated
      BY <2>2, Searched, InputIs DEF Unterminated
    <2>3. CASE Terminated
      BY <2>3, Searched, InputIs, Singles DEF Terminated, Stands
    <2> QED BY <2>1, <2>2, <2>3, Searched
  <1>2. stdout' \in Seq(DOMAIN Upper)
    <2>1. stdout \in Seq(DOMAIN Upper)
      BY DEF InputInv
    <2>2. \A e \in inputPtr + 2 .. Len(input) : stdout \o Texted(e) \in Seq(DOMAIN Upper)
      BY <2>1, TextIs
    <2> QED BY <2>1, <2>2, Searched DEF AtTheEnd, Unterminated, Terminated
  <1>3. "none" \notin NextWords
    BY DEF NextWords
  <1>4. called' \in 0 .. Len(input)
    BY Searched DEF InputInv
  <1> QED BY <1>1, <1>2, <1>3, <1>4, Searched DEF InputInv, Stands

LEMMA NextKeeps == InputInv /\ [Next]_inputVars => InputInv'
  <1> SUFFICES ASSUME InputInv, [Next]_inputVars PROVE InputInv'
    OBVIOUS
  <1>1. CASE UNCHANGED inputVars
    BY <1>1 DEF inputVars, InputInv, Stands, EndsWord, ReadsWord, RewindsWord, White, Black
  <1>2. CASE Step
    BY <1>2, SkipsKeeps, StartsKeeps, ReadsKeeps, ReturnsKeeps, RewindsWhitespaceKeeps,
       RewindsKeeps, ReturnsRewoundKeeps DEF Step
  <1>3. ASSUME NEW f \in NextWords, Calls(f) PROVE InputInv'
    BY <1>3, CallsKeeps
  <1>4. ASSUME NEW c \in {"\n", ")"}, Comment(c) PROVE InputInv'
    BY <1>4, CommentKeeps
  <1> QED BY <1>1, <1>2, <1>3, <1>4, CallsRewindKeeps, DotQuoteKeeps DEF Next

LEMMA InputInvariant == Spec => []InputInv
  BY InitHolds, NextKeeps, PTL DEF Spec
-----------------------------------------------------------------------------
(* nextWord and rewindWord.                                                *)

LEMMA ConsumedIs ==
    ASSUME InputInv, NEW p \in 0 .. Len(input)
    PROVE  /\ Consumed(p) \in Nat /\ Consumed(Len(input)) \in Nat
           /\ Consumed(p) <= Consumed(Len(input))
           /\ Words(input) \in Seq({Kind(input[q]) : q \in Starts(input)})
           /\ Len(Words(input)) = Consumed(Len(input))
  <1>1. /\ input \in Seq(DOMAIN Upper) /\ Len(input) \in Nat /\ p \in Nat /\ p <= Len(input)
    BY InputIs
  <1>2. Count(input, p) <= Count(input, Len(input)) /\ Count(input, p) \in Nat
    BY <1>1, CountIsMonotone, CountIs
  <1> QED BY <1>1, <1>2, WordsAre DEF Consumed

\* nextWord ends without a word: what is left is white.
LEMMA NoWordIsLeft ==
    ASSUME InputInv, White(called, Len(input))
    PROVE  Go!WordsAfter(Consumed(called)) = {}
  <1>1. input \in Seq(DOMAIN Upper) /\ called \in 0 .. Len(input) /\ Len(input) \in 0 .. Len(input)
    BY InputIs DEF InputInv
  <1>2. \A i \in Consumed(called) + 1 .. Consumed(Len(input)) : Words(input)[i] = Go!NL
    BY <1>1, WhiteWords DEF White, Consumed
  <1> QED BY <1>1, <1>2, ConsumedIs DEF Go!WordsAfter

\* nextWord ends with a word: it is the first that is left.
LEMMA NextWordIsRead ==
    ASSUME InputInv, NEW a \in called .. Len(input), NEW b \in 0 .. Len(input), a < b,
           Stands(called), White(called, a), Black(a, b), Alone(a, b)
    PROVE  Go!First(Consumed(b), Go!WordsAfter(Consumed(called)))
  <1>1. /\ input \in Seq(DOMAIN Upper) /\ Len(input) \in Nat /\ called \in 0 .. Len(input)
        /\ called \in Nat /\ a \in Nat /\ b \in Nat /\ a \in 0 .. Len(input)
    BY InputIs DEF InputInv
  <1>2. input[a + 1] \notin Whitespace
    BY <1>1 DEF Black
  <1>3. a = 0 \/ input[a] \in Whitespace \cup Single
    <2>1. CASE a = called
      BY <1>1, <1>2, <2>1 DEF Stands
    <2>2. CASE a # called
      BY <1>1, <2>2 DEF White
    <2> QED BY <2>1, <2>2
  <1>4. /\ Consumed(b) = Consumed(a) + 1
        /\ Words(input)[Consumed(a) + 1] # Go!NL
    BY <1>1, <1>3, OneWord DEF Black, Alone, Consumed
  <1>5. \A i \in Consumed(called) + 1 .. Consumed(a) : Words(input)[i] = Go!NL
    BY <1>1, WhiteWords DEF White, Consumed
  <1>6. Consumed(called) <= Consumed(a)
    BY <1>1, CountIsMonotone DEF Consumed
  <1>7. /\ Consumed(called) \in Nat /\ Consumed(a) \in Nat
        /\ Consumed(b) <= Len(Words(input)) /\ Len(Words(input)) \in Nat
    BY <1>1, ConsumedIs
  <1> DEFINE after == Go!WordsAfter(Consumed(called))
  <1>8. Consumed(b) \in after
    BY <1>4, <1>6, <1>7 DEF Go!WordsAfter
  <1>9. \A r \in after : Consumed(b) <= r
    BY <1>4, <1>5, <1>6, <1>7 DEF Go!WordsAfter
  <1> QED BY <1>8, <1>9 DEF Go!First

LEMMA ReadsStep ==
    ASSUME InputInv, Next
    PROVE  LET p == Consumed(called)
               r == Consumed(inputPtr')
           IN  /\ function \in NextWords /\ function' = "none" =>
                     \/ word' = <<>> /\ Go!WordsAfter(p) = {}
                     \/ /\ word' # <<>>
                        /\ Alone(start, inputPtr') =>
                             Go!First(r, Go!WordsAfter(p))
               /\ function = "rewindWord" /\ function' = "none" =>
                     (Alone(inputPtr', called) => r = p - 1)
               /\ CallsRewind => status' = "running"
  <1>0. "none" \notin NextWords /\ "rewindWord" \notin NextWords
    BY DEF NextWords
  <1>1. ASSUME function \in NextWords, function' = "none"
        PROVE  \/ word' = <<>> /\ Go!WordsAfter(Consumed(called)) = {}
               \/ /\ word' # <<>>
                  /\ Alone(start, inputPtr') =>
                       Go!First(Consumed(inputPtr'), Go!WordsAfter(Consumed(called)))
    <2>1. ReturnsWord
      BY <1>0, <1>1 DEF Next, Step, SkipWhitespace, StartsWord, ReadsCharacter, RewindsWhitespace,
         Rewinds, ReturnsRewound, Calls, CallsRewind, DotQuote, Comment, Executed
    <2>2. CASE start = -1
      <3>1. White(called, Len(input)) /\ word' = <<>>
        BY <2>1, <2>2, Returned DEF ReadsWord
      <3> QED BY <3>1, NoWordIsLeft
    <2>3. CASE start # -1
      <3>1. /\ word' # <<>> /\ UNCHANGED inputPtr /\ Stands(called) /\ White(called, start)
            /\ Black(start, inputPtr) /\ start < inputPtr /\ start \in called .. inputPtr
        BY <2>1, <2>3, Returned DEF ReadsWord
      <3>2. inputPtr \in 0 .. Len(input) /\ start \in called .. Len(input)
        BY <3>1, InputIs DEF InputInv
      <3>3. Consumed(inputPtr') = Consumed(inputPtr) /\ Alone(start, inputPtr') = Alone(start, inputPtr)
        BY <3>1
      <3> QED BY <3>1, <3>2, <3>3, NextWordIsRead
    <2> QED BY <2>2, <2>3
  <1>2. ASSUME function = "rewindWord", function' = "none", Alone(inputPtr', called)
        PROVE  Consumed(inputPtr') = Consumed(called) - 1
    <2>1. ReturnsRewound
      BY <1>0, <1>2 DEF Next, Step, SkipWhitespace, StartsWord, ReadsCharacter, ReturnsWord,
         RewindsWhitespace, Rewinds, Calls, CallsRewind, DotQuote, Comment, Executed
    <2>2. /\ input \in Seq(DOMAIN Upper) /\ inputPtr \in 0 .. Len(input) /\ called \in 0 .. Len(input)
          /\ Alone(inputPtr, called) /\ inputPtr' = inputPtr
      BY <1>2, <2>1, Rewound, InputIs DEF InputInv
    <2>3. Count(input, called) = Count(input, inputPtr) + 1
      BY <2>1, <2>2, Rewound, OneWord DEF Black, Alone
    <2>4. Count(input, inputPtr) \in Nat /\ Count(input, called) \in Nat
      BY <2>2, ConsumedIs DEF Consumed
    <2> QED BY <2>2, <2>3, <2>4 DEF Consumed
  <1> QED BY <1>1, <1>2, CallsRewindKeeps

\* On every text, inside and outside of definitions: nextWord returns the next of
\* the words, rewindWord undoes that.
THEOREM WordsAreRead == Spec => ReadsWords
  <1>1. InputInv /\ [Next]_inputVars =>
            [LET p == Consumed(called)
                 r == Consumed(inputPtr')
             IN  /\ function \in NextWords /\ function' = "none" =>
                       \/ word' = <<>> /\ Go!WordsAfter(p) = {}
                       \/ /\ word' # <<>>
                          /\ Alone(start, inputPtr') =>
                               Go!First(r, Go!WordsAfter(p))
                 /\ function = "rewindWord" /\ function' = "none" =>
                       (Alone(inputPtr', called) => r = p - 1)
                 /\ CallsRewind => status' = "running"]_inputVars
    BY ReadsStep
  <1> QED BY <1>1, InputInvariant, PTL DEF Spec, ReadsWords
-----------------------------------------------------------------------------
(* The searches of \ ( and .".                                             *)

LEMMA KindIs ==
    /\ \A c \in Single : Kind(c) = c
    /\ \A c \in Single : \A x : Kind(x) = c => x = c
  <1>1. "WORD" \notin Single
    BY Zenon DEF Single
  <1> QED BY <1>1 DEF Kind

\* The first of a character is the first of the words it is.
LEMMA SearchFinds ==
    ASSUME InputInv, NEW c \in Single, NEW p \in 0 .. Len(input), NEW e \in p + 1 .. Len(input),
           input[e] = c, \A q \in p + 1 .. e - 1 : input[q] # c
    PROVE  /\ e \in Starts(input) /\ Consumed(e) \in Nat
           /\ Go!First(Consumed(e),
                       {q \in Consumed(p) + 1 .. Len(Words(input)) : Words(input)[q] = c})
  <1>1. /\ input \in Seq(DOMAIN Upper) /\ Len(input) \in Nat /\ p \in Nat /\ e \in Nat /\ p < e
        /\ e \in 0 .. Len(input) /\ e \in DOMAIN input /\ Len(input) \in 0 .. Len(input)
    BY InputIs
  <1>2. e \in Starts(input)
    BY <1>1 DEF Starts
  <1>3. /\ Consumed(p) < Consumed(e) /\ Consumed(e) <= Len(Words(input))
        /\ Consumed(p) \in Nat /\ Consumed(e) \in Nat /\ Len(Words(input)) \in Nat
        /\ Len(Words(input)) = Consumed(Len(input))
    <2>1. Consumed(p) < Consumed(e)
      BY <1>1, <1>2, CountIncreases DEF Consumed
    <2> QED BY <1>1, <2>1, ConsumedIs
  <1>4. Words(input)[Consumed(e)] = c
    BY <1>1, <1>2, WordsAre, KindIs DEF Consumed
  <1> DEFINE found == {q \in Consumed(p) + 1 .. Len(Words(input)) : Words(input)[q] = c}
  <1>5. Consumed(e) \in found
    BY <1>3, <1>4
  <1>6. ASSUME NEW r \in found PROVE Consumed(e) <= r
    <2>1. r \in Count(input, p) + 1 .. Count(input, Len(input)) /\ Words(input)[r] = c
      BY <1>3 DEF Consumed
    <2>2. PICK q \in Starts(input) : /\ q \in p + 1 .. Len(input) /\ Count(input, q) = r
                                     /\ Words(input)[r] = Kind(input[q])
      BY <1>1, <2>1, Between
    <2>3. input[q] = c
      BY <2>1, <2>2, KindIs
    <2>4. q \in Nat /\ e <= q
      BY <1>1, <2>2, <2>3
    <2>5. Count(input, e) <= Count(input, q)
      BY <1>1, <2>4, CountIsMonotone
    <2> QED BY <2>2, <2>5 DEF Consumed
  <1> QED BY <1>2, <1>3, <1>5, <1>6 DEF Go!First

LEMMA SearchFails ==
    ASSUME InputInv, NEW c \in Single, NEW p \in 0 .. Len(input),
           \A q \in p + 1 .. Len(input) : input[q] # c
    PROVE  \A i \in Consumed(p) + 1 .. Len(Words(input)) : Words(input)[i] # c
  <1> TAKE i \in Consumed(p) + 1 .. Len(Words(input))
  <1>1. /\ input \in Seq(DOMAIN Upper) /\ Len(input) \in Nat /\ Len(input) \in 0 .. Len(input)
        /\ i \in Count(input, p) + 1 .. Count(input, Len(input))
    <2>1. input \in Seq(DOMAIN Upper) /\ Len(input) \in Nat
      BY InputIs
    <2>2. Len(Words(input)) = Count(input, Len(input)) /\ Consumed(p) = Count(input, p)
      BY ConsumedIs DEF Consumed
    <2> QED BY <2>1, <2>2
  <1>2. PICK q \in Starts(input) : q \in p + 1 .. Len(input) /\ Words(input)[i] = Kind(input[q])
    BY <1>1, Between
  <1> QED BY <1>2, KindIs

LEMMA CommentSearches ==
    ASSUME InputInv, NEW c \in {Go!NL, ")"}, Comment(c)
    PROVE  Go!SkipsTo(c, Consumed(inputPtr), Consumed(inputPtr'))
  <1>1. inputPtr \in 0 .. Len(input) /\ c \in Single
    BY Singles DEF InputInv, Go!NL
  <1>2. CASE Found(inputPtr, c) = {}
    <2>1. inputPtr' = Len(input) /\ \A q \in inputPtr + 1 .. Len(input) : input[q] # c
      BY <1>2 DEF Comment, Found
    <2>2. \A i \in Consumed(inputPtr) + 1 .. Len(Words(input)) : Words(input)[i] # c
      BY <1>1, <2>1, SearchFails
    <2> QED BY <1>1, <2>1, <2>2, ConsumedIs DEF Go!SkipsTo
  <1>3. CASE Found(inputPtr, c) # {}
    <2>1. inputPtr' = Behind(inputPtr, c)
      BY <1>3 DEF Comment
    <2>2. /\ Behind(inputPtr, c) \in inputPtr + 1 .. Len(input) /\ input[Behind(inputPtr, c)] = c
          /\ \A q \in inputPtr + 1 .. Behind(inputPtr, c) - 1 : input[q] # c
      BY <1>1, <1>3, BehindIs
    <2>3. Go!First(Consumed(Behind(inputPtr, c)),
             {q \in Consumed(inputPtr) + 1 .. Len(Words(input)) : Words(input)[q] = c})
      BY <1>1, <2>2, SearchFinds
    <2> QED BY <2>1, <2>3 DEF Go!SkipsTo
  <1> QED BY <1>2, <1>3

\* A text that begins behind white space consists of the words of the input that
\* begin in it.
\* Whether a word begins at q depends on the two characters there.
LEMMA StartIs ==
    ASSUME NEW s, NEW q \in DOMAIN s, q > 1
    PROVE  q \in Starts(s) <=> \/ s[q] \in Single
                               \/ s[q] \notin Whitespace /\ s[q - 1] \in Whitespace \cup Single
  BY DEF Starts

LEMMA FirstStartIs ==
    ASSUME NEW s, NEW q \in DOMAIN s, ~ (q > 1)
    PROVE  q \in Starts(s) <=> s[q] \in Single \/ s[q] \notin Whitespace
  BY DEF Starts

LEMMA TextStarts ==
    ASSUME InputInv, NEW e \in inputPtr + 2 .. Len(input), input[inputPtr + 1] \in Whitespace,
           NEW i \in 1 .. Len(Texted(e))
    PROVE  i \in Starts(Texted(e)) <=> inputPtr + 1 + i \in Starts(input)
  <1> DEFINE t == Texted(e)
             q == inputPtr + 1 + i
  <1>1. /\ Len(input) \in Nat /\ inputPtr \in Nat /\ DOMAIN input = 1 .. Len(input)
        /\ DOMAIN t = 1 .. Len(t) /\ Len(t) = e - inputPtr - 2
    BY InputIs, TextIs
  <1>2. i \in Nat /\ q \in DOMAIN input /\ q > 1 /\ i \in DOMAIN t
    BY <1>1
  <1>3. t[i] = input[q]
    BY TextIs
  <1>4. CASE i = 1
    <2>1. inputPtr + 1 = q - 1
      BY <1>1, <1>4
    <2>2. input[q - 1] \in Whitespace
      BY <2>1, Zenon
    <2> HIDE DEF t, q
    <2>3. q \in Starts(input) <=> input[q] \in Single \/ input[q] \notin Whitespace
      BY <1>2, <2>2, StartIs
    <2>4. i \in Starts(t) <=> t[i] \in Single \/ t[i] \notin Whitespace
      BY <1>2, <1>4, FirstStartIs
    <2>5. i \in Starts(t) <=> q \in Starts(input)
      BY <1>3, <2>3, <2>4
    <2> QED BY <2>5 DEF t, q
  <1>5. CASE i # 1
    <2>1. i - 1 \in 1 .. Len(t) /\ i > 1 /\ inputPtr + 1 + (i - 1) = q - 1
      BY <1>1, <1>2, <1>5
    <2>2. t[i - 1] = input[inputPtr + 1 + (i - 1)]
      BY <2>1, TextIs
    <2>3. t[i - 1] = input[q - 1]
      BY <2>1, <2>2, Zenon
    <2> HIDE DEF t, q
    <2>4. i \in Starts(t) <=>
             \/ t[i] \in Single
             \/ t[i] \notin Whitespace /\ t[i - 1] \in Whitespace \cup Single
      BY <1>2, <2>1, StartIs
    <2>5. q \in Starts(input) <=>
             \/ input[q] \in Single
             \/ input[q] \notin Whitespace /\ input[q - 1] \in Whitespace \cup Single
      BY <1>2, StartIs
    <2>6. i \in Starts(t) <=> q \in Starts(input)
      BY <1>3, <2>3, <2>4, <2>5, Zenon
    <2> QED BY <2>6 DEF t, q
  <1> QED BY <1>4, <1>5

LEMMA CountSteps ==
    ASSUME NEW T, NEW s \in Seq(T), NEW p \in Nat
    PROVE  /\ p + 1 \in Starts(s) => Count(s, p + 1) = Count(s, p) + 1
           /\ p + 1 \notin Starts(s) => Count(s, p + 1) = Count(s, p)
  <1>1. \A q \in p + 1 .. p + 1 : q = p + 1
    OBVIOUS
  <1>2. p + 1 \in Nat /\ p <= p + 1 /\ p + 1 \in p + 1 .. p + 1
    OBVIOUS
  <1>3. p + 1 \in Starts(s) => Count(s, p + 1) = Count(s, p) + 1
    BY <1>1, <1>2, CountGrows
  <1>4. ASSUME p + 1 \notin Starts(s) PROVE Count(s, p + 1) = Count(s, p)
    <2>1. \A q \in p + 1 .. p + 1 : q \notin Starts(s)
      BY <1>1, <1>4
    <2> QED BY <1>2, <2>1, CountStays
  <1> QED BY <1>3, <1>4

LEMMA TextCounts ==
    ASSUME InputInv, NEW e \in inputPtr + 2 .. Len(input), input[inputPtr + 1] \in Whitespace,
           NEW i \in 0 .. Len(Texted(e))
    PROVE  Count(input, inputPtr + 1 + i) = Count(input, inputPtr + 1) + Count(Texted(e), i)
  <1> DEFINE b == inputPtr + 1
             t == Texted(e)
             Wrong == {n \in 0 .. Len(t) : Count(input, b + n) # Count(input, b) + Count(t, n)}
  <1>1. /\ input \in Seq(DOMAIN Upper) /\ Len(input) \in Nat /\ b \in Nat
        /\ t \in Seq(DOMAIN Upper) /\ Len(t) \in Nat
    BY InputIs, TextIs
  <1>2. ASSUME Wrong # {} PROVE FALSE
    <2>1. PICK n \in Wrong : \A m \in Wrong : n <= m
      <3>1. Wrong \in SUBSET Nat
        BY <1>1
      <3> HIDE DEF Wrong
      <3> QED BY <1>2, <3>1, LeastExists
    <2>2. n \in Nat /\ n <= Len(t) /\ Count(input, b + n) # Count(input, b) + Count(t, n)
      BY <1>1, <2>1
    <2>3. n # 0
      <3>1. Count(t, 0) = 0 /\ Count(input, b) \in Nat
        BY <1>1, CountFromZero, CountIs
      <3> QED BY <1>1, <2>2, <3>1
    <2> DEFINE m == n - 1
    <2>4. m \in Nat /\ m + 1 = n /\ b + m \in Nat /\ (b + m) + 1 = b + n /\ n \in 1 .. Len(t)
      BY <1>1, <2>2, <2>3
    <2>5. Count(input, b + m) = Count(input, b) + Count(t, m)
      <3>1. m \notin Wrong /\ m \in 0 .. Len(t)
        BY <1>1, <2>1, <2>2, <2>4
      <3> QED BY <3>1
    <2>6. n \in Starts(t) <=> b + n \in Starts(input)
      BY <2>4, TextStarts
    <2>7. /\ b + n \in Starts(input) => Count(input, b + n) = Count(input, b + m) + 1
          /\ b + n \notin Starts(input) => Count(input, b + n) = Count(input, b + m)
      <3> HIDE DEF b, m
      <3> QED BY <1>1, <2>4, CountSteps
    <2>8. /\ n \in Starts(t) => Count(t, n) = Count(t, m) + 1
          /\ n \notin Starts(t) => Count(t, n) = Count(t, m)
      <3> HIDE DEF t, m
      <3> QED BY <1>1, <2>4, CountSteps
    <2>9. Count(input, b) \in Nat /\ Count(t, m) \in Nat
      <3> HIDE DEF t, m, b
      <3> QED BY <1>1, <2>4, CountIs
    <2> HIDE DEF t, m, b, Wrong
    <2> QED BY <2>2, <2>5, <2>6, <2>7, <2>8, <2>9
  <1> QED BY <1>2
LEMMA TextWords ==
    ASSUME InputInv, NEW e \in inputPtr + 2 .. Len(input), input[inputPtr + 1] \in Whitespace,
           e \in Starts(input)
    PROVE  Words(Texted(e)) = SubSeq(Words(input), Consumed(inputPtr + 1) + 1, Consumed(e) - 1)
  <1> DEFINE b == inputPtr + 1
             t == Texted(e)
             first == Consumed(b) + 1
             last  == Consumed(e) - 1
             part  == SubSeq(Words(input), first, last)
  <1>1. /\ input \in Seq(DOMAIN Upper) /\ Len(input) \in Nat /\ b \in Nat /\ e \in Nat
        /\ b \in 0 .. Len(input) /\ e \in 0 .. Len(input)
        /\ t \in Seq(DOMAIN Upper) /\ Len(t) \in Nat /\ Len(t) = e - inputPtr - 2
    BY InputIs, TextIs
  <1>2. Consumed(b) \in Nat /\ Consumed(e) \in Nat
    <2> HIDE DEF b
    <2> QED BY <1>1, ConsumedIs
  <1>3. Consumed(e) = Consumed(b) + Count(t, Len(t)) + 1
    <2>1. e - 1 \in Nat /\ (e - 1) + 1 = e /\ b + Len(t) = e - 1 /\ Len(t) \in 0 .. Len(t)
      <3>1. inputPtr \in Nat /\ inputPtr + 2 <= e
        BY InputIs
      <3> HIDE DEF t
      <3> QED BY <1>1, <3>1
    <2>2. Count(input, e) = Count(input, e - 1) + 1
      BY <1>1, <2>1, CountSteps
    <2>3. Count(input, inputPtr + 1 + Len(t)) = Count(input, b) + Count(t, Len(t))
      BY <2>1, TextCounts
    <2>4. Count(input, e - 1) = Count(input, b) + Count(t, Len(t))
      BY <2>1, <2>3
    <2> QED BY <2>2, <2>4 DEF Consumed
  <1>4. /\ Words(t) \in Seq({Kind(t[q]) : q \in Starts(t)}) /\ Len(Words(t)) = Count(t, Len(t))
        /\ Count(t, Len(t)) \in Nat
    <2> HIDE DEF t
    <2> QED BY <1>1, WordsAre
  <1>5. /\ Words(input) \in Seq({Kind(input[q]) : q \in Starts(input)})
        /\ Len(Words(input)) = Consumed(Len(input)) /\ Consumed(Len(input)) \in Nat
        /\ Consumed(e) <= Consumed(Len(input))
    BY <1>1, ConsumedIs
  <1> DEFINE n == Count(t, Len(t))
             K == {Kind(input[q]) : q \in Starts(input)}
  <1>6. part \in Seq(K) /\ Len(part) = n /\ \A i \in 1 .. n : part[i] = Words(input)[Consumed(b) + i]
    <2>1. first \in Int /\ last \in Int /\ \A i \in first .. last : i \in 1 .. Len(Words(input))
      BY <1>2, <1>5
    <2>2. \A i \in first .. last : Words(input)[i] \in K
      <3> HIDE DEF K, first, last
      <3>1. Words(input) \in Seq(K)
        BY <1>5 DEF K
      <3> QED BY <2>1, <3>1
    <2>3. /\ part \in Seq(K) /\ Len(part) = (IF first <= last THEN last - first + 1 ELSE 0)
          /\ \A i \in 1 .. last - first + 1 : part[i] = Words(input)[first + i - 1]
      <3> HIDE DEF first, last, K
      <3> QED BY <2>1, <2>2, SubSeqProperties
    <2>4. last - first + 1 = n /\ n \in Nat
      BY <1>2, <1>3, <1>4
    <2>5. Len(part) = n
      BY <2>3, <2>4, <1>2
    <2>6. ASSUME NEW i \in 1 .. n PROVE part[i] = Words(input)[Consumed(b) + i]
      <3>1. first + i - 1 = Consumed(b) + i /\ i \in 1 .. last - first + 1
        BY <1>2, <2>4
      <3> HIDE DEF part, first, last
      <3> QED BY <2>3, <3>1
    <2> QED BY <2>3, <2>5, <2>6
  <1>7. ASSUME NEW i \in 1 .. n PROVE Words(t)[i] = part[i]
    <2>1. PICK q \in Starts(t) : Count(t, q) = i /\ Words(t)[i] = Kind(t[q])
      <3> HIDE DEF t
      <3>1. PICK q \in Starts(t) : Count(t, q) = i
        BY <1>1, <1>4, WordsAre
      <3>2. Words(t)[Count(t, q)] = Kind(t[q])
        BY <1>1, WordsAre
      <3> QED BY <3>1, <3>2
    <2>2. q \in 1 .. Len(t) /\ q \in 0 .. Len(t)
      <3> HIDE DEF t
      <3> QED BY <1>1, StartsAre
    <2>3. inputPtr + 1 + q \in Starts(input)
      BY <2>2, TextStarts
    <2>4. Count(input, inputPtr + 1 + q) = Count(input, inputPtr + 1) + Count(t, q)
      BY <2>2, TextCounts
    <2>5. t[q] = input[inputPtr + 1 + q]
      BY <2>2, TextIs
    <2>6. Words(input)[Count(input, inputPtr + 1 + q)] = Kind(input[inputPtr + 1 + q])
      BY <1>1, <2>3, WordsAre
    <2>7. Words(input)[Consumed(b) + i] = Kind(t[q])
      BY <2>1, <2>4, <2>5, <2>6 DEF Consumed
    <2> QED BY <1>6, <2>1, <2>7
  <1> HIDE DEF part, t, K, first, last
  <1>8. Words(t) = part
    <2>1. Len(Words(t)) = Len(part)
      BY <1>4, <1>6
    <2> QED BY <1>4, <1>6, <1>7, <2>1, SeqEqual
  <1> QED BY <1>8 DEF part, t, first, last, b

\* What is appended is what is behind the old end.
LEMMA Appended ==
    ASSUME NEW T, NEW s \in Seq(T), NEW t \in Seq(T)
    PROVE  SubSeq(s \o t, Len(s) + 1, Len(s \o t)) = t
  <1> DEFINE u == s \o t
             v == SubSeq(u, Len(s) + 1, Len(u))
  <1>1. /\ Len(s) \in Nat /\ Len(t) \in Nat /\ u \in Seq(T) /\ Len(u) = Len(s) + Len(t)
        /\ \A i \in 1 .. Len(t) : u[Len(s) + i] = t[i]
    OBVIOUS
  <1>2. \A i \in Len(s) + 1 .. Len(u) : u[i] \in T
    <2> HIDE DEF u
    <2> QED BY <1>1
  <1> HIDE DEF u
  <1>3. /\ v \in Seq(T) /\ Len(v) = Len(t)
        /\ \A i \in 1 .. Len(t) : v[i] = u[Len(s) + 1 + i - 1]
    <2>1. /\ v \in Seq(T)
          /\ Len(v) = IF Len(s) + 1 <= Len(u) THEN Len(u) - (Len(s) + 1) + 1 ELSE 0
          /\ \A i \in 1 .. Len(u) - (Len(s) + 1) + 1 : v[i] = u[Len(s) + 1 + i - 1]
      BY <1>1, <1>2, SubSeqProperties
    <2>2. Len(u) - (Len(s) + 1) + 1 = Len(t)
      BY <1>1
    <2> HIDE DEF v
    <2> QED BY <1>1, <2>1, <2>2
  <1>4. \A i \in 1 .. Len(t) : v[i] = t[i]
    <2> TAKE i \in 1 .. Len(t)
    <2>1. Len(s) + 1 + i - 1 = Len(s) + i
      BY <1>1
    <2> HIDE DEF v
    <2> QED BY <1>1, <1>3, <2>1
  <1> HIDE DEF v
  <1>5. v = t
    BY <1>3, <1>4, SeqEqual
  <1> QED BY <1>5 DEF u, v

LEMMA DotQuoteSearches ==
    ASSUME InputInv, DotQuote
    PROVE  LET p == Consumed(inputPtr)
               r == Consumed(inputPtr')
               quotes == {q \in p + 1 .. Len(Words(input)) : Words(input)[q] = Go!Quote}
               text == SubSeq(stdout', Len(stdout) + 1, Len(stdout'))
           IN  CASE status' = "crash" -> p = Len(Words(input))
                 [] status' = "fatal" -> quotes = {}
                 [] OTHER -> /\ Go!First(r, quotes)
                             /\ compileMode \/ Words(text) \in
                                  {SubSeq(Words(input), q, r - 1) : q \in {p + 1, p + 2}}
  <1>1. inputPtr \in 0 .. Len(input) /\ Go!Quote \in Single /\ stdout \in Seq(DOMAIN Upper)
    BY Singles DEF InputInv
  <1>2. CASE AtTheEnd
    BY <1>1, <1>2, ConsumedIs DEF AtTheEnd
  <1>3. CASE Unterminated
    <2>1. status' = "fatal" /\ \A q \in inputPtr + 1 .. Len(input) : input[q] # Go!Quote
      BY <1>3 DEF Unterminated
    <2>2. \A i \in Consumed(inputPtr) + 1 .. Len(Words(input)) : Words(input)[i] # Go!Quote
      BY <1>1, <2>1, SearchFails
    <2> QED BY <2>1, <2>2
  <1>4. CASE Terminated
    <2> DEFINE e == inputPtr'
    <2>1. /\ status' = "running" /\ e \in inputPtr + 2 .. Len(input)
          /\ input[inputPtr + 1] \in Whitespace /\ input[e] = Go!Quote
          /\ \A q \in inputPtr + 1 .. e - 1 : input[q] # Go!Quote
          /\ stdout' = IF compileMode THEN stdout ELSE stdout \o Texted(e)
      BY <1>4 DEF Terminated
    <2>2. /\ e \in Starts(input)
          /\ Go!First(Consumed(e), {q \in Consumed(inputPtr) + 1 .. Len(Words(input)) :
                                       Words(input)[q] = Go!Quote})
      <3>1. e \in inputPtr + 1 .. Len(input)
        BY <2>1, InputIs
      <3> HIDE DEF e
      <3> QED BY <1>1, <2>1, <3>1, SearchFinds
    <2>3. Words(Texted(e)) = SubSeq(Words(input), Consumed(inputPtr + 1) + 1, Consumed(e) - 1)
      <3> HIDE DEF e
      <3> QED BY <2>1, <2>2, TextWords
    <2>4. Consumed(inputPtr + 1) + 1 \in {Consumed(inputPtr) + 1, Consumed(inputPtr) + 2}
      <3>1. \/ Count(input, inputPtr + 1) = Count(input, inputPtr) + 1
            \/ Count(input, inputPtr + 1) = Count(input, inputPtr)
        BY InputIs, CountSteps
      <3>2. Consumed(inputPtr) \in Nat
        BY <1>1, ConsumedIs
      <3> QED BY <3>1, <3>2 DEF Consumed
    <2>5. ~ compileMode => SubSeq(stdout', Len(stdout) + 1, Len(stdout')) = Texted(e)
      <3>1. Texted(e) \in Seq(DOMAIN Upper)
        <4> HIDE DEF e
        <4> QED BY <2>1, TextIs
      <3> QED BY <1>1, <2>1, <3>1, Appended
    <2> HIDE DEF e
    <2>6. compileMode \/ Words(SubSeq(stdout', Len(stdout) + 1, Len(stdout'))) \in
              {SubSeq(Words(input), q, Consumed(e) - 1) :
                  q \in {Consumed(inputPtr) + 1, Consumed(inputPtr) + 2}}
      BY <2>3, <2>4, <2>5
    <2> QED BY <2>1, <2>2, <2>6 DEF e
  <1> QED BY <1>2, <1>3, <1>4, Searched

\* On every text: comments and texts end at the word GoReading says, and what is
\* written is what lies between.
THEOREM WordsAreSearched == Spec => SearchesWords
  <1>1. InputInv =>
            [LET p == Consumed(inputPtr)
                 r == Consumed(inputPtr')
                 quotes == {q \in p + 1 .. Len(Words(input)) : Words(input)[q] = Go!Quote}
                 text == SubSeq(stdout', Len(stdout) + 1, Len(stdout'))
             IN  /\ \A c \in {Go!NL, ")"} : Comment(c) => Go!SkipsTo(c, p, r)
                 /\ DotQuote =>
                      CASE status' = "crash" -> p = Len(Words(input))
                        [] status' = "fatal" -> quotes = {}
                        [] OTHER -> /\ Go!First(r, quotes)
                                    /\ compileMode \/ Words(text) \in
                                         {SubSeq(Words(input), q, r - 1) : q \in {p + 1, p + 2}}]_inputVars
    BY CommentSearches, DotQuoteSearches
  <1> QED BY <1>1, InputInvariant, PTL DEF SearchesWords
=============================================================================
