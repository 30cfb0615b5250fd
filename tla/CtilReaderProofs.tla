-------------------------- MODULE CtilReaderProofs --------------------------
(***************************************************************************)
(* What the loops over fgetc leave behind is what CtilInput reads off the  *)
(* whole input, for every text and every size of the buffer.               *)
(***************************************************************************)
EXTENDS CtilReader, WellFoundedInduction, SequenceTheorems, TLAPS

Functions == {"get_word"} \cup DOMAIN Closers

-----------------------------------------------------------------------------
(* What is known while a function reads.                                   *)

\* How many of the characters belong to what has been read: all, but for c.
Before == IF c = EOF THEN pos ELSE pos - 1

Positions ==
    /\ stream \in Texts
    /\ pos \in 0 .. Len(stream) /\ start \in 0 .. pos
    /\ function \in Functions \cup {"none"}
    /\ skipping \in BOOLEAN
    /\ function # "none" => \/ c = EOF /\ pos = Len(stream)
                            \/ c # EOF /\ pos > start /\ c = stream[pos]

\* get_word has passed over blanks only.
Skipping ==
    function = "get_word" /\ skipping =>
        /\ out = <<>> /\ c \in Blanks
        /\ \A i \in start + 1 .. pos : stream[i] \in Blanks

\* get_word has the first characters of the word in out.
InWord ==
    function = "get_word" /\ ~ skipping =>
        /\ out \in Seq({Upper[x] : x \in DOMAIN Upper})
        /\ Len(out) <= BufSize - 1 /\ Len(out) <= Before - start
        /\ \A i \in start + 1 .. Before - Len(out) : stream[i] \in Blanks
        /\ \A i \in 1 .. Len(out) : /\ stream[Before - Len(out) + i] \notin Blanks
                                    /\ out[i] = Upper[stream[Before - Len(out) + i]]
        /\ out = <<>> => c \notin Blanks

\* The others have not seen the closing character, and ." has what fits.
InText ==
    function \in DOMAIN Closers =>
        /\ \A i \in start + 1 .. Before : stream[i] # Closers[function]
        /\ function = "dotQuote" =>
              /\ out \in Seq(DOMAIN Upper)
              /\ Len(out) = IF Before - start < 4 * BufSize THEN Before - start ELSE 4 * BufSize - 1
              /\ \A i \in 1 .. Len(out) : out[i] = stream[start + i]

ReaderInv == Positions /\ Skipping /\ InWord /\ InText

-----------------------------------------------------------------------------
(* Facts about the operators.                                              *)

LEMMA Constants == /\ BufSize \in Nat /\ BufSize >= 2
                   /\ EOF \notin Blanks /\ EOF \notin DOMAIN Upper
  BY CtilInputAssumption, ReaderAssumption DEF EOF, Blanks

LEMMA StreamIs ==
    ASSUME stream \in Texts
    PROVE  /\ stream \in Seq(DOMAIN Upper) /\ Len(stream) \in Nat
           /\ \A i \in 1 .. Len(stream) : stream[i] \in DOMAIN Upper /\ stream[i] # EOF
  BY ReaderAssumption

LEMMA ClosersAre ==
    /\ DOMAIN Closers = {"backslash", "paren", "dotQuote"}
    /\ "get_word" \notin DOMAIN Closers /\ "none" \notin DOMAIN Closers
    /\ Closers["dotQuote"] = Quote /\ \A f \in DOMAIN Closers : Closers[f] # EOF
  <1>1. /\ DOMAIN Closers = {"backslash", "paren", "dotQuote"}
        /\ Closers["dotQuote"] = Quote
    BY DEF Closers
  <1>2. Closers["backslash"] # EOF /\ Closers["paren"] # EOF /\ Quote # EOF
    BY Zenon DEF Closers, EOF, Quote
  <1> QED BY <1>1, <1>2

\* Every set of natural numbers that is not empty has a least element.
LEMMA LeastExists ==
    ASSUME NEW S \in SUBSET Nat, S # {}
    PROVE  \E q \in S : \A r \in S : q <= r
  <1> DEFINE Below == OpToRel(<, Nat)
  <1>1. \A x, y \in Nat : <<x, y>> \in Below <=> x < y
    BY DEF OpToRel
  <1>2. PICK q \in S : \A r \in S : ~ (<<r, q>> \in Below)
    <2> HIDE DEF Below
    <2>1. IsWellFoundedOn(Below, Nat)
      BY NatLessThanWellFounded DEF Below
    <2> QED BY <2>1, WFMin
  <1> HIDE DEF Below
  <1>3. \A r \in S : q <= r
    <2> TAKE r \in S
    <2>1. q \in Nat /\ r \in Nat /\ ~ (r < q)
      BY <1>1, <1>2
    <2> QED BY <2>1
  <1> QED BY <1>3

\* The least element of a set, or nothing.
LEMMA FirstIsLeast ==
    ASSUME NEW S \in SUBSET Int, NEW q \in S, \A r \in S : q <= r, NEW else
    PROVE  FirstOf(S, else) = q
  <1> DEFINE least == CHOOSE x \in S : \A r \in S : x <= r
  <1>1. least \in S /\ \A r \in S : least <= r
    OBVIOUS
  <1>2. least = q
    <2> HIDE DEF least
    <2> QED BY <1>1
  <1> QED BY <1>2 DEF FirstOf

LEMMA FirstOfNone == \A else : FirstOf({}, else) = else
  BY DEF FirstOf

\* A call of fgetc: the characters before it belong to what has been read.
LEMMA FgetcReads ==
    ASSUME stream \in Texts, pos \in 0 .. Len(stream), Fgetc, UNCHANGED stream
    PROVE  /\ Before' = pos /\ pos' \in 0 .. Len(stream) /\ pos' >= pos
           /\ \/ c' = EOF /\ pos' = Len(stream)
              \/ c' # EOF /\ pos' = pos + 1 /\ c' = stream[pos']
  <1>1. CASE pos < Len(stream)
    <2>1. stream[pos + 1] # EOF
      BY <1>1, Constants, StreamIs
    <2> QED BY <1>1, <2>1 DEF Fgetc, Before
  <1>2. CASE pos = Len(stream)
    BY <1>2 DEF Fgetc, Before
  <1> QED BY <1>1, <1>2, Constants

-----------------------------------------------------------------------------
(* The invariant is kept.                                                  *)

LEMMA InvInit == Init => ReaderInv
  <1> SUFFICES ASSUME Init PROVE ReaderInv
    OBVIOUS
  <1>1. stream \in Texts /\ pos = 0 /\ start = 0 /\ function = "none" /\ skipping = FALSE
    BY Zenon DEF Init
  <1>2. function # "get_word" /\ function \notin DOMAIN Closers
    BY <1>1, ClosersAre
  <1>3. Positions
    <2>1. skipping \in BOOLEAN
      BY <1>1, Zenon
    <2>2. Len(stream) \in Nat
      BY <1>1, StreamIs
    <2> QED BY <1>1, <2>1, <2>2 DEF Positions
  <1>4. Skipping /\ InWord /\ InText
    BY <1>2, Zenon DEF Skipping, InWord, InText
  <1> QED BY <1>3, <1>4 DEF ReaderInv

LEMMA CallsInv ==
    ASSUME ReaderInv, NEW f \in Functions, Calls(f)
    PROVE  ReaderInv'
  <1>1. /\ stream \in Texts /\ pos \in 0 .. Len(stream) /\ UNCHANGED stream
        /\ function' = f /\ start' = pos /\ out' = <<>>
        /\ skipping' \in BOOLEAN /\ (skipping' <=> f = "get_word" /\ c' \in Blanks)
    BY DEF ReaderInv, Positions, Calls
  <1>2. /\ Before' = pos /\ pos' \in 0 .. Len(stream) /\ pos' >= pos
        /\ \/ c' = EOF /\ pos' = Len(stream)
           \/ c' # EOF /\ pos' = pos + 1 /\ c' = stream[pos']
    BY <1>1, FgetcReads DEF Calls
  <1>3. Positions'
    BY <1>1, <1>2, Constants, StreamIs DEF Positions
  <1>4. Skipping'
    BY <1>1, <1>2, Constants, StreamIs DEF Skipping
  <1>5. InWord'
    BY <1>1, <1>2, Constants DEF InWord
  <1>6. InText'
    BY <1>1, <1>2, Constants, ClosersAre, StreamIs DEF InText
  <1> QED BY <1>3, <1>4, <1>5, <1>6 DEF ReaderInv

LEMMA SkipsInv == ReaderInv /\ Skips => ReaderInv'
  <1> SUFFICES ASSUME ReaderInv, Skips PROVE ReaderInv'
    OBVIOUS
  <1>1. /\ stream \in Texts /\ pos \in 0 .. Len(stream) /\ start \in 0 .. pos
        /\ UNCHANGED <<stream, function, start, out>>
        /\ function = "get_word"
        /\ out = <<>> /\ \A i \in start + 1 .. pos : stream[i] \in Blanks
    BY DEF ReaderInv, Positions, Skipping, Skips
  <1>1a. skipping' \in BOOLEAN /\ (skipping' <=> c' \in Blanks)
    <2>1. skipping' = (c' \in Blanks)
      BY Zenon DEF Skips
    <2>2. CASE c' \in Blanks
      <3>1. skipping' = TRUE
        BY <2>1, <2>2, Zenon
      <3> QED BY <2>2, <3>1
    <2>3. CASE c' \notin Blanks
      <3>1. (c' \in Blanks) = FALSE
        BY <2>3
      <3> QED BY <2>1, <2>3, <3>1
    <2> QED BY <2>2, <2>3
  <1>2. /\ Before' = pos /\ pos' \in 0 .. Len(stream) /\ pos' >= pos
        /\ \/ c' = EOF /\ pos' = Len(stream)
           \/ c' # EOF /\ pos' = pos + 1 /\ c' = stream[pos']
    BY <1>1, FgetcReads DEF Skips
  <1>2a. c # EOF /\ pos > start
    BY Constants DEF ReaderInv, Positions, Skipping, Skips
  <1>3. Positions'
    BY <1>1, <1>1a, <1>2, <1>2a, Constants, StreamIs DEF Positions, Functions
  <1>4. Skipping'
    BY <1>1, <1>1a, <1>2, Constants, StreamIs DEF Skipping
  <1>5. InWord'
    BY <1>1, <1>1a, <1>2, Constants DEF InWord
  <1>6. InText'
    BY <1>1, ClosersAre DEF InText
  <1> QED BY <1>3, <1>4, <1>5, <1>6 DEF ReaderInv

LEMMA KeepsInv == ReaderInv /\ Keeps => ReaderInv'
  <1> SUFFICES ASSUME ReaderInv, Keeps PROVE ReaderInv'
    OBVIOUS
  <1>1. /\ stream \in Texts /\ pos \in 0 .. Len(stream) /\ start \in 0 .. pos
        /\ UNCHANGED <<stream, function, start, skipping>> /\ skipping \in BOOLEAN
        /\ function = "get_word" /\ ~ skipping /\ out' = Append(out, Upper[c])
    BY DEF ReaderInv, Positions, Keeps
  <1>2. c \notin Blanks /\ c # EOF /\ Len(out) < BufSize - 1
    <2>1. Len(out) \in Nat
      BY <1>1 DEF ReaderInv, InWord
    <2> QED BY <1>1, <2>1, Constants, ClosersAre DEF Keeps, Ended
  <1>3. pos > start /\ c = stream[pos] /\ Before = pos - 1 /\ c \in DOMAIN Upper
    BY <1>1, <1>2, Constants, StreamIs DEF ReaderInv, Positions, Before
  <1>4. /\ Before' = pos /\ pos' \in 0 .. Len(stream) /\ pos' >= pos
        /\ \/ c' = EOF /\ pos' = Len(stream)
           \/ c' # EOF /\ pos' = pos + 1 /\ c' = stream[pos']
    BY <1>1, FgetcReads DEF Keeps
  <1>5. Positions'
    BY <1>1, <1>3, <1>4, Constants, StreamIs DEF Positions, Functions
  <1>6. Skipping'
    BY <1>1 DEF Skipping
  <1>7. InWord'
    <2>1. /\ out \in Seq({Upper[x] : x \in DOMAIN Upper})
          /\ Len(out) <= Before - start
          /\ \A i \in start + 1 .. Before - Len(out) : stream[i] \in Blanks
          /\ \A i \in 1 .. Len(out) : /\ stream[Before - Len(out) + i] \notin Blanks
                                      /\ out[i] = Upper[stream[Before - Len(out) + i]]
      BY <1>1 DEF ReaderInv, InWord
    <2>2. /\ out' \in Seq({Upper[x] : x \in DOMAIN Upper})
          /\ Len(out') = Len(out) + 1 /\ Len(out) \in Nat
          /\ \A i \in 1 .. Len(out) : out'[i] = out[i]
          /\ out'[Len(out) + 1] = Upper[c]
      BY <1>1, <1>3, <2>1
    <2>3. Before' - Len(out') = Before - Len(out) /\ out' # <<>>
      <3>1. Before' - Len(out') = Before - Len(out)
        BY <1>1, <1>3, <1>4, <2>2
      <3>2. Len(out') # 0
        BY <2>2
      <3> QED BY <3>1, <3>2
    <2>4. ASSUME NEW i \in 1 .. Len(out')
          PROVE  /\ stream[Before - Len(out) + i] \notin Blanks
                 /\ out'[i] = Upper[stream[Before - Len(out) + i]]
      <3>1. CASE i \in 1 .. Len(out)
        BY <3>1, <2>1, <2>2
      <3>2. CASE i = Len(out) + 1
        <4>1. Before - Len(out) + i = pos
          BY <1>1, <1>3, <2>2, <3>2
        <4> QED BY <4>1, <1>2, <1>3, <2>2, <3>2
      <3> QED BY <3>1, <3>2, <2>2
    <2>5. Len(out') <= BufSize - 1 /\ Len(out') <= Before' - start
      BY <1>1, <1>2, <1>3, <1>4, <2>1, <2>2, Constants
    <2> QED BY <1>1, <2>1, <2>2, <2>3, <2>4, <2>5 DEF InWord
  <1>8. InText'
    BY <1>1, ClosersAre DEF InText
  <1> QED BY <1>5, <1>6, <1>7, <1>8 DEF ReaderInv

LEMMA ReadsOnInv == ReaderInv /\ ReadsOn => ReaderInv'
  <1> SUFFICES ASSUME ReaderInv, ReadsOn PROVE ReaderInv'
    OBVIOUS
  <1>1. /\ stream \in Texts /\ pos \in 0 .. Len(stream) /\ start \in 0 .. pos
        /\ UNCHANGED <<stream, function, start, skipping>> /\ skipping \in BOOLEAN
        /\ function \in DOMAIN Closers /\ function # "get_word" /\ function \in Functions
    BY ClosersAre DEF ReaderInv, Positions, ReadsOn
  <1>2. c # EOF /\ c # Closers[function]
    BY <1>1, ClosersAre DEF ReadsOn, Ended
  <1>3. pos > start /\ c = stream[pos] /\ Before = pos - 1 /\ c \in DOMAIN Upper
    BY <1>1, <1>2, ClosersAre, Constants, StreamIs DEF ReaderInv, Positions, Before
  <1>4. /\ Before' = pos /\ pos' \in 0 .. Len(stream) /\ pos' >= pos
        /\ \/ c' = EOF /\ pos' = Len(stream)
           \/ c' # EOF /\ pos' = pos + 1 /\ c' = stream[pos']
    BY <1>1, FgetcReads DEF ReadsOn
  <1>5. Positions'
    BY <1>1, <1>3, <1>4, Constants, StreamIs DEF Positions
  <1>6. Skipping' /\ InWord'
    BY <1>1 DEF Skipping, InWord
  <1>7. InText'
    <2>1. \A i \in start + 1 .. Before' : stream[i] # Closers[function]
      BY <1>1, <1>2, <1>3, <1>4, StreamIs DEF ReaderInv, InText
    <2>2. ASSUME function = "dotQuote"
          PROVE  /\ out' \in Seq(DOMAIN Upper)
                 /\ Len(out') = IF Before' - start < 4 * BufSize THEN Before' - start
                                                               ELSE 4 * BufSize - 1
                 /\ \A i \in 1 .. Len(out') : out'[i] = stream[start + i]
      <3>1. /\ out \in Seq(DOMAIN Upper) /\ Len(out) \in Nat
            /\ Len(out) = IF Before - start < 4 * BufSize THEN Before - start
                                                         ELSE 4 * BufSize - 1
            /\ \A i \in 1 .. Len(out) : out[i] = stream[start + i]
        BY <1>1, <2>2 DEF ReaderInv, InText
      <3>2. CASE Len(out) < 4 * BufSize - 1 /\ out' = Append(out, c)
        <4>1. /\ out' \in Seq(DOMAIN Upper) /\ Len(out') = Len(out) + 1
              /\ \A i \in 1 .. Len(out) : out'[i] = out[i]
              /\ out'[Len(out) + 1] = c
          BY <1>3, <3>1, <3>2
        <4>2. Len(out) = Before - start /\ start + Len(out) + 1 = pos
          BY <1>1, <1>3, <3>1, <3>2, Constants
        <4>3. \A i \in 1 .. Len(out') : out'[i] = stream[start + i]
          BY <1>1, <1>3, <3>1, <4>1, <4>2
        <4> QED BY <1>1, <1>3, <1>4, <3>2, <4>1, <4>2, <4>3, Constants
      <3>3. CASE ~ (Len(out) < 4 * BufSize - 1) /\ UNCHANGED out
        <4>1. Before \in Nat /\ Before' = Before + 1 /\ Before - start >= 0
          BY <1>1, <1>3, <1>4
        <4>2. 4 * BufSize \in Nat /\ Len(out) = 4 * BufSize - 1
          BY <1>1, <3>1, <3>3, <4>1, Constants
        <4>3. ~ (Before' - start < 4 * BufSize)
          BY <1>1, <3>1, <4>1, <4>2, Constants
        <4> QED BY <3>1, <3>3, <4>2, <4>3
      <3> QED BY <2>2, <3>2, <3>3 DEF ReadsOn
    <2> QED BY <1>1, <2>1, <2>2 DEF InText
  <1> QED BY <1>5, <1>6, <1>7 DEF ReaderInv

LEMMA ReturnsInv == ReaderInv /\ Returns => ReaderInv'
  BY ClosersAre DEF ReaderInv, Positions, Skipping, InWord, InText, Returns

LEMMA InvNext == ReaderInv /\ [Next]_readerVars => ReaderInv'
  <1> SUFFICES ASSUME ReaderInv, [Next]_readerVars PROVE ReaderInv'
    OBVIOUS
  <1>1. CASE Step
    BY <1>1, SkipsInv, KeepsInv, ReadsOnInv, ReturnsInv DEF Step
  <1>2. CASE \E f \in {"get_word"} \cup DOMAIN Closers : Calls(f)
    BY <1>2, CallsInv DEF Functions
  <1>3. CASE UNCHANGED readerVars
    BY <1>3 DEF readerVars, ReaderInv, Positions, Skipping, InWord, InText, Before
  <1> QED BY <1>1, <1>2, <1>3 DEF Next, AtEOF

-----------------------------------------------------------------------------
(* What has been read when a function ends.                                *)

\* The word that get_word has in its buffer is the one that CtilInput reads.
LEMMA WordIsRead ==
    ASSUME ReaderInv, Ended, function = "get_word"
    PROVE  out = InUpperCase(GetWord(stream, start)) /\ pos = AfterWord(stream, start)
  <1> DEFINE w == Before - Len(out) + 1
             first == {q \in start + 1 .. Len(stream) : stream[q] \notin Blanks}
             blanks == {q \in w .. Len(stream) : stream[q] \in Blanks}
             blank == FirstOf(blanks, Len(stream) + 1)
  <1>1. /\ stream \in Texts /\ Len(stream) \in Nat
        /\ pos \in 0 .. Len(stream) /\ start \in 0 .. pos
        /\ \/ c = EOF /\ pos = Len(stream)
           \/ c # EOF /\ pos > start /\ c = stream[pos]
    BY StreamIs DEF ReaderInv, Positions
  <1>2. ~ skipping /\ (c \in Blanks \cup {EOF} \/ Len(out) >= BufSize - 1)
    BY ClosersAre DEF Ended
  <1>3. /\ out \in Seq({Upper[x] : x \in DOMAIN Upper}) /\ Len(out) \in Nat
        /\ Len(out) <= BufSize - 1 /\ Len(out) <= Before - start
        /\ \A i \in start + 1 .. Before - Len(out) : stream[i] \in Blanks
        /\ \A i \in 1 .. Len(out) : /\ stream[Before - Len(out) + i] \notin Blanks
                                    /\ out[i] = Upper[stream[Before - Len(out) + i]]
        /\ Len(out) = 0 => c \notin Blanks
    BY <1>2 DEF ReaderInv, InWord
  <1>4. /\ Before \in Nat /\ Before <= Len(stream) /\ w \in start + 1 .. Len(stream) + 1
        /\ c = EOF => Before = pos
        /\ c # EOF => Before = pos - 1
    BY <1>1, <1>3 DEF Before
  <1>5. \A i \in w .. Before : stream[i] \notin Blanks
    <2>1. \A i \in w .. Before : i - w + 1 \in 1 .. Len(out) /\ Before - Len(out) + (i - w + 1) = i
      BY <1>1, <1>3, <1>4
    <2> QED BY <2>1, <1>3
  <1>6. WordStart(stream, start) = w
    <2>1. CASE Len(out) > 0
      <3>1. w \in first /\ first \subseteq Int
        BY <1>1, <1>3, <1>4, <1>5, <2>1
      <3>2. \A r \in first : w <= r
        BY <1>1, <1>3, <1>4
      <3> HIDE DEF w, first
      <3>3. FirstOf(first, Len(stream) + 1) = w
        BY <3>1, <3>2, FirstIsLeast
      <3> QED BY <3>3 DEF WordStart, first
    <2>2. CASE Len(out) = 0
      <3>1. c = EOF
        BY <1>2, <1>3, <2>2, Constants
      <3>2. first = {} /\ w = Len(stream) + 1
        BY <1>1, <1>3, <1>4, <2>2, <3>1
      <3> HIDE DEF w, first
      <3>3. FirstOf(first, Len(stream) + 1) = w
        BY <3>2, FirstOfNone
      <3> QED BY <3>3 DEF WordStart, first
    <2> QED BY <2>1, <2>2, <1>3
  <1>7. WordEnd(stream, start) = IF blank - w < BufSize THEN blank - 1 ELSE w + BufSize - 2
    <2> HIDE DEF w
    <2> QED BY <1>6 DEF WordEnd, blank, blanks
  <1>8. WordEnd(stream, start) = Before /\ pos = AfterWord(stream, start)
    <2>1. CASE c = EOF
      <3>1. blanks = {}
        BY <1>1, <1>4, <1>5, <2>1
      <3>2. blank = Len(stream) + 1
        <4> HIDE DEF blanks
        <4> QED BY <3>1, FirstOfNone
      <3>3. WordEnd(stream, start) = Before
        <4> HIDE DEF blank
        <4> QED BY <1>1, <1>3, <1>4, <1>7, <2>1, <3>2, Constants
      <3> QED BY <1>1, <1>4, <2>1, <3>3 DEF AfterWord
    <2>2. CASE c # EOF /\ c \in Blanks
      <3>1. pos \in blanks /\ blanks \subseteq Int /\ \A r \in blanks : pos <= r
        BY <1>1, <1>3, <1>4, <1>5, <2>2
      <3>2. blank = pos
        <4> HIDE DEF blanks
        <4> QED BY <3>1, FirstIsLeast
      <3>3. WordEnd(stream, start) = Before
        <4> HIDE DEF blank
        <4> QED BY <1>1, <1>3, <1>4, <1>7, <2>2, <3>2, Constants
      <3> QED BY <1>1, <1>4, <2>2, <3>3 DEF AfterWord
    <2>3. CASE c # EOF /\ c \notin Blanks
      <3>1. Len(out) = BufSize - 1
        BY <1>2, <1>3, <2>3, Constants
      <3>2. \A r \in blanks : r > pos
        BY <1>1, <1>3, <1>4, <1>5, <2>3
      <3>3. blank \in Int /\ blank > pos
        <4>1. CASE blanks = {}
          <5> HIDE DEF blanks
          <5> QED BY <1>1, <4>1, FirstOfNone
        <4>2. CASE blanks # {}
          <5>1. blanks \in SUBSET Nat
            BY <1>1, <1>4
          <5> HIDE DEF blanks
          <5>2. PICK q \in blanks : \A r \in blanks : q <= r
            BY <4>2, <5>1, LeastExists
          <5>3. blank = q
            BY <5>1, <5>2, FirstIsLeast
          <5> QED BY <5>1, <5>3, <3>2
        <4> QED BY <4>1, <4>2
      <3>4. WordEnd(stream, start) = Before
        <4> HIDE DEF blank
        <4> QED BY <1>1, <1>3, <1>4, <1>7, <2>3, <3>1, <3>3, Constants
      <3> QED BY <1>1, <1>4, <2>3, <3>4 DEF AfterWord
    <2> QED BY <2>1, <2>2, <2>3
  <1>9. out = InUpperCase(GetWord(stream, start))
    <2>1. \A i \in w .. Before : stream[i] \in DOMAIN Upper
      BY <1>1, <1>4, StreamIs
    <2>2. GetWord(stream, start) = SubSeq(stream, w, Before)
      <3> HIDE DEF w
      <3> QED BY <1>6, <1>8 DEF GetWord
    <2> DEFINE word == SubSeq(stream, w, Before)
    <2>3. w \in Int /\ Before \in Int /\ Before - w + 1 = Len(out)
      BY <1>3, <1>4
    <2>4. /\ word \in Seq(DOMAIN Upper) /\ Len(word) = Len(out)
          /\ \A i \in 1 .. Len(out) : word[i] = stream[w + i - 1]
      <3>1. Len(out) = IF w <= Before THEN Before - w + 1 ELSE 0
        BY <1>3, <2>3
      <3> HIDE DEF w
      <3> QED BY <2>1, <2>3, <3>1, SubSeqProperties
    <2>5. \A i \in 1 .. Len(out) : out[i] = Upper[word[i]]
      <3>1. \A i \in 1 .. Len(out) : w + i - 1 = Before - Len(out) + i
        BY <1>3, <1>4
      <3> HIDE DEF w, word
      <3> QED BY <1>3, <2>4, <3>1
    <2> HIDE DEF word
    <2>6. DOMAIN word = 1 .. Len(out) /\ DOMAIN out = 1 .. Len(out)
      BY <1>3, <2>4
    <2>7. out = [i \in 1 .. Len(out) |-> Upper[word[i]]]
      BY <1>3, <2>5, <2>6
    <2> QED BY <2>2, <2>6, <2>7 DEF InUpperCase, word
  <1> QED BY <1>8, <1>9

\* \ ( and ." have read what CtilInput says, and ." has kept it.
LEMMA TextIsRead ==
    ASSUME ReaderInv, Ended, function # "get_word",
           NEW close, close = Closing(stream, start, Closers[function])
    PROVE  /\ pos = IF close = 0 THEN Len(stream) ELSE close
           /\ c = EOF <=> close = 0
           /\ function = "dotQuote" /\ close # 0 => out = TextFrom(stream, start)
  <1> DEFINE closers == {q \in start + 1 .. Len(stream) : stream[q] = Closers[function]}
  <1>1. function \in DOMAIN Closers /\ c \in {EOF, Closers[function]}
    BY Zenon DEF Ended
  <1>2. /\ stream \in Seq(DOMAIN Upper) /\ Len(stream) \in Nat
        /\ \A i \in 1 .. Len(stream) : stream[i] \in DOMAIN Upper
        /\ pos \in 0 .. Len(stream) /\ start \in 0 .. pos
        /\ \/ c = EOF /\ pos = Len(stream)
           \/ c # EOF /\ pos > start /\ c = stream[pos]
    BY <1>1, ClosersAre, StreamIs DEF ReaderInv, Positions
  <1>3. /\ Before \in Nat /\ Before <= Len(stream)
        /\ c = EOF => Before = pos
        /\ c # EOF => Before = pos - 1
    BY <1>2 DEF Before
  <1>4. \A i \in start + 1 .. Before : stream[i] # Closers[function]
    BY <1>1 DEF ReaderInv, InText
  <1>5. CASE c = EOF
    <2>1. closers = {}
      BY <1>2, <1>3, <1>4, <1>5
    <2>2. close = 0
      <3> HIDE DEF closers
      <3> QED BY <2>1, FirstOfNone DEF Closing, closers
    <2> QED BY <1>2, <1>5, <2>2
  <1>6. CASE c # EOF
    <2>1. c = Closers[function]
      BY <1>1, <1>6
    <2>2. pos \in closers /\ closers \in SUBSET Int /\ \A r \in closers : pos <= r
      BY <1>2, <1>3, <1>4, <1>6, <2>1
    <2>3. close = pos
      <3> HIDE DEF closers
      <3>1. FirstOf(closers, 0) = pos
        BY <2>2, FirstIsLeast
      <3> QED BY <3>1 DEF Closing, closers
    <2>4. close # 0
      BY <1>2, <1>6, <2>3
    <2>5. ASSUME function = "dotQuote"
          PROVE  out = TextFrom(stream, start)
      <3>1. /\ out \in Seq(DOMAIN Upper) /\ Len(out) \in Nat
            /\ Len(out) = IF Before - start < 4 * BufSize THEN Before - start
                                                         ELSE 4 * BufSize - 1
            /\ \A i \in 1 .. Len(out) : out[i] = stream[start + i]
        BY <1>1, <2>5 DEF ReaderInv, InText
      <3> DEFINE last == start + Len(out)
      <3>2. TextFrom(stream, start) = SubSeq(stream, start + 1, last)
        <4>1. Closing(stream, start, Quote) = pos
          BY <2>3, <2>5, ClosersAre
        <4>2. (IF pos - 1 - start < 4 * BufSize THEN pos - 1 ELSE start + 4 * BufSize - 1) = last
          BY <1>2, <1>3, <1>6, <3>1, Constants
        <4> QED BY <4>1, <4>2 DEF TextFrom
      <3> DEFINE text == SubSeq(stream, start + 1, last)
      <3>3. last \in Int /\ start + 1 \in Int /\ last <= Before /\ last - (start + 1) + 1 = Len(out)
        BY <1>2, <1>3, <1>6, <3>1, Constants
      <3>4. \A i \in start + 1 .. last : stream[i] \in DOMAIN Upper
        BY <1>2, <1>3, <3>3
      <3>5. /\ text \in Seq(DOMAIN Upper) /\ Len(text) = Len(out)
            /\ \A i \in 1 .. Len(out) : text[i] = stream[start + 1 + i - 1]
        <4>1. Len(out) = IF start + 1 <= last THEN last - (start + 1) + 1 ELSE 0
          BY <1>2, <3>1, <3>3
        <4> HIDE DEF last
        <4> QED BY <3>3, <3>4, <4>1, SubSeqProperties
      <3>6. \A i \in 1 .. Len(out) : out[i] = text[i]
        <4>1. \A i \in 1 .. Len(out) : start + 1 + i - 1 = start + i
          BY <1>2, <3>1
        <4> HIDE DEF text
        <4> QED BY <3>1, <3>5, <4>1
      <3>7. out = text
        <4> HIDE DEF text
        <4> QED BY <3>1, <3>5, <3>6
      <3> QED BY <3>2, <3>7
    <2> QED BY <1>6, <2>3, <2>4, <2>5
  <1> QED BY <1>5, <1>6

LEMMA InvSuffices == ReaderInv => LeavesWhatInputSays
  <1> SUFFICES ASSUME ReaderInv, Ended PROVE LeavesWhatInputSays
    BY DEF LeavesWhatInputSays
  <1>1. CASE function = "get_word"
    BY <1>1, WordIsRead DEF LeavesWhatInputSays
  <1>2. CASE function # "get_word"
    BY <1>2, TextIsRead DEF LeavesWhatInputSays
  <1> QED BY <1>1, <1>2

\* The loops of get_word, \ ( and ." leave behind, character by character,
\* the word, the text and the position that the interpreter is specified
\* with, whatever the input and the sizes of the buffers are.
THEOREM ReaderAgrees == Spec => []LeavesWhatInputSays
  <1>1. Init => ReaderInv
    BY InvInit
  <1>2. ReaderInv /\ [Next]_readerVars => ReaderInv'
    BY InvNext
  <1>3. ReaderInv => LeavesWhatInputSays
    BY InvSuffices
  <1> QED BY <1>1, <1>2, <1>3, PTL DEF Spec
=============================================================================
