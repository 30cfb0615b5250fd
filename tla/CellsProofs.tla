---------------------------- MODULE CellsProofs ----------------------------
(***************************************************************************)
(* Facts about numbers.  Induction and recursion, stated with sets and     *)
(* functions in the place of predicates and operators; and cells and bytes *)
(* of any width: where the results of the operators of Cells lie, and what *)
(* wrapping around does to a sum.                                          *)
(***************************************************************************)
EXTENDS Cells, WellFoundedInduction, TLAPS

-----------------------------------------------------------------------------
(* Natural numbers.                                                        *)

\* Every set of natural numbers that is not empty has a least element.
LEMMA LeastExists ==
    ASSUME NEW S \in SUBSET Nat, S # {}
    PROVE  \E q \in S : \A r \in S : q <= r
  <1> DEFINE Below == OpToRel(<, Nat)
  <1>1. \A x, y \in Nat : <<x, y>> \in Below <=> x < y
    BY DEF OpToRel
  <1>2. PICK q \in S : \A r \in S : ~ (<<r, q>> \in Below)
    <2> HIDE DEF Below
    <2>1. IsWellFoundedOn(Below, Nat)
      BY NatLessThanWellFounded DEF Below
    <2> QED BY <2>1, WFMin
  <1> HIDE DEF Below
  <1>3. \A r \in S : q <= r
    <2> TAKE r \in S
    <2>1. q \in Nat /\ r \in Nat /\ ~ (r < q)
      BY <1>1, <1>2
    <2> QED BY <2>1
  <1> QED BY <1>3

\* A set that contains 0, and with a number the next one, contains them all.
LEMMA AllNumbers ==
    ASSUME NEW S, 0 \in S, \A n \in Nat : n \in S => n + 1 \in S
    PROVE  \A n \in Nat : n \in S
  <1> SUFFICES ASSUME Nat \ S # {} PROVE FALSE
    OBVIOUS
  <1>1. PICK q \in Nat \ S : \A r \in Nat \ S : q <= r
    BY LeastExists
  <1>2. q # 0 /\ q - 1 \in Nat /\ q - 1 \in S
    BY <1>1
  <1>3. q - 1 + 1 \in S /\ q - 1 + 1 = q
    BY <1>2
  <1> QED BY <1>1, <1>3

\* A step can be repeated any number of times.
LEMMA Repeats ==
    ASSUME NEW W, NEW first \in W, NEW step \in [W -> W]
    PROVE  \E f \in [Nat -> W] : f[0] = first /\ \A n \in Nat : f[n + 1] = step[f[n]]
  <1> DEFINE Start(g, n) == /\ g \in [0 .. n -> W] /\ g[0] = first
                            /\ \A i \in 0 .. n - 1 : g[i + 1] = step[g[i]]
             Long == {n \in Nat : \E g : Start(g, n)}
             Same == {n \in Nat : \A g, h : Start(g, n) /\ Start(h, n) => g = h}
  <1>1. 0 \in Long
    <2>1. Start([i \in 0 .. 0 |-> first], 0)
      OBVIOUS
    <2> QED BY <2>1
  <1>2. ASSUME NEW n \in Nat, n \in Long PROVE n + 1 \in Long
    <2>1. PICK g : Start(g, n)
      BY <1>2
    <2> DEFINE h == [i \in 0 .. n + 1 |-> IF i = n + 1 THEN step[g[n]] ELSE g[i]]
    <2>2. Start(h, n + 1)
      BY <2>1
    <2> QED BY <2>2
  <1>3. \A n \in Nat : n \in Long
    <2> HIDE DEF Long
    <2> QED BY <1>1, <1>2, AllNumbers
  \* A start of n steps is the beginning of every longer one.
  <1>4. ASSUME NEW g, NEW n \in Nat, Start(g, n + 1)
        PROVE  Start([i \in 0 .. n |-> g[i]], n)
    BY <1>4
  <1>5. 0 \in Same
    <2>1. ASSUME NEW g, NEW h, Start(g, 0), Start(h, 0) PROVE g = h
      BY <2>1
    <2> QED BY <2>1
  <1>6. ASSUME NEW n \in Nat, n \in Same PROVE n + 1 \in Same
    <2> SUFFICES ASSUME NEW g, NEW h, Start(g, n + 1), Start(h, n + 1) PROVE g = h
      OBVIOUS
    <2>1. [i \in 0 .. n |-> g[i]] = [i \in 0 .. n |-> h[i]]
      <3>1. Start([i \in 0 .. n |-> g[i]], n) /\ Start([i \in 0 .. n |-> h[i]], n)
        BY <1>4
      <3> HIDE DEF Start
      <3> QED BY <1>6, <3>1
    <2>2. \A i \in 0 .. n : g[i] = h[i]
      BY <2>1
    <2>3. g[n + 1] = h[n + 1]
      BY <2>2
    <2>4. \A i \in 0 .. n + 1 : g[i] = h[i]
      BY <2>2, <2>3
    <2> QED BY <2>4
  <1>7. \A n \in Nat : n \in Same
    <2> HIDE DEF Same
    <2> QED BY <1>5, <1>6, AllNumbers
  <1> DEFINE G(n) == CHOOSE g : Start(g, n)
             f    == [n \in Nat |-> G(n)[n]]
  <1>8. \A n \in Nat : Start(G(n), n)
    <2> HIDE DEF Start
    <2> QED BY <1>3
  <1>9. ASSUME NEW n \in Nat PROVE G(n + 1)[n] = G(n)[n]
    <2>1. Start([i \in 0 .. n |-> G(n + 1)[i]], n) /\ Start(G(n), n)
      <3> HIDE DEF Start, G
      <3> QED BY <1>4, <1>8
    <2>2. [i \in 0 .. n |-> G(n + 1)[i]] = G(n)
      <3> HIDE DEF Start, G
      <3> QED BY <1>7, <2>1
    <2> HIDE DEF G
    <2> QED BY <2>2
  <1>10. f \in [Nat -> W] /\ f[0] = first
    <2>1. \A n \in Nat : G(n)[n] \in W /\ G(0)[0] = first
      <3> HIDE DEF G
      <3> QED BY <1>8
    <2> HIDE DEF G
    <2> QED BY <2>1
  <1>11. ASSUME NEW n \in Nat PROVE f[n + 1] = step[f[n]]
    <2>1. G(n + 1)[n + 1] = step[G(n + 1)[n]]
      <3>1. Start(G(n + 1), n + 1)
        <4> HIDE DEF Start, G
        <4> QED BY <1>8
      <3> HIDE DEF G
      <3> QED BY <3>1
    <2> HIDE DEF G
    <2> QED BY <1>9, <2>1
  <1> HIDE DEF f
  <1> QED BY <1>10, <1>11

-----------------------------------------------------------------------------
(* Cells.                                                                  *)

\* A number of the form b * b, for an even b, is twice a number not below b.
LEMMA EvenSquare ==
    ASSUME NEW b \in Nat, NEW k \in Nat, b = 2 * k, k > 0
    PROVE  /\ b * b = 2 * (k * b)
           /\ k * b \in Nat
           /\ k * b >= b
  OBVIOUS

\* The cells are -h .. h - 1, and every byte is a cell.
LEMMA CellRange ==
    \E h \in Nat : /\ CellBase = 2 * h /\ MinInt = -h /\ MaxInt = h - 1
                   /\ h >= ByteBase /\ ByteBase >= 2
  <1> DEFINE k == ByteBase \div 2
  <1>1. /\ k \in Nat /\ k > 0 /\ ByteBase = 2 * k /\ ByteBase \in Nat
    BY CellsAssumption
  <1>2. /\ CellBase = 2 * (k * ByteBase)
        /\ k * ByteBase \in Nat /\ k * ByteBase >= ByteBase
    <2> HIDE DEF k
    <2> QED BY <1>1, EvenSquare DEF CellBase
  <1>3. ByteBase >= 2
    BY <1>1
  <1> DEFINE h == k * ByteBase
  <1>4. h \in Nat /\ CellBase = 2 * h /\ h >= ByteBase
    BY <1>2
  <1>5. MinInt = -h /\ MaxInt = h - 1
    <2> HIDE DEF h, k
    <2> QED BY <1>4 DEF MinInt, MaxInt
  <1> HIDE DEF h, k
  <1> QED BY <1>3, <1>4, <1>5

\* What is stored is a cell.
LEMMA WrapIsCell == ASSUME NEW n \in Int PROVE Wrap(n) \in Cell
  <1>1. PICK h \in Nat : /\ CellBase = 2 * h /\ MinInt = -h /\ MaxInt = h - 1
                         /\ h >= ByteBase /\ ByteBase >= 2
    BY CellRange
  <1>2. ByteBase \in Nat /\ CellBase \in Nat /\ CellBase > 0
    BY <1>1, CellsAssumption
  <1>3. (n - MinInt) % CellBase \in 0 .. CellBase - 1
    <2> DEFINE m == n - MinInt
    <2>1. m \in Int BY <1>1
    <2> HIDE DEF m
    <2>2. m % CellBase \in 0 .. CellBase - 1 BY <2>1, <1>2
    <2> QED BY <2>2 DEF m
  <1>4. Wrap(n) = ((n - MinInt) % CellBase) + MinInt
    BY DEF Wrap
  <1> DEFINE r == (n - MinInt) % CellBase
  <1> HIDE DEF r
  <1>5. r \in 0 .. CellBase - 1 /\ Wrap(n) = r + MinInt
    BY <1>3, <1>4 DEF r
  <1> QED BY <1>1, <1>2, <1>5 DEF Cell

\* A cell is stored as it is, and a sum that is at most one turn too large
\* comes out one turn smaller.
LEMMA WrapOnce ==
    ASSUME NEW n \in Int, n >= MinInt, n <= MaxInt + CellBase
    PROVE  Wrap(n) = IF n <= MaxInt THEN n ELSE n - CellBase
  <1>1. PICK h \in Nat : /\ CellBase = 2 * h /\ MinInt = -h /\ MaxInt = h - 1
                         /\ h >= ByteBase /\ ByteBase >= 2
    BY CellRange
  <1>2. h > 0
    BY <1>1, CellsAssumption
  <1>3. ASSUME NEW m \in Nat, NEW b \in Nat, b > 0, m < 2 * b
        PROVE  m % b = IF m < b THEN m ELSE m - b
    <2>1. CASE m < b
      BY <1>3, <2>1
    <2>2. CASE m >= b
      <3>1. m = 1 * b + (m - b) BY <1>3
      <3>2. m - b \in 0 .. b - 1 BY <1>3, <2>2
      <3> QED BY <3>1, <3>2, <1>3, <2>2
    <2> QED BY <1>3, <2>1, <2>2
  <1>4. /\ n - MinInt \in Nat /\ n - MinInt < 2 * CellBase
        /\ CellBase \in Nat /\ CellBase > 0
    BY <1>1, <1>2
  <1>5. (n - MinInt) % CellBase =
            IF n - MinInt < CellBase THEN n - MinInt ELSE (n - MinInt) - CellBase
    BY <1>3, <1>4
  <1> QED BY <1>1, <1>2, <1>5 DEF Wrap

\* A cell as an unsigned number, cut into bytes.
LEMMA ByteOfIsByte ==
    ASSUME NEW c \in Cell, NEW i \in Int PROVE ByteOf(c, i) \in Byte
  <1>1. PICK h \in Nat : /\ CellBase = 2 * h /\ MinInt = -h /\ MaxInt = h - 1
                         /\ h >= ByteBase /\ ByteBase >= 2
    BY CellRange
  <1>2. Unsigned(c) \in Nat /\ Unsigned(c) < ByteBase * ByteBase
    <2>1. Unsigned(c) \in Nat /\ Unsigned(c) < CellBase
      BY <1>1 DEF Unsigned, Cell
    <2> QED BY <2>1 DEF CellBase
  <1>3. ASSUME NEW u \in Nat, NEW b \in Nat, b > 0, u < b * b
        PROVE  u % b \in 0 .. b - 1 /\ u \div b \in 0 .. b - 1
    <2>1. u % b \in 0 .. b - 1
      BY <1>3
    <2> DEFINE q == u \div b
    <2>2. q \in Nat /\ u = (b * q) + (u % b)
      BY <1>3
    <2> HIDE DEF q
    <2>3. ~ (q >= b)
      <3> SUFFICES ASSUME q >= b PROVE FALSE OBVIOUS
      <3>1. b * q >= b * b BY <1>3, <2>2
      <3> QED BY <1>3, <2>1, <2>2, <3>1
    <2>4. q \in 0 .. b - 1
      BY <2>2, <2>3
    <2> QED BY <2>1, <2>4 DEF q
  <1>4. ByteBase \in Nat /\ ByteBase > 0
    BY CellsAssumption
  <1> QED BY <1>2, <1>3, <1>4 DEF ByteOf, Byte

\* Two bytes read as one number, and the cell they hold.
LEMMA FromBytesIsCell ==
    ASSUME NEW lo \in Byte, NEW hi \in Byte PROVE FromBytes(lo, hi) \in Cell
  <1>1. PICK h \in Nat : /\ CellBase = 2 * h /\ MinInt = -h /\ MaxInt = h - 1
                         /\ h >= ByteBase /\ ByteBase >= 2
    BY CellRange
  <1>2. ByteBase \in Nat /\ lo \in Nat /\ hi \in Nat
        /\ lo <= ByteBase - 1 /\ hi <= ByteBase - 1
    BY CellsAssumption DEF Byte
  <1>3. hi * ByteBase \in Nat /\ hi * ByteBase <= (ByteBase - 1) * ByteBase
    BY <1>2
  <1>4. (ByteBase - 1) * ByteBase = CellBase - ByteBase
    BY <1>2 DEF CellBase
  <1> DEFINE u == lo + hi * ByteBase
  <1>5. u \in Nat /\ u <= CellBase - 1
    <2>1. CellBase \in Nat BY <1>1
    <2> DEFINE z == hi * ByteBase
    <2>2. z \in Nat /\ z <= CellBase - ByteBase BY <1>3, <1>4
    <2> HIDE DEF z
    <2>3. lo + z \in Nat /\ lo + z <= CellBase - 1 BY <1>2, <2>1, <2>2
    <2> QED BY <2>3 DEF z
  <1> HIDE DEF u
  <1>6. Signed(u) \in Cell
    BY <1>1, <1>5 DEF Signed, Cell
  <1> QED BY <1>6 DEF FromBytes, u

\* A cell that is cut into bytes is read back as it was.
LEMMA CellIsReadBack ==
    ASSUME NEW c \in Cell PROVE FromBytes(ByteOf(c, 0), ByteOf(c, 1)) = c
  <1>1. PICK h \in Nat : /\ CellBase = 2 * h /\ MinInt = -h /\ MaxInt = h - 1
                         /\ h >= ByteBase /\ ByteBase >= 2
    BY CellRange
  <1>2. Unsigned(c) \in Nat /\ Signed(Unsigned(c)) = c
    BY <1>1 DEF Unsigned, Signed, Cell
  <1>3. ASSUME NEW u \in Nat, NEW b \in Nat, b > 0
        PROVE  (u % b) + (u \div b) * b = u
    BY <1>3
  <1>4. ByteBase \in Nat /\ ByteBase > 0
    BY CellsAssumption
  <1>5. ByteOf(c, 0) + ByteOf(c, 1) * ByteBase = Unsigned(c)
    <2>1. (Unsigned(c) % ByteBase) + (Unsigned(c) \div ByteBase) * ByteBase = Unsigned(c)
      BY ONLY <1>2, <1>3, <1>4
    <2>2. ByteOf(c, 0) = Unsigned(c) % ByteBase /\ ByteOf(c, 1) = Unsigned(c) \div ByteBase
      BY DEF ByteOf
    <2> QED BY <2>1, <2>2
  <1> QED BY <1>2, <1>5 DEF FromBytes

\* Division truncates to an integer.
LEMMA QuotientIsInt ==
    ASSUME NEW x \in Int, NEW y \in Int, y # 0
    PROVE  Quotient(x, y) \in Int /\ Remainder(x, y) \in Int
  <1> DEFINE q == Magnitude(x) \div Magnitude(y)
  <1>1. q \in Int
    <2>1. /\ Magnitude(x) \in Nat /\ Magnitude(y) \in Nat
          /\ Magnitude(y) > 0
      BY DEF Magnitude
    <2> QED BY <2>1
  <1>2. Quotient(x, y) \in {q, -q}
    BY DEF Quotient
  <1> HIDE DEF q
  <1>3. Quotient(x, y) \in Int
    BY <1>1, <1>2
  <1> QED BY <1>3 DEF Remainder
=============================================================================
