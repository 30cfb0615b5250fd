------------------------ MODULE CtilDictionaryProofs ------------------------
(***************************************************************************)
(* What the dictionary of ctil keeps of the memory it lives in, for every  *)
(* size of memory, every name and any sequence of definitions.             *)
(***************************************************************************)
EXTENDS CtilDictionaryMC, CtilTyped, SequenceTheorems

-----------------------------------------------------------------------------
(* The list of the entries.                                                *)

LengthAt(m, e) == m[e + CellSize + 1]

\* The entry es[i] of d, one of es, is called names[i]; its code follows.
EntryAt(d, es, names, i) ==
    /\ CellAt(d.mem, es[i]) = IF i = 1 THEN -1 ELSE es[i - 1]
    /\ NameIs(d.mem, es[i], names[i])
    /\ LengthAt(d.mem, es[i]) < F_BUILTIN
    /\ Len(names[i]) < LengthAt(d.mem, es[i])
    /\ CodeIn(d.mem, es[i]) <= IF i = Len(es) THEN d.here ELSE es[i + 1]

\* es are the entries of d, the oldest first, and names what they are called.
Lists(d, es, names) ==
    /\ es \in Seq(Address) /\ names \in Seq(Seq(Byte \ {0})) /\ Len(es) <= Len(names)
    /\ d.latest = IF es = <<>> THEN -1 ELSE es[Len(es)]
    /\ \A i \in 1 .. Len(es) : EntryAt(d, es, names, i)

LEMMA EntryIs ==
    ASSUME NEW d, IsDict(d), NEW es, NEW names, Lists(d, es, names), NEW i \in 1 .. Len(es)
    PROVE  /\ es[i] \in Int /\ es[i] >= 0 /\ es[i] < MemSize
           /\ names[i] \in Seq(Byte \ {0}) /\ Len(names[i]) \in Nat
           /\ LengthAt(d.mem, es[i]) \in Byte /\ LengthAt(d.mem, es[i]) \in Int
           /\ CodeIn(d.mem, es[i]) = es[i] + 4 + LengthAt(d.mem, es[i])
           /\ CodeIn(d.mem, es[i]) >= es[i] + 5 + Len(names[i])
           /\ es[i] + 4 + Len(names[i]) < MemSize
  <1>1. es[i] \in Address /\ es[i] \in Int /\ es[i] >= 0 /\ es[i] < MemSize
    BY Sizes DEF Lists, Address
  <1>2. names[i] \in Seq(Byte \ {0}) /\ Len(names[i]) \in Nat
    <2>1. Len(es) \in Nat /\ Len(names) \in Nat
      BY DEF Lists
    <2>2. i \in 1 .. Len(names)
      BY <2>1 DEF Lists
    <2> QED BY <2>2 DEF Lists
  <1>3. \A j \in 1 .. Len(names[i]) + 1 : es[i] + 4 + j - 1 \in Address
    BY Sizes DEF Lists, EntryAt, NameIs, NameAddr
  <1>4. es[i] + 4 + Len(names[i]) < MemSize
    <2>1. Len(names[i]) + 1 \in 1 .. Len(names[i]) + 1
      BY <1>2
    <2>2. es[i] + 4 + (Len(names[i]) + 1) - 1 \in Address
      BY <1>3, <2>1
    <2> QED BY <1>1, <1>2, <2>2, Sizes DEF Address
  <1>5. es[i] + 3 \in Address
    BY <1>1, <1>2, <1>4, Sizes DEF Address
  <1>6. LengthAt(d.mem, es[i]) \in Byte
    <2>1. es[i] + CellSize + 1 = es[i] + 3
      BY <1>1, Sizes
    <2>2. d.mem \in [Address -> Byte]
      BY DEF IsDict
    <2> QED BY <1>5, <2>1, <2>2 DEF LengthAt
  <1>7. LengthAt(d.mem, es[i]) \in Int /\ LengthAt(d.mem, es[i]) > Len(names[i])
    BY <1>6, Sizes DEF Byte, Lists, EntryAt
  <1>8. CodeIn(d.mem, es[i]) = es[i] + 4 + LengthAt(d.mem, es[i])
    <2>1. LengthAt(d.mem, es[i]) < ByteBase \div 2
      BY DEF Lists, EntryAt, F_BUILTIN
    <2>2. SignedByte(LengthAt(d.mem, es[i])) = LengthAt(d.mem, es[i])
      <3> HIDE DEF LengthAt
      <3> QED BY <1>7, <2>1, Sizes DEF SignedByte
    <2> QED BY <1>1, <2>2, Sizes DEF CodeIn, NameAddr, LengthAt
  <1> HIDE DEF LengthAt
  <1> QED BY <1>1, <1>2, <1>4, <1>6, <1>7, <1>8

\* No two entries overlap, and all lie below here.
LEMMA Ordered ==
    ASSUME NEW d, IsDict(d), NEW es, NEW names, Lists(d, es, names)
    PROVE  /\ \A i, j \in 1 .. Len(es) : i < j => CodeIn(d.mem, es[i]) <= es[j]
           /\ \A i \in 1 .. Len(es) : CodeIn(d.mem, es[i]) <= d.here
           /\ \A i \in 1 .. Len(es) : es[i] >= i - 1
           /\ Len(es) <= MemSize
  <1>0. Len(es) \in Nat /\ d.here \in Int
    BY Sizes DEF Lists, IsDict
  <1> DEFINE C(i) == CodeIn(d.mem, es[i])
  <1>1. \A i \in 1 .. Len(es) : es[i] \in Int /\ es[i] >= 0 /\ es[i] < MemSize /\ C(i) \in Int /\ C(i) >= es[i] + 5
    <2> TAKE i \in 1 .. Len(es)
    <2>1. /\ es[i] \in Int /\ es[i] >= 0 /\ es[i] < MemSize /\ Len(names[i]) \in Nat
          /\ LengthAt(d.mem, es[i]) \in Int
          /\ C(i) = es[i] + 4 + LengthAt(d.mem, es[i]) /\ C(i) >= es[i] + 5 + Len(names[i])
      BY EntryIs
    <2> QED BY <2>1
  <1>2. \A i \in 1 .. Len(es) : C(i) <= IF i = Len(es) THEN d.here ELSE es[i + 1]
    BY DEF Lists, EntryAt
  <1> HIDE DEF C
  <1> DEFINE S == {k \in Nat : \A i \in 1 .. Len(es) : i + k + 1 <= Len(es) => C(i) <= es[i + k + 1]}
             T == {k \in Nat : k + 1 <= Len(es) => es[k + 1] >= k}
  <1>3. \A k \in Nat : k \in S
    <2>1. 0 \in S
      BY <1>0, <1>2
    <2>2. ASSUME NEW k \in Nat, k \in S PROVE k + 1 \in S
      <3> SUFFICES ASSUME NEW i \in 1 .. Len(es), i + (k + 1) + 1 <= Len(es)
                   PROVE  C(i) <= es[i + (k + 1) + 1]
        OBVIOUS
      <3> DEFINE j == i + k + 1
      <3>1. j \in 1 .. Len(es) /\ j # Len(es) /\ j + 1 \in 1 .. Len(es) /\ j + 1 = i + (k + 1) + 1
        BY <1>0
      <3>2. C(i) <= es[j]
        BY <1>0, <2>2
      <3>3. C(j) <= es[j + 1]
        BY <1>2, <3>1
      <3> HIDE DEF j
      <3>4. C(i) \in Int /\ es[j] \in Int /\ C(j) \in Int /\ C(j) >= es[j] + 5 /\ es[j + 1] \in Int
        BY <1>1, <3>1
      <3>5. C(i) <= es[j + 1]
        BY <3>2, <3>3, <3>4
      <3> QED BY <3>1, <3>5
    <2> HIDE DEF S
    <2> QED BY <2>1, <2>2, AllNumbers
  <1>4. \A i, j \in 1 .. Len(es) : i < j => C(i) <= es[j]
    <2> SUFFICES ASSUME NEW i \in 1 .. Len(es), NEW j \in 1 .. Len(es), i < j PROVE C(i) <= es[j]
      OBVIOUS
    <2>0. j - i - 1 \in Nat
      BY <1>0
    <2>1. j - i - 1 \in S
      BY <1>3, <2>0
    <2>2. i + (j - i - 1) + 1 = j /\ j <= Len(es)
      BY <1>0
    <2>3. C(i) <= es[i + (j - i - 1) + 1]
      BY <2>1, <2>2
    <2> QED BY <2>2, <2>3
  <1>5. \A i \in 1 .. Len(es) : C(i) <= d.here
    <2> TAKE i \in 1 .. Len(es)
    <2>1. C(Len(es)) <= d.here /\ Len(es) \in 1 .. Len(es)
      BY <1>0, <1>2
    <2>2. CASE i < Len(es)
      <3>1. C(i) <= es[Len(es)] /\ es[Len(es)] <= C(Len(es))
        BY <1>1, <1>4, <2>1, <2>2
      <3> QED BY <1>0, <1>1, <2>1, <3>1
    <2> QED BY <1>0, <2>1, <2>2
  <1>6. \A k \in Nat : k \in T
    <2>1. 0 \in T
      BY <1>1
    <2>2. ASSUME NEW k \in Nat, k \in T PROVE k + 1 \in T
      <3> SUFFICES ASSUME k + 1 + 1 <= Len(es) PROVE es[k + 1 + 1] >= k + 1
        OBVIOUS
      <3>1. es[k + 1] >= k
        BY <1>0, <2>2
      <3>2. k + 1 \in 1 .. Len(es) /\ k + 1 + 1 \in 1 .. Len(es)
        BY <1>0
      <3>3. C(k + 1) <= es[k + 1 + 1]
        BY <1>4, <3>2
      <3> QED BY <1>1, <3>1, <3>2, <3>3
    <2> HIDE DEF T
    <2> QED BY <2>1, <2>2, AllNumbers
  <1>7. \A i \in 1 .. Len(es) : es[i] >= i - 1
    <2> TAKE i \in 1 .. Len(es)
    <2>1. i - 1 \in T
      BY <1>6
    <2> QED BY <2>1, <1>0
  <1>8. Len(es) <= MemSize
    <2>1. CASE Len(es) > 0
      <3>1. Len(es) \in 1 .. Len(es)
        BY <1>0, <2>1
      <3>2. es[Len(es)] >= Len(es) - 1 /\ es[Len(es)] < MemSize
        BY <1>1, <1>7, <3>1
      <3> QED BY <1>0, <1>1, <3>1, <3>2, Sizes
    <2> QED BY <1>0, <2>1, Sizes
  <1> QED BY <1>4, <1>5, <1>7, <1>8 DEF C

\* The list that is read off the links.
LEMMA ChainIs ==
    ASSUME NEW d, IsDict(d)
    PROVE  \E f : /\ EntriesOf(d) = f[MemSize][d.latest]
                  /\ \A links \in Nat, e \in Int :
                        f[links][e] = IF links = 0 \/ ~ Holds(e, CellSize) THEN <<>>
                                      ELSE Append(f[links - 1][CellAt(d.mem, e)], e)
  <1> DEFINE W     == [Int -> Seq(Int)]
             first == [e \in Int |-> <<>>]
             step  == [w \in W |-> [e \in Int |-> IF ~ Holds(e, CellSize) THEN <<>>
                                                  ELSE Append(w[CellAt(d.mem, e)], e)]]
  <1>1. \A e \in Int : Holds(e, CellSize) => CellAt(d.mem, e) \in Int
    BY CellIn DEF IsDict
  <1>2. first \in W
    OBVIOUS
  <1>3. step \in [W -> W]
    <2> DEFINE Next(w, e) == IF ~ Holds(e, CellSize) THEN <<>>
                             ELSE Append(w[CellAt(d.mem, e)], e)
    <2>1. ASSUME NEW w \in W, NEW e \in Int
          PROVE  Next(w, e) \in Seq(Int)
      <3>1. CASE Holds(e, CellSize)
        <4>1. w[CellAt(d.mem, e)] \in Seq(Int)
          BY <1>1, <3>1
        <4> HIDE DEF W
        <4> QED BY <3>1, <4>1
      <3> QED BY <3>1
    <2>2. step = [w \in W |-> [e \in Int |-> Next(w, e)]]
      OBVIOUS
    <2> HIDE DEF Next, step
    <2> QED BY <2>1, <2>2
  <1>4. PICK f \in [Nat -> W] : f[0] = first /\ \A n \in Nat : f[n + 1] = step[f[n]]
    <2> HIDE DEF W, first, step
    <2>1. \E f \in [Nat -> W] : f[0] = first /\ \A n \in Nat : f[n + 1] = step[f[n]]
      BY ONLY <1>2, <1>3, Repeats, SMT
    <2> QED BY <2>1
  <1> DEFINE Body(g) == [links \in Nat |->
               [e \in Int |-> IF links = 0 \/ ~ Holds(e, CellSize) THEN <<>>
                              ELSE Append(g[links - 1][CellAt(d.mem, e)], e)]]
             chain[links \in Nat] ==
               [e \in Int |-> IF links = 0 \/ ~ Holds(e, CellSize) THEN <<>>
                              ELSE Append(chain[links - 1][CellAt(d.mem, e)], e)]
  <1>5. f = Body(f)
    <2>1. ASSUME NEW links \in Nat, NEW e \in Int
          PROVE  f[links][e] = Body(f)[links][e]
      <3>1. CASE links = 0
        BY <1>4, <3>1
      <3>2. CASE links # 0
        <4>1. links - 1 \in Nat /\ links - 1 + 1 = links
          BY <3>2
        <4>2. f[links] = step[f[links - 1]] /\ f[links - 1] \in W
          BY <1>4, <4>1
        <4> QED BY <3>2, <4>2
      <3> QED BY <3>1, <3>2
    <2>2. f \in [Nat -> [Int -> Seq(Int)]]
      BY <1>4
    <2>3. \A links \in Nat : DOMAIN Body(f)[links] = Int /\ f[links] = Body(f)[links]
      BY <2>1, <2>2
    <2> QED BY <2>2, <2>3
  <1>6. chain = Body(chain)
    <2>1. chain = CHOOSE g : g = Body(g)
      OBVIOUS
    <2> HIDE DEF chain, Body
    <2> QED BY <1>5, <2>1
  <1>7. EntriesOf(d) = chain[MemSize][d.latest]
    BY DEF EntriesOf
  <1>8. ASSUME NEW links \in Nat, NEW e \in Int
        PROVE  chain[links][e] = IF links = 0 \/ ~ Holds(e, CellSize) THEN <<>>
                                 ELSE Append(chain[links - 1][CellAt(d.mem, e)], e)
    <2> HIDE DEF chain
    <2>1. Body(chain)[links][e] = IF links = 0 \/ ~ Holds(e, CellSize) THEN <<>>
                                  ELSE Append(chain[links - 1][CellAt(d.mem, e)], e)
      OBVIOUS
    <2> HIDE DEF Body
    <2> QED BY <1>6, <2>1
  <1> HIDE DEF chain
  <1> QED BY <1>7, <1>8

LEMMA EntriesAre ==
    ASSUME NEW d, IsDict(d), NEW es, NEW names, Lists(d, es, names)
    PROVE  EntriesOf(d) = es
  <1>1. PICK f : /\ EntriesOf(d) = f[MemSize][d.latest]
                 /\ \A links \in Nat, e \in Int :
                       f[links][e] = IF links = 0 \/ ~ Holds(e, CellSize) THEN <<>>
                                     ELSE Append(f[links - 1][CellAt(d.mem, e)], e)
    BY ChainIs
  <1>2. /\ es \in Seq(Address) /\ Len(es) \in Nat /\ Len(es) <= MemSize
        /\ d.latest = IF es = <<>> THEN -1 ELSE es[Len(es)]
    BY Ordered DEF Lists
  <1>3. \A k \in 1 .. Len(es) : /\ es[k] \in Int /\ Holds(es[k], CellSize)
                                /\ CellAt(d.mem, es[k]) = IF k = 1 THEN -1 ELSE es[k - 1]
    <2> TAKE k \in 1 .. Len(es)
    <2>1. /\ es[k] \in Int /\ es[k] >= 0 /\ Len(names[k]) \in Nat
          /\ es[k] + 4 + Len(names[k]) < MemSize
      BY EntryIs
    <2>2. CellAt(d.mem, es[k]) = IF k = 1 THEN -1 ELSE es[k - 1]
      BY DEF Lists, EntryAt
    <2> QED BY <2>1, <2>2, Sizes DEF Holds
  <1> DEFINE Link(k) == IF k = 0 THEN -1 ELSE es[k]
             S == {k \in Nat : k <= Len(es) =>
                      \A links \in Nat : links >= k => f[links][Link(k)] = SubSeq(es, 1, k)}
  <1>4. 0 \in S
    <2>1. \A links \in Nat : f[links][-1] = <<>>
      BY <1>1, Sizes DEF Holds
    <2>2. SubSeq(es, 1, 0) = <<>>
      BY <1>2
    <2> QED BY <2>1, <2>2
  <1>5. ASSUME NEW k \in Nat, k \in S PROVE k + 1 \in S
    <2> SUFFICES ASSUME k + 1 <= Len(es), NEW links \in Nat, links >= k + 1
                 PROVE  f[links][es[k + 1]] = SubSeq(es, 1, k + 1)
      OBVIOUS
    <2>1. k + 1 \in 1 .. Len(es) /\ links - 1 \in Nat /\ links - 1 >= k /\ links # 0
      BY <1>2
    <2>2. CellAt(d.mem, es[k + 1]) = Link(k)
      BY <1>3, <2>1
    <2>3. f[links][es[k + 1]] = Append(f[links - 1][Link(k)], es[k + 1])
      BY <1>1, <1>3, <2>1, <2>2
    <2>4. f[links - 1][Link(k)] = SubSeq(es, 1, k)
      BY <1>2, <1>5, <2>1
    <2>5. Append(SubSeq(es, 1, k), es[k + 1]) = SubSeq(es, 1, k + 1)
      BY <1>2, <2>1
    <2> QED BY <2>3, <2>4, <2>5
  <1>6. Len(es) \in S
    <2>1. \A k \in Nat : k \in S
      <3> HIDE DEF S
      <3> QED BY <1>4, <1>5, AllNumbers
    <2> QED BY <1>2, <2>1
  <1>7. d.latest = Link(Len(es))
    BY <1>2
  <1>8. f[MemSize][d.latest] = SubSeq(es, 1, Len(es))
    BY <1>2, <1>6, <1>7, Sizes
  <1>9. SubSeq(es, 1, Len(es)) = es
    BY <1>2
  <1> QED BY <1>1, <1>8, <1>9

\* Two names that lie at the same place are the same name.
LEMMA SameName ==
    ASSUME NEW m, NEW e \in Int, NEW n \in Seq(Byte \ {0}), NEW name \in Seq(Byte \ {0}),
           NameIs(m, e, n)
    PROVE  ~ ComparesOutside(m, e, name) /\ (NameIs(m, e, name) <=> name = n)
  <1>1. /\ Len(n) \in Nat /\ Len(name) \in Nat /\ DOMAIN n = 1 .. Len(n) /\ DOMAIN name = 1 .. Len(name)
        /\ \A j \in 1 .. Len(n) : n[j] # 0
        /\ \A j \in 1 .. Len(name) : name[j] # 0
    OBVIOUS
  <1> DEFINE A(j) == m[NameAddr(e) + j - 1]
  <1>2. /\ \A j \in 1 .. Len(n) + 1 : NameAddr(e) + j - 1 \in Address
        /\ \A j \in 1 .. Len(n) : A(j) = n[j]
        /\ A(Len(n) + 1) = 0
    <2>1. \A j \in 1 .. Len(n) + 1 : /\ NameAddr(e) + j - 1 \in Address
                                     /\ A(j) = IF j <= Len(n) THEN n[j] ELSE 0
      BY DEF NameIs
    <2>2. \A j \in 1 .. Len(n) : j \in 1 .. Len(n) + 1 /\ j <= Len(n)
      BY <1>1
    <2>3. Len(n) + 1 \in 1 .. Len(n) + 1 /\ ~ (Len(n) + 1 <= Len(n))
      BY <1>1
    <2> HIDE DEF A
    <2> QED BY <2>1, <2>2, <2>3
  <1>3. ~ ComparesOutside(m, e, name)
    <2> SUFFICES ASSUME NEW i \in 1 .. Len(name) + 1, NameAddr(e) + i - 1 \notin Address,
                        \A j \in 1 .. i - 1 : A(j) = name[j]
                 PROVE  FALSE
      BY DEF ComparesOutside
    <2>1. i > Len(n) + 1
      BY <1>1, <1>2
    <2>2. Len(n) + 1 \in 1 .. i - 1 /\ Len(n) + 1 \in 1 .. Len(name)
      BY <1>1, <2>1
    <2> HIDE DEF A
    <2> QED BY <1>1, <1>2, <2>2
  <1>4. ASSUME NameIs(m, e, name) PROVE name = n
    <2>1. \A j \in 1 .. Len(name) + 1 : A(j) = IF j <= Len(name) THEN name[j] ELSE 0
      BY <1>4 DEF NameIs
    <2>2. (\A j \in 1 .. Len(name) : A(j) = name[j]) /\ A(Len(name) + 1) = 0
      <3> HIDE DEF A
      <3> QED BY <1>1, <2>1
    <2> HIDE DEF A
    <2>3. ~ (Len(name) < Len(n))
      <3> SUFFICES ASSUME Len(name) < Len(n) PROVE FALSE
        OBVIOUS
      <3>1. Len(name) + 1 \in 1 .. Len(n)
        BY <1>1
      <3> QED BY <1>1, <1>2, <2>2, <3>1
    <2>4. ~ (Len(n) < Len(name))
      <3> SUFFICES ASSUME Len(n) < Len(name) PROVE FALSE
        OBVIOUS
      <3>1. Len(n) + 1 \in 1 .. Len(name)
        BY <1>1
      <3> QED BY <1>1, <1>2, <2>2, <3>1
    <2>5. Len(n) = Len(name)
      <3>1. \A a, b \in Nat : ~ (a < b) /\ ~ (b < a) => a = b
        OBVIOUS
      <3> QED BY ONLY <1>1, <2>3, <2>4, <3>1
    <2>6. \A j \in 1 .. Len(n) : n[j] = name[j]
      BY <1>2, <2>2, <2>5
    <2> QED BY <1>1, <2>5, <2>6
  <1> QED BY <1>3, <1>4

\* find_word_in_dict gives the newest of the entries of that name.
LEMMA FindsNewest ==
    ASSUME NEW d, IsDict(d), NEW es, NEW names, Lists(d, es, names),
           NEW name, name \in Seq(Byte \ {0})
    PROVE  \/ /\ \A j \in 1 .. Len(es) : names[j] # name
              /\ FindIn(d, name) = NotFound
           \/ \E i \in 1 .. Len(es) : /\ names[i] = name
                                      /\ \A j \in 1 .. Len(es) : names[j] = name => j <= i
                                      /\ FindIn(d, name) = es[i]
  <1>0. name \in Seq(Byte)
    OBVIOUS
  <1>1. PICK f : IsSearch(f, d, name)
    BY <1>0, SearchIs
  <1>2. /\ Len(es) \in Nat /\ Len(es) <= MemSize
        /\ d.latest = IF es = <<>> THEN -1 ELSE es[Len(es)]
    <2>1. Len(es) <= MemSize
      BY Ordered
    <2> QED BY <2>1 DEF Lists
  <1>3. \A k \in 1 .. Len(es) : /\ es[k] \in Int /\ es[k] >= 0
                                /\ ~ ComparesOutside(d.mem, es[k], name)
                                /\ NameIs(d.mem, es[k], name) <=> name = names[k]
                                /\ CellAt(d.mem, es[k]) = IF k = 1 THEN -1 ELSE es[k - 1]
    <2> TAKE k \in 1 .. Len(es)
    <2>1. es[k] \in Int /\ es[k] >= 0 /\ names[k] \in Seq(Byte \ {0})
      BY EntryIs
    <2>2. /\ CellAt(d.mem, es[k]) = IF k = 1 THEN -1 ELSE es[k - 1]
          /\ NameIs(d.mem, es[k], names[k])
      BY DEF Lists, EntryAt
    <2> QED BY <2>1, <2>2, SameName
  <1> DEFINE Link(k) == IF k = 0 THEN -1 ELSE es[k]
             Newest(v, k) ==
                 \/ (\A j \in 1 .. k : names[j] # name) /\ v = NotFound
                 \/ \E i \in 1 .. k : /\ names[i] = name
                                      /\ \A j \in 1 .. k : names[j] = name => j <= i
                                      /\ v = es[i]
             S == {k \in Nat : k <= Len(es) =>
                      \A links \in Nat : links >= k => Newest(f[links][Link(k)], k)}
  <1>4. 0 \in S
    <2>1. ASSUME NEW links \in Nat PROVE f[links][-1] = NotFound
      <3>1. f[links][-1] = Searches(d.mem, name, -1, links # 0, f[links - 1][CellAt(d.mem, -1)])
        BY <1>1 DEF IsSearch
      <3> QED BY ONLY <3>1 DEF Searches
    <2>2. \A k \in 1 .. 0 : FALSE
      OBVIOUS
    <2> QED BY <2>1, <2>2
  <1>5. ASSUME NEW k \in Nat, k \in S PROVE k + 1 \in S
    <2> SUFFICES ASSUME k + 1 <= Len(es), NEW links \in Nat, links >= k + 1
                 PROVE  Newest(f[links][es[k + 1]], k + 1)
      OBVIOUS
    <2>1. /\ k + 1 \in 1 .. Len(es) /\ links - 1 \in Nat /\ links - 1 >= k /\ links # 0
          /\ k <= Len(es)
      BY <1>2
    <2>2. CellAt(d.mem, es[k + 1]) = Link(k)
      BY <1>3, <2>1
    <2>3. f[links][es[k + 1]] = IF name = names[k + 1] THEN es[k + 1] ELSE f[links - 1][Link(k)]
      <3>1. f[links][es[k + 1]] = Searches(d.mem, name, es[k + 1], links # 0,
                                           f[links - 1][CellAt(d.mem, es[k + 1])])
        BY <1>1, <1>3, <2>1 DEF IsSearch
      <3> HIDE DEF At
      <3>2. f[links][es[k + 1]] = Searches(d.mem, name, es[k + 1], TRUE, f[links - 1][Link(k)])
        BY <2>1, <2>2, <3>1
      <3>3. es[k + 1] # -1 /\ ~ (es[k + 1] < 0)
        BY <1>3, <2>1
      <3> QED BY <1>3, <2>1, <3>2, <3>3 DEF Searches
    <2>4. Newest(f[links - 1][Link(k)], k)
      BY <1>5, <2>1
    <2>5. CASE name = names[k + 1]
      BY <1>2, <2>3, <2>5
    <2>6. CASE name # names[k + 1]
      <3>1. f[links][es[k + 1]] = f[links - 1][Link(k)]
        BY <2>3, <2>6
      <3>2. \A j \in 1 .. k + 1 : j \in 1 .. k \/ j = k + 1
        OBVIOUS
      <3>3. \A j \in 1 .. k : j \in 1 .. k + 1
        OBVIOUS
      <3> HIDE DEF At
      <3> QED BY <2>4, <2>6, <3>1, <3>2, <3>3
    <2> QED BY <2>5, <2>6
  <1>6. Len(es) \in S
    <2>1. \A k \in Nat : k \in S
      <3> HIDE DEF S
      <3> QED BY <1>4, <1>5, AllNumbers
    <2> QED BY <1>2, <2>1
  <1>7. d.latest = Link(Len(es))
    BY <1>2
  <1>8. Newest(f[MemSize][d.latest], Len(es))
    <2> HIDE DEF At, Newest
    <2> QED BY <1>2, <1>6, <1>7, Sizes
  <1> QED BY <1>1, <1>8 DEF IsSearch

-----------------------------------------------------------------------------
(* What keeps the list, and what adds to it.                               *)

\* The bytes of an entry are its header without the flags, and its name.
Entry(d, e) == {a \in Address : a >= e /\ a < CodeIn(d.mem, e) /\ a # e + CellSize}

LEMMA EntryKept ==
    ASSUME NEW d, IsDict(d), NEW es, NEW names, Lists(d, es, names), NEW i \in 1 .. Len(es),
           NEW m, \A a \in Entry(d, es[i]) : m[a] = d.mem[a]
    PROVE  /\ CellAt(m, es[i]) = CellAt(d.mem, es[i])
           /\ NameIs(m, es[i], names[i])
           /\ LengthAt(m, es[i]) = LengthAt(d.mem, es[i])
           /\ CodeIn(m, es[i]) = CodeIn(d.mem, es[i])
  <1> DEFINE e == es[i]
             n == Len(names[i])
  <1>1. /\ e \in Int /\ e >= 0 /\ n \in Nat /\ e + 4 + n < MemSize
        /\ CodeIn(d.mem, e) \in Int /\ CodeIn(d.mem, e) >= e + 5 + n
    <2>1. /\ e \in Int /\ e >= 0 /\ n \in Nat /\ e + 4 + n < MemSize
          /\ LengthAt(d.mem, e) \in Int /\ CodeIn(d.mem, e) = e + 4 + LengthAt(d.mem, e)
          /\ CodeIn(d.mem, e) >= e + 5 + n
      BY EntryIs
    <2> QED BY <2>1
  <1> HIDE DEF e, n
  <1>2. \A a \in Int : a >= e /\ a <= e + 4 + n /\ a # e + 2 => m[a] = d.mem[a]
    <2> TAKE a \in Int
    <2> HAVE a >= e /\ a <= e + 4 + n /\ a # e + 2
    <2>1. a \in Entry(d, e)
      BY <1>1, Sizes DEF Entry, Address
    <2> QED BY <2>1 DEF e
  <1>3. m[e] = d.mem[e] /\ m[e + 1] = d.mem[e + 1] /\ m[e + 3] = d.mem[e + 3]
    <2>1. \A k \in {0, 1, 3} : /\ e + k \in Int /\ e + k >= e /\ e + k <= e + 4 + n
                             /\ e + k # e + 2
      BY <1>1
    <2>2. \A k \in {0, 1, 3} : m[e + k] = d.mem[e + k]
      BY <1>2, <2>1
    <2>3. e + 0 = e
      BY <1>1
    <2> QED BY <2>2, <2>3
  <1>4. e + CellSize + 1 = e + 3
    BY <1>1, Sizes
  <1>5. NameIs(m, e, names[i])
    <2>1. NameIs(d.mem, e, names[i])
      BY DEF Lists, EntryAt, e
    <2>2. \A j \in 1 .. n + 1 : m[NameAddr(e) + j - 1] = d.mem[NameAddr(e) + j - 1]
      <3> TAKE j \in 1 .. n + 1
      <3>1. NameAddr(e) + j - 1 = e + 4 + j - 1 /\ e + 4 + j - 1 \in Int
            /\ e + 4 + j - 1 >= e /\ e + 4 + j - 1 <= e + 4 + n /\ e + 4 + j - 1 # e + 2
        BY <1>1, Sizes DEF NameAddr
      <3> QED BY <1>2, <3>1
    <2> QED BY <2>1, <2>2 DEF NameIs, n
  <1> QED BY <1>3, <1>4, <1>5 DEF CellAt, LengthAt, CodeIn, e

\* What is written at here or beyond, and into the flags of the newest entry,
\* is not part of the list.
LEMMA ListKept ==
    ASSUME NEW d, IsDict(d), NEW es, NEW names, Lists(d, es, names),
           NEW e, IsDict(e), e.latest = d.latest, e.here >= d.here,
           \A a \in Address : a < d.here => e.mem[a] = d.mem[a] \/ a = d.latest + CellSize
    PROVE  /\ Lists(e, es, names)
           /\ \A i \in 1 .. Len(es) : CodeIn(e.mem, es[i]) = CodeIn(d.mem, es[i])
  <1>0. /\ Len(es) \in Nat /\ d.here \in Int /\ e.here \in Int
        /\ d.latest = IF es = <<>> THEN -1 ELSE es[Len(es)]
    BY Sizes DEF Lists, IsDict
  <1>1. ASSUME NEW i \in 1 .. Len(es), NEW a \in Entry(d, es[i])
        PROVE  e.mem[a] = d.mem[a]
    <2> DEFINE l == Len(es)
    <2>1. /\ a \in Address /\ a \in Int /\ a >= es[i] /\ a < CodeIn(d.mem, es[i])
          /\ a # es[i] + 2
      BY Sizes DEF Entry, Address
    <2>2. /\ CodeIn(d.mem, es[i]) <= d.here /\ es[i] \in Int /\ CodeIn(d.mem, es[i]) \in Int
          /\ l \in 1 .. l /\ es[l] \in Int
      <3>1. /\ es[i] \in Int /\ LengthAt(d.mem, es[i]) \in Int
            /\ CodeIn(d.mem, es[i]) = es[i] + 4 + LengthAt(d.mem, es[i])
        BY EntryIs
      <3>2. l \in 1 .. l
        BY <1>0
      <3>3. es[l] \in Int
        BY <3>2, EntryIs
      <3> QED BY <3>1, <3>2, <3>3, Ordered
    <2>3. a # es[l] + 2
      <3>1. CASE i = l
        BY <2>1, <3>1
      <3>2. CASE i < l
        <4>1. CodeIn(d.mem, es[i]) <= es[l]
          BY <2>2, <3>2, Ordered
        <4> QED BY <2>1, <2>2, <4>1
      <3> QED BY <1>0, <3>1, <3>2
    <2>4. d.latest = es[l] /\ d.latest + CellSize = es[l] + 2
      BY <1>0, <2>2, Sizes
    <2> HIDE DEF l
    <2> QED BY <1>0, <2>1, <2>2, <2>3, <2>4
  <1>2. ASSUME NEW i \in 1 .. Len(es)
        PROVE  /\ EntryAt(e, es, names, i)
               /\ CodeIn(e.mem, es[i]) = CodeIn(d.mem, es[i])
    <2>1. /\ CellAt(e.mem, es[i]) = CellAt(d.mem, es[i])
          /\ NameIs(e.mem, es[i], names[i])
          /\ LengthAt(e.mem, es[i]) = LengthAt(d.mem, es[i])
          /\ CodeIn(e.mem, es[i]) = CodeIn(d.mem, es[i])
      BY <1>1, EntryKept
    <2>2. EntryAt(d, es, names, i)
      BY DEF Lists
    <2>3. /\ es[i] \in Int /\ LengthAt(d.mem, es[i]) \in Int
          /\ CodeIn(d.mem, es[i]) = es[i] + 4 + LengthAt(d.mem, es[i])
      BY EntryIs
    <2>4. CodeIn(d.mem, es[i]) <= IF i = Len(es) THEN e.here ELSE es[i + 1]
      BY <1>0, <2>2, <2>3 DEF EntryAt
    <2> QED BY <2>1, <2>2, <2>4 DEF EntryAt
  <1>3. Lists(e, es, names)
    BY <1>2 DEF Lists
  <1> QED BY <1>2, <1>3

\* A header that fits is written byte by byte.
LEMMA HeaderBytes ==
    ASSUME NEW d, IsDict(d), d.status = "running", NEW name, name \in Seq(Byte), NEW flags
    PROVE  \/ Header(d, name, flags) = Failed(d, "undefined")
           \/ \E h \in {Header(d, name, flags)} :
                 /\ h.status = "running" /\ h.latest = d.here
                 /\ h.here = d.here + 4 + AlignNameLen(Len(name))
                 /\ d.here + Len(name) + 5 <= MemSize
                 /\ h.mem[d.here]     = ByteOf(d.latest, 0)
                 /\ h.mem[d.here + 1] = ByteOf(d.latest, 1)
                 /\ h.mem[d.here + 2] = flags
                 /\ h.mem[d.here + 3] = AlignNameLen(Len(name))
                 /\ \A j \in 1 .. Len(name) : h.mem[d.here + 3 + j] = name[j]
                 /\ h.mem[d.here + 4 + Len(name)] = 0
  <1> DEFINE length == AlignNameLen(Len(name))
             front  == <<ByteOf(d.latest, 0), ByteOf(d.latest, 1), flags, length>>
             bytes  == front \o name \o <<0>>
             next   == [d EXCEPT !.mem    = PlaceBytes(d.mem, d.here, bytes),
                                 !.latest = d.here,
                                 !.here   = NameAddr(d.here) + length]
             n      == Len(name)
  <1>1. /\ Len(bytes) = n + 5 /\ n \in Nat
        /\ bytes[1] = ByteOf(d.latest, 0) /\ bytes[2] = ByteOf(d.latest, 1)
        /\ bytes[3] = flags /\ bytes[4] = length
        /\ \A j \in 1 .. n : bytes[4 + j] = name[j]
        /\ bytes[n + 5] = 0
    <2>1. n \in Nat
      OBVIOUS
    <2>2. /\ front[1] = ByteOf(d.latest, 0) /\ front[2] = ByteOf(d.latest, 1)
          /\ front[3] = flags /\ front[4] = length
          /\ Len(front) = 4
      OBVIOUS
    <2> DEFINE both == front \o name
               zero == <<0>>
               S    == Byte \cup {front[1], front[2], front[3], front[4], 0}
    <2>3. front \in Seq(S) /\ name \in Seq(S)
      <3>1. front \in Seq({front[1], front[2], front[3], front[4]})
        OBVIOUS
      <3> QED BY <3>1
    <2>4. Len(zero) = 1 /\ zero[1] = 0 /\ zero \in Seq(S)
      OBVIOUS
    <2> HIDE DEF front, zero, S
    <2>5. /\ Len(both) = n + 4 /\ both \in Seq(S)
          /\ \A k \in 1 .. 4 : both[k] = front[k]
          /\ \A j \in 1 .. n : both[4 + j] = name[j]
      <3>1. /\ both \in Seq(S) /\ Len(both) = Len(front) + Len(name)
            /\ \A k \in 1 .. Len(front) + Len(name) :
                  both[k] = IF k <= Len(front) THEN front[k] ELSE name[k - Len(front)]
        BY <2>3, ConcatProperties
      <3> HIDE DEF both
      <3>2. \A j \in 1 .. Len(name) : /\ 4 + j \in 1 .. 4 + Len(name) /\ ~ (4 + j <= 4)
                                     /\ 4 + j - 4 = j
        BY <2>1
      <3>3. \A k \in 1 .. 4 : k \in 1 .. 4 + Len(name) /\ k <= 4
        BY <2>1
      <3> QED BY <2>1, <2>2, <3>1, <3>2, <3>3
    <2> HIDE DEF both
    <2>6. /\ Len(both \o zero) = n + 5
          /\ \A k \in 1 .. n + 4 : (both \o zero)[k] = both[k]
          /\ (both \o zero)[n + 5] = 0
      <3>1. /\ Len(both \o zero) = Len(both) + Len(zero)
            /\ \A k \in 1 .. Len(both) + Len(zero) :
                  (both \o zero)[k] = IF k <= Len(both) THEN both[k] ELSE zero[k - Len(both)]
        BY <2>4, <2>5, ConcatProperties
      <3> HIDE DEF n
      <3>2. /\ n + 5 \in 1 .. n + 4 + 1 /\ ~ (n + 5 <= n + 4) /\ n + 5 - (n + 4) = 1
            /\ n + 4 + 1 = n + 5
            /\ \A k \in 1 .. n + 4 : k \in 1 .. n + 4 + 1 /\ k <= n + 4
        BY <2>1
      <3> QED BY <2>4, <2>5, <3>1, <3>2
    <2>7. bytes = both \o zero
      BY DEF both, zero, front
    <2> HIDE DEF bytes, n
    <2> QED BY <2>1, <2>2, <2>5, <2>6, <2>7
  <1>2. d.mem \in [Address -> Byte] /\ d.here \in Int /\ d.here >= 0
    BY Sizes DEF IsDict
  <1> HIDE DEF bytes, length
  <1>3. /\ next.mem = PlaceBytes(d.mem, d.here, bytes) /\ next.latest = d.here
        /\ next.here = d.here + 4 + length /\ next.status = d.status
    BY <1>2, Sizes DEF IsDict, NameAddr
  <1>4. Header(d, name, flags) = Extends(d, Len(bytes), next)
    BY DEF Header, bytes, length
  <1> HIDE DEF next
  <1>5. CASE ~ Holds(d.here, Len(bytes))
    BY <1>4, <1>5 DEF Extends
  <1>6. CASE Holds(d.here, Len(bytes))
    <2>1. Header(d, name, flags) = next
      BY <1>4, <1>6 DEF Extends
    <2>2. d.here + n + 5 <= MemSize
      <3> HIDE DEF n
      <3>1. d.here + (n + 5) <= MemSize
        BY <1>1, <1>6 DEF Holds
      <3> QED BY <1>1, <1>2, <3>1, Sizes
    <2>3. ASSUME NEW k \in 1 .. n + 5 PROVE next.mem[d.here + k - 1] = bytes[k]
      <3> HIDE DEF n
      <3>1. d.here + k - 1 \in Address /\ d.here + k - 1 \in d.here .. d.here + Len(bytes) - 1
        <4>1. n \in Nat /\ Len(bytes) = n + 5
          BY <1>1
        <4>2. d.here \in Int /\ d.here >= 0 /\ MemSize \in Int
          BY <1>2, Sizes
        <4> QED BY ONLY <2>2, <4>1, <4>2, k \in 1 .. n + 5 DEF Address
      <3>2. (d.here + k - 1) - d.here + 1 = k
        BY <1>1, <1>2
      <3> QED BY <1>2, <1>3, <3>1, <3>2 DEF PlaceBytes
    <2>4. \A k \in 1 .. n + 5 : next.mem[d.here + (k - 1)] = bytes[k]
      <3> HIDE DEF n
      <3>1. \A k \in Int : d.here + k - 1 = d.here + (k - 1)
        BY <1>2
      <3> QED BY <1>1, <2>3, <3>1
    <2> HIDE DEF n
    <2>5. /\ next.mem[d.here] = bytes[1] /\ next.mem[d.here + 1] = bytes[2]
          /\ next.mem[d.here + 2] = bytes[3] /\ next.mem[d.here + 3] = bytes[4]
      <3>1. 1 - 1 = 0 /\ 2 - 1 = 1 /\ 3 - 1 = 2 /\ 4 - 1 = 3 /\ d.here + 0 = d.here
            /\ {1, 2, 3, 4} \subseteq 1 .. n + 5
        BY <1>1, <1>2
      <3> QED BY <2>4, <3>1
    <2>6. next.mem[d.here + 4 + n] = 0
      <3>1. n + 5 \in 1 .. n + 5 /\ d.here + (n + 5) - 1 = d.here + 4 + n
        BY <1>1, <1>2
      <3> QED BY <1>1, <2>3, <3>1
    <2>7. \A j \in 1 .. n : next.mem[d.here + 3 + j] = name[j]
      <3> TAKE j \in 1 .. n
      <3>1. 4 + j \in 1 .. n + 5 /\ d.here + (4 + j) - 1 = d.here + 3 + j
        <4>1. n \in Nat
          BY <1>1
        <4> QED BY ONLY <1>2, <4>1, j \in 1 .. n
      <3> QED BY <1>1, <2>3, <3>1
    <2> QED BY <1>1, <1>3, <2>1, <2>2, <2>5, <2>6, <2>7 DEF length, n
  <1> QED BY <1>5, <1>6

\* The length of a name that fits in a byte is rounded up, with its final zero.
LEMMA AlignedExactly ==
    ASSUME NEW n \in Nat, n + 2 < F_BUILTIN
    PROVE  AlignNameLen(n) \in {n + 1, n + 2}
  <1>1. ByteBase \in Nat /\ n + 2 < ByteBase
    BY Sizes DEF F_BUILTIN
  <1>2. (n + 1) % ByteBase = n + 1
    BY <1>1
  <1>3. Padded(n + 1) \in {n + 1, n + 2}
    BY Sizes DEF Padded
  <1> DEFINE p == Padded(n + 1)
  <1> HIDE DEF p
  <1>4. p % ByteBase = p
    BY <1>1, <1>3 DEF p
  <1> QED BY <1>2, <1>3, <1>4 DEF AlignNameLen, p

\* A header adds an entry to the list.
LEMMA HeaderLists ==
    ASSUME NEW d, IsDict(d), d.status = "running", NEW es, NEW names, Lists(d, es, names),
           Len(names) = Len(es), NEW name, name \in Seq(Byte \ {0}), Len(name) + 2 < F_BUILTIN,
           NEW flags \in Byte, NEW h, h = Header(d, name, flags), h.status = "running"
    PROVE  /\ IsDict(h) /\ h.latest = d.here /\ d.here \in Address
           /\ Lists(h, Append(es, d.here), Append(names, name))
           /\ h.mem[d.here + CellSize] = flags
           /\ \A a \in Address : a < d.here => h.mem[a] = d.mem[a]
           /\ d.here + CellSize < h.here
  <1> DEFINE n == Len(name)
             more == Append(es, d.here)
  <1>1. name \in Seq(Byte) /\ n \in Nat /\ n + 2 < F_BUILTIN
    OBVIOUS
  <1>2. /\ d.here \in Int /\ d.here >= 0 /\ d.mem \in [Address -> Byte] /\ d.latest \in Cell
        /\ Len(es) \in Nat /\ es \in Seq(Address) /\ names \in Seq(Seq(Byte \ {0}))
        /\ d.latest = IF es = <<>> THEN -1 ELSE es[Len(es)]
    <2>1. d.latest \in Int /\ d.latest >= -1 /\ d.latest <= MemSize + 6
      BY Sizes DEF IsDict, LatestIs
    <2> QED BY <2>1, Sizes DEF IsDict, Lists
  <1>3. IsDict(h) /\ \A a \in Address : a < d.here => h.mem[a] = d.mem[a]
    BY <1>1, <1>2, HeaderGrows DEF Grows
  <1>4. /\ h.latest = d.here
        /\ h.here = d.here + 4 + AlignNameLen(n)
        /\ d.here + n + 5 <= MemSize
        /\ h.mem[d.here]     = ByteOf(d.latest, 0)
        /\ h.mem[d.here + 1] = ByteOf(d.latest, 1)
        /\ h.mem[d.here + 2] = flags
        /\ h.mem[d.here + 3] = AlignNameLen(n)
        /\ \A j \in 1 .. n : h.mem[d.here + 3 + j] = name[j]
        /\ h.mem[d.here + 4 + n] = 0
    <2>1. h # Failed(d, "undefined")
      BY DEF Failed, IsDict
    <2> QED BY <1>1, <2>1, HeaderBytes
  <1>5. AlignNameLen(n) \in {n + 1, n + 2}
    BY <1>1, AlignedExactly
  <1> HIDE DEF n, more
  <1>5a. n \in Nat /\ d.here \in Int /\ d.here >= 0 /\ d.here + n + 5 <= MemSize
    BY <1>1, <1>2, <1>4
  <1>6. d.here \in Address
    BY ONLY <1>5a, Sizes DEF Address
  <1>7. /\ more \in Seq(Address) /\ Len(more) = Len(es) + 1
        /\ \A i \in 1 .. Len(es) : more[i] = es[i]
        /\ more[Len(es) + 1] = d.here
        /\ more # <<>>
    <2>1. /\ more \in Seq(Address) /\ Len(more) = Len(es) + 1
          /\ more[Len(es) + 1] = d.here
      BY ONLY <1>2, <1>6 DEF more
    <2>2. \A i \in 1 .. Len(es) : more[i] = es[i]
      BY ONLY <1>2, <1>6 DEF more
    <2>3. more # <<>>
      BY <1>2, <2>1
    <2> QED BY <2>1, <2>2, <2>3
  <1>8. /\ Append(names, name) \in Seq(Seq(Byte \ {0})) /\ Len(Append(names, name)) = Len(es) + 1
        /\ \A i \in 1 .. Len(es) : Append(names, name)[i] = names[i]
        /\ Append(names, name)[Len(es) + 1] = name
    BY <1>2
  <1>9. ASSUME NEW i \in 1 .. Len(es)
        PROVE  EntryAt(h, more, Append(names, name), i)
    <2>1. /\ es[i] \in Int /\ LengthAt(d.mem, es[i]) \in Int
          /\ CodeIn(d.mem, es[i]) = es[i] + 4 + LengthAt(d.mem, es[i])
      BY EntryIs
    <2>2. CodeIn(d.mem, es[i]) <= d.here /\ CodeIn(d.mem, es[i]) \in Int
      BY <2>1, Ordered
    <2>3. \A a \in Entry(d, es[i]) : h.mem[a] = d.mem[a]
      <3> TAKE a \in Entry(d, es[i])
      <3>1. a \in Address /\ a < d.here
        BY <1>2, <2>2, Sizes DEF Entry, Address
      <3> QED BY <1>3, <3>1
    <2>4. /\ CellAt(h.mem, es[i]) = CellAt(d.mem, es[i])
          /\ NameIs(h.mem, es[i], names[i])
          /\ LengthAt(h.mem, es[i]) = LengthAt(d.mem, es[i])
          /\ CodeIn(h.mem, es[i]) = CodeIn(d.mem, es[i])
      BY <2>3, EntryKept
    <2>5. EntryAt(d, es, names, i)
      BY DEF Lists
    <2>6. /\ more[i] = es[i] /\ Append(names, name)[i] = names[i]
          /\ i # Len(more)
          /\ i # 1 => i - 1 \in 1 .. Len(es)
          /\ i # Len(es) => i + 1 \in 1 .. Len(es)
      BY <1>2, <1>7, <1>8
    <2>7. /\ i # 1 => more[i - 1] = es[i - 1]
          /\ more[i + 1] = IF i = Len(es) THEN d.here ELSE es[i + 1]
      BY <1>7, <2>6
    <2> QED BY <2>4, <2>5, <2>6, <2>7 DEF EntryAt
  <1>10. EntryAt(h, more, Append(names, name), Len(es) + 1)
    <2> DEFINE e == d.here
               l == Len(es)
    <2>1. CellAt(h.mem, e) = d.latest
      BY <1>2, <1>4, CellIsReadBack DEF CellAt
    <2>2. NameIs(h.mem, e, name)
      <3> SUFFICES ASSUME NEW j \in 1 .. n + 1
                   PROVE  /\ NameAddr(e) + j - 1 \in Address
                          /\ h.mem[NameAddr(e) + j - 1] = IF j <= n THEN name[j] ELSE 0
        BY DEF NameIs, n
      <3>1. NameAddr(e) + j - 1 = e + 3 + j /\ e + 3 + j \in Address
        BY ONLY <1>5a, j \in 1 .. n + 1, Sizes DEF NameAddr, Address
      <3>2. CASE j <= n
        <4>1. j \in 1 .. n
          BY <1>1, <3>2
        <4> QED BY <1>4, <3>1, <3>2, <4>1
      <3>3. CASE ~ (j <= n)
        <4>1. e + 3 + j = e + 4 + n
          BY ONLY <1>5a, <3>3, j \in 1 .. n + 1
        <4> QED BY <1>4, <3>1, <3>3, <4>1
      <3> QED BY <3>2, <3>3
    <2>3. /\ LengthAt(h.mem, e) = AlignNameLen(n)
          /\ AlignNameLen(n) < F_BUILTIN /\ n < AlignNameLen(n)
      <3>1. e + CellSize + 1 = e + 3
        BY <1>2, Sizes
      <3>2. F_BUILTIN \in Int
        BY Sizes DEF F_BUILTIN
      <3> QED BY <1>1, <1>4, <1>5, <3>1, <3>2 DEF LengthAt
    <2>4. CodeIn(h.mem, e) = h.here
      <3>1. SignedByte(AlignNameLen(n)) = AlignNameLen(n)
        BY <2>3, <1>1, <1>5, Sizes DEF SignedByte, F_BUILTIN
      <3> QED BY <1>2, <1>4, <2>3, <3>1, Sizes DEF CodeIn, LengthAt, NameAddr
    <2>5. h.here \in Int
      BY Sizes, <1>3 DEF IsDict
    <2>6. d.latest = IF l + 1 = 1 THEN -1 ELSE more[l + 1 - 1]
      <3>1. es = <<>> <=> l = 0
        BY <1>2
      <3>2. l # 0 => l \in 1 .. l
        BY <1>2
      <3>3. l + 1 - 1 = l /\ (l + 1 = 1 <=> l = 0)
        BY <1>2
      <3> QED BY <1>2, <1>7, <3>1, <3>2, <3>3
    <2> QED BY <1>7, <1>8, <2>1, <2>2, <2>3, <2>4, <2>5, <2>6 DEF EntryAt, n
  <1>11. Lists(h, more, Append(names, name))
    <2>1. \A i \in 1 .. Len(more) : EntryAt(h, more, Append(names, name), i)
      <3>1. \A i \in 1 .. Len(more) : i \in 1 .. Len(es) \/ i = Len(es) + 1
        BY <1>2, <1>7
      <3> QED BY <1>9, <1>10, <3>1
    <2>2. Len(more) <= Len(Append(names, name)) /\ h.latest = more[Len(more)]
      BY <1>2, <1>4, <1>7, <1>8
    <2> QED BY <1>7, <1>8, <2>1, <2>2 DEF Lists
  <1>12. h.mem[d.here + CellSize] = flags /\ d.here + CellSize < h.here
    <2>1. d.here + CellSize = d.here + 2
      BY Sizes
    <2>2. d.here + 2 < d.here + 4 + AlignNameLen(n)
      BY ONLY <1>5a, <1>5
    <2> QED BY <1>4, <2>1, <2>2
  <1> QED BY <1>3, <1>4, <1>6, <1>11, <1>12 DEF more

-----------------------------------------------------------------------------
(* The definitions.                                                        *)

Definition == [name : Seq(Byte), immediate : BOOLEAN, body : Seq(Byte)]

\* Where what belongs to the entry es[i] of d ends.
EndOf(d, es, i) == IF i = Len(es) THEN d.here ELSE es[i + 1]

DefinitionAt(d, es, names, i) ==
    [name      |-> names[i],
     immediate |-> HasFlag(d.mem, es[i], F_IMMEDIATE),
     body      |-> Stored(d.mem, CodeIn(d.mem, es[i]), EndOf(d, es, i))]

\* What is stored from a to b is a sequence of bytes, cut where memory ends.
LEMMA StoredIs ==
    ASSUME NEW m \in [Address -> Byte], NEW a \in Nat, NEW b \in Int
    PROVE  \E k \in Nat : /\ k = 0 \/ (a + k <= b /\ a + k <= MemSize)
                          /\ a + k >= b \/ a + k >= MemSize
                          /\ Stored(m, a, b) \in Seq(Byte) /\ Len(Stored(m, a, b)) = k
                          /\ \A j \in 1 .. k : /\ a + j - 1 \in Address /\ a + j - 1 < b
                                               /\ Stored(m, a, b)[j] = m[a + j - 1]
  <1> DEFINE end == IF b > MemSize THEN MemSize ELSE b
             k   == IF end - a < 0 THEN 0 ELSE end - a
             s   == [j \in 1 .. k |-> m[a + j - 1]]
  <1>1. /\ k \in Nat /\ 1 .. end - a = 1 .. k
        /\ k = 0 \/ (a + k <= b /\ a + k <= MemSize)
        /\ a + k >= b \/ a + k >= MemSize
    BY Sizes
  <1>2. Stored(m, a, b) = s
    BY <1>1 DEF Stored
  <1> HIDE DEF k
  <1>3. \A j \in 1 .. k : a + j - 1 \in Address /\ a + j - 1 < b
    BY <1>1, Sizes DEF Address
  <1>4. s \in Seq(Byte) /\ Len(s) = k /\ \A j \in 1 .. k : s[j] = m[a + j - 1]
    <2>1. \A j \in 1 .. k : m[a + j - 1] \in Byte
      BY <1>3
    <2> QED BY <1>1, <2>1
  <1> HIDE DEF s
  <1> QED BY <1>1, <1>2, <1>3, <1>4

LEMMA StoredGrows ==
    ASSUME NEW m \in [Address -> Byte], NEW n \in [Address -> Byte],
           NEW a \in Nat, NEW b \in Int, NEW c \in Int, b <= c,
           \A x \in Address : x >= a /\ x < b => n[x] = m[x]
    PROVE  /\ Len(Stored(m, a, b)) <= Len(Stored(n, a, c))
           /\ Stored(m, a, b) = SubSeq(Stored(n, a, c), 1, Len(Stored(m, a, b)))
           /\ b = c => Stored(m, a, b) = Stored(n, a, c)
  <1> DEFINE s == Stored(m, a, b)
             t == Stored(n, a, c)
  <1>1. PICK k \in Nat : /\ k = 0 \/ (a + k <= b /\ a + k <= MemSize)
                         /\ a + k >= b \/ a + k >= MemSize
                         /\ s \in Seq(Byte) /\ Len(s) = k
                         /\ \A j \in 1 .. k : /\ a + j - 1 \in Address /\ a + j - 1 < b
                                              /\ s[j] = m[a + j - 1]
    BY StoredIs
  <1>2. PICK l \in Nat : /\ l = 0 \/ (a + l <= c /\ a + l <= MemSize)
                         /\ a + l >= c \/ a + l >= MemSize
                         /\ t \in Seq(Byte) /\ Len(t) = l
                         /\ \A j \in 1 .. l : /\ a + j - 1 \in Address /\ a + j - 1 < c
                                              /\ t[j] = n[a + j - 1]
    BY StoredIs
  <1> HIDE DEF s, t
  <1>3. k <= l /\ (b = c => k = l)
    BY <1>1, <1>2, Sizes
  <1>4. \A j \in 1 .. k : t[j] = s[j]
    <2> TAKE j \in 1 .. k
    <2>1. a + j - 1 \in Address /\ a + j - 1 < b
      BY <1>1
    <2>2. a + j - 1 >= a /\ j \in 1 .. l
      BY ONLY <1>3, j \in 1 .. k, a \in Nat, k \in Nat, l \in Nat
    <2> QED BY <1>1, <1>2, <2>1, <2>2
  <1>5. s = SubSeq(t, 1, k)
    BY <1>1, <1>2, <1>3, <1>4
  <1>6. b = c => s = t
    BY <1>1, <1>2, <1>3, <1>4
  <1> QED BY <1>1, <1>2, <1>3, <1>5, <1>6 DEF s, t

LEMMA NameOfIs ==
    ASSUME NEW d, IsDict(d), NEW es, NEW names, Lists(d, es, names), NEW i \in 1 .. Len(es)
    PROVE  NameOf(d.mem, es[i]) = names[i]
  <1> DEFINE e == es[i]
             n == Len(names[i])
             m == d.mem
             P(z) == m[z] = 0 /\ \A a \in NameAddr(e) .. z - 1 : m[a] # 0
             zero == CHOOSE z \in NameAddr(e) .. MemSize - 1 : P(z)
  <1>1. /\ e \in Int /\ e >= 0 /\ n \in Nat /\ e + 4 + n < MemSize
        /\ names[i] \in Seq(Byte \ {0})
    BY EntryIs
  <1>2. NameAddr(e) = e + 4
    BY Sizes DEF NameAddr
  <1>3. m \in [Address -> Byte]
    BY DEF IsDict
  <1>4. names[i] \in [1 .. n -> Byte \ {0}]
    BY <1>1
  <1>5. /\ \A j \in 1 .. n : m[e + 4 + j - 1] = names[i][j]
        /\ m[e + 4 + n] = 0
    <2>1. \A j \in 1 .. n + 1 : m[NameAddr(e) + j - 1] = IF j <= n THEN names[i][j] ELSE 0
      BY DEF Lists, EntryAt, NameIs
    <2> HIDE DEF e, m, n
    <2>2. \A j \in 1 .. n : j \in 1 .. n + 1 /\ j <= n
      BY <1>1
    <2>3. n + 1 \in 1 .. n + 1 /\ ~ (n + 1 <= n) /\ NameAddr(e) + (n + 1) - 1 = e + 4 + n
      BY <1>1, <1>2
    <2> QED BY <1>2, <2>1, <2>2, <2>3
  <1> HIDE DEF e, n, m
  <1>6. e + 4 + n \in NameAddr(e) .. MemSize - 1 /\ P(e + 4 + n)
    <2>1. \A a \in NameAddr(e) .. e + 4 + n - 1 : m[a] # 0
      <3> TAKE a \in NameAddr(e) .. e + 4 + n - 1
      <3>1. a - e - 3 \in 1 .. n /\ e + 4 + (a - e - 3) - 1 = a
        BY <1>1, <1>2
      <3>2. names[i][a - e - 3] # 0
        BY <1>4, <3>1
      <3> QED BY <1>5, <3>1, <3>2
    <2> QED BY <1>1, <1>2, <1>5, <2>1, Sizes
  <1>7. \A z \in NameAddr(e) .. MemSize - 1 : P(z) => z = e + 4 + n
    <2> TAKE z \in NameAddr(e) .. MemSize - 1
    <2> HAVE P(z)
    <2>1. ~ (z < e + 4 + n)
      <3> SUFFICES ASSUME z < e + 4 + n PROVE FALSE
        OBVIOUS
      <3>1. z \in NameAddr(e) .. e + 4 + n - 1
        BY <1>1, <1>2, Sizes
      <3> QED BY <1>6, <3>1
    <2>2. ~ (e + 4 + n < z)
      <3> SUFFICES ASSUME e + 4 + n < z PROVE FALSE
        OBVIOUS
      <3>1. e + 4 + n \in NameAddr(e) .. z - 1
        BY <1>1, <1>2, Sizes
      <3> QED BY <1>5, <3>1
    <2>3. z \in Int
      BY <1>1, <1>2, Sizes
    <2> QED BY <1>1, <2>1, <2>2, <2>3
  <1>8. zero = e + 4 + n
    <2> HIDE DEF P
    <2> QED BY <1>6, <1>7
  <1>9. Stored(m, e + 4, e + 4 + n) = names[i]
    <2> DEFINE a == e + 4
               b == e + 4 + n
    <2>1. ~ (b > MemSize) /\ b - a = n
      BY <1>1, Sizes
    <2> HIDE DEF a, b
    <2>2. Stored(m, a, b) = [j \in 1 .. n |-> m[a + j - 1]]
      BY <2>1 DEF Stored
    <2>3. \A j \in 1 .. n : m[a + j - 1] = names[i][j]
      BY <1>5 DEF a
    <2>4. Stored(m, a, b) = names[i]
      BY <1>4, <2>2, <2>3
    <2> QED BY <2>4 DEF a, b
  <1> QED BY <1>2, <1>8, <1>9 DEF NameOf, e, m

LEMMA DefinitionsAre ==
    ASSUME NEW d, IsDict(d), NEW es, NEW names, Lists(d, es, names)
    PROVE  /\ DefinitionsOf(d) \in Seq(Definition) /\ Len(DefinitionsOf(d)) = Len(es)
           /\ \A i \in 1 .. Len(es) : DefinitionsOf(d)[i] = DefinitionAt(d, es, names, i)
  <1>1. EntriesOf(d) = es
    BY EntriesAre
  <1>2. Len(es) \in Nat
    BY DEF Lists
  <1>3. \A i \in 1 .. Len(es) : NameOf(d.mem, es[i]) = names[i]
    BY NameOfIs
  <1>4. DefinitionsOf(d) = [i \in 1 .. Len(es) |-> DefinitionAt(d, es, names, i)]
    BY <1>1, <1>3 DEF DefinitionsOf, DefinitionAt, EndOf
  <1>5. ASSUME NEW i \in 1 .. Len(es) PROVE DefinitionAt(d, es, names, i) \in Definition
    <2>1. names[i] \in Seq(Byte)
      <3>1. names[i] \in Seq(Byte \ {0})
        BY EntryIs
      <3> QED BY <3>1
    <2>2. HasFlag(d.mem, es[i], F_IMMEDIATE) \in BOOLEAN
      BY DEF HasFlag
    <2>3. Stored(d.mem, CodeIn(d.mem, es[i]), EndOf(d, es, i)) \in Seq(Byte)
      <3>1. d.mem \in [Address -> Byte] /\ d.here \in Int
        BY Sizes DEF IsDict
      <3>2. CodeIn(d.mem, es[i]) \in Nat
        <4>1. /\ es[i] \in Int /\ es[i] >= 0 /\ Len(names[i]) \in Nat
              /\ LengthAt(d.mem, es[i]) \in Int
              /\ CodeIn(d.mem, es[i]) = es[i] + 4 + LengthAt(d.mem, es[i])
              /\ CodeIn(d.mem, es[i]) >= es[i] + 5 + Len(names[i])
          BY EntryIs
        <4> QED BY <4>1
      <3>3. EndOf(d, es, i) \in Int
        <4>1. i # Len(es) => i + 1 \in 1 .. Len(es)
          BY <1>2
        <4>2. i # Len(es) => es[i + 1] \in Int
          BY <4>1, EntryIs
        <4> QED BY <3>1, <4>2 DEF EndOf
      <3> QED BY <3>1, <3>2, <3>3, StoredIs
    <2> QED BY <2>1, <2>2, <2>3 DEF DefinitionAt, Definition
  <1> HIDE DEF DefinitionAt
  <1> QED BY <1>2, <1>4, <1>5

\* Where an entry, its code and what belongs to it lie.
LEMMA ExtentIs ==
    ASSUME NEW d, IsDict(d), NEW es, NEW names, Lists(d, es, names), NEW i \in 1 .. Len(es)
    PROVE  /\ es[i] \in Int /\ es[i] >= 0 /\ es[i] + 2 \in Address
           /\ CodeIn(d.mem, es[i]) \in Nat /\ es[i] + 5 <= CodeIn(d.mem, es[i])
           /\ EndOf(d, es, i) \in Int /\ CodeIn(d.mem, es[i]) <= EndOf(d, es, i)
           /\ EndOf(d, es, i) <= d.here /\ d.here \in Int
           /\ i < Len(es) => EndOf(d, es, i) <= es[Len(es)] /\ es[Len(es)] \in Int
  <1>1. /\ es[i] \in Int /\ es[i] >= 0 /\ Len(names[i]) \in Nat
        /\ LengthAt(d.mem, es[i]) \in Int /\ es[i] + 4 + Len(names[i]) < MemSize
        /\ CodeIn(d.mem, es[i]) = es[i] + 4 + LengthAt(d.mem, es[i])
        /\ CodeIn(d.mem, es[i]) >= es[i] + 5 + Len(names[i])
    BY EntryIs
  <1>2. Len(es) \in Nat /\ d.here \in Int
    BY Sizes DEF Lists, IsDict
  <1>3. CodeIn(d.mem, es[i]) <= EndOf(d, es, i)
    BY DEF Lists, EntryAt, EndOf
  <1> DEFINE e == es[i]
             n == Len(names[i])
             l == LengthAt(d.mem, e)
             c == CodeIn(d.mem, e)
             b == EndOf(d, es, i)
  <1>4. /\ e \in Int /\ e >= 0 /\ e + 2 \in Address /\ c \in Nat /\ e + 5 <= c
        /\ c <= b /\ d.here \in Int
    <2>1. /\ e \in Int /\ e >= 0 /\ n \in Nat /\ l \in Int /\ e + 4 + n < MemSize
          /\ c = e + 4 + l /\ c >= e + 5 + n /\ c <= b
      BY <1>1, <1>3
    <2> HIDE DEF e, n, l, c, b
    <2> QED BY <1>2, <2>1, Sizes DEF Address
  <1>5. CASE i = Len(es)
    <2>1. b = d.here /\ ~ (i < Len(es))
      BY <1>2, <1>5 DEF EndOf
    <2> HIDE DEF e, c, b
    <2>2. b \in Int /\ b <= d.here
      BY <1>4, <2>1
    <2> QED BY <1>4, <2>1, <2>2 DEF e, c, b
  <1>6. CASE i < Len(es)
    <2>1. i + 1 \in 1 .. Len(es) /\ Len(es) \in 1 .. Len(es)
      BY <1>2, <1>6
    <2>2. \A j \in 1 .. Len(es) : /\ es[j] \in Int /\ CodeIn(d.mem, es[j]) \in Int
                                  /\ es[j] <= CodeIn(d.mem, es[j])
      <3> TAKE j \in 1 .. Len(es)
      <3>1. /\ es[j] \in Int /\ Len(names[j]) \in Nat
            /\ LengthAt(d.mem, es[j]) \in Int
            /\ CodeIn(d.mem, es[j]) = es[j] + 4 + LengthAt(d.mem, es[j])
            /\ CodeIn(d.mem, es[j]) >= es[j] + 5 + Len(names[j])
        BY EntryIs
      <3> QED BY <3>1
    <2>3. es[i + 1] <= es[Len(es)]
      <3>1. CASE i + 1 = Len(es)
        BY <2>1, <2>2, <3>1
      <3>2. CASE i + 1 < Len(es)
        <4>1. CodeIn(d.mem, es[i + 1]) <= es[Len(es)]
          BY <2>1, <3>2, Ordered
        <4> QED BY <2>1, <2>2, <4>1
      <3> QED BY <1>2, <1>6, <3>1, <3>2
    <2>4. es[i + 1] <= d.here
      <3>1. CodeIn(d.mem, es[i + 1]) <= d.here
        BY <2>1, Ordered
      <3> QED BY <1>2, <2>1, <2>2, <3>1
    <2>5. EndOf(d, es, i) = es[i + 1]
      BY <1>6, <1>2 DEF EndOf
    <2> QED BY <1>4, <2>1, <2>2, <2>3, <2>4, <2>5
  <1> QED BY <1>2, <1>5, <1>6

\* The code of an entry and what is stored there, when at most the flags of the
\* entry change and more is stored behind it.
LEMMA BodyGrows ==
    ASSUME NEW d, IsDict(d), NEW es, NEW names, Lists(d, es, names), NEW i \in 1 .. Len(es),
           NEW m \in [Address -> Byte], NEW c \in Int, EndOf(d, es, i) <= c,
           \A x \in Address : x >= es[i] /\ x < EndOf(d, es, i) /\ x # es[i] + 2 => m[x] = d.mem[x]
    PROVE  \E s \in {Stored(d.mem, CodeIn(d.mem, es[i]), EndOf(d, es, i))},
              t \in {Stored(m, CodeIn(m, es[i]), c)} :
                 /\ Len(s) <= Len(t) /\ s = SubSeq(t, 1, Len(s))
                 /\ EndOf(d, es, i) = c => s = t
  <1> DEFINE a == CodeIn(d.mem, es[i])
             b == EndOf(d, es, i)
  <1>1. /\ es[i] \in Int /\ a \in Nat /\ es[i] + 5 <= a /\ b \in Int /\ a <= b
    BY ExtentIs
  <1>2. \A x \in Address : x \in Int
    BY Sizes DEF Address
  <1>3. CodeIn(m, es[i]) = a
    <2>1. \A x \in Entry(d, es[i]) : m[x] = d.mem[x]
      <3> TAKE x \in Entry(d, es[i])
      <3>1. x \in Address /\ x \in Int /\ x >= es[i] /\ x < a /\ x # es[i] + 2
        BY <1>2, Sizes DEF Entry
      <3>2. x < b
        BY <1>1, <3>1
      <3> QED BY <3>1, <3>2
    <2> QED BY <2>1, EntryKept
  <1>4. \A x \in Address : x >= a /\ x < b => m[x] = d.mem[x]
    <2> TAKE x \in Address
    <2> HAVE x >= a /\ x < b
    <2>1. x >= es[i] /\ x # es[i] + 2
      BY <1>1, <1>2
    <2> QED BY <2>1
  <1>5. d.mem \in [Address -> Byte]
    BY DEF IsDict
  <1> HIDE DEF a, b
  <1>6. /\ Len(Stored(d.mem, a, b)) <= Len(Stored(m, a, c))
        /\ Stored(d.mem, a, b) = SubSeq(Stored(m, a, c), 1, Len(Stored(d.mem, a, b)))
        /\ b = c => Stored(d.mem, a, b) = Stored(m, a, c)
    <2>1. b <= c
      BY DEF b
    <2> QED BY <1>1, <1>4, <1>5, <2>1, StoredGrows
  <1> QED BY <1>3, <1>6 DEF a, b

\* A definition whose bytes are left alone is left alone.
LEMMA DefinitionSame ==
    ASSUME NEW d, IsDict(d), NEW es, NEW names, Lists(d, es, names), NEW i \in 1 .. Len(es),
           NEW e, IsDict(e), NEW others, NEW called,
           others[i] = es[i], called[i] = names[i], EndOf(e, others, i) = EndOf(d, es, i),
           \A x \in Address : x >= es[i] /\ x < EndOf(d, es, i) => e.mem[x] = d.mem[x]
    PROVE  DefinitionAt(e, others, called, i) = DefinitionAt(d, es, names, i)
  <1>1. /\ es[i] \in Int /\ es[i] + 2 \in Address /\ CodeIn(d.mem, es[i]) \in Nat
        /\ es[i] + 5 <= CodeIn(d.mem, es[i]) /\ EndOf(d, es, i) \in Int
        /\ CodeIn(d.mem, es[i]) <= EndOf(d, es, i)
    BY ExtentIs
  <1>2. e.mem \in [Address -> Byte]
    BY DEF IsDict
  <1>3. HasFlag(e.mem, es[i], F_IMMEDIATE) = HasFlag(d.mem, es[i], F_IMMEDIATE)
    <2>1. es[i] + CellSize = es[i] + 2 /\ es[i] + 2 >= es[i] /\ es[i] + 2 < EndOf(d, es, i)
      BY <1>1, Sizes
    <2>2. e.mem[es[i] + CellSize] = d.mem[es[i] + CellSize]
      BY <1>1, <2>1
    <2> QED BY <2>2 DEF HasFlag
  <1>4. Stored(d.mem, CodeIn(d.mem, es[i]), EndOf(d, es, i))
           = Stored(e.mem, CodeIn(e.mem, es[i]), EndOf(d, es, i))
    <2>1. EndOf(d, es, i) <= EndOf(d, es, i)
      BY <1>1
    <2> QED BY <1>1, <1>2, <2>1, BodyGrows
  <1> QED BY <1>3, <1>4 DEF DefinitionAt

\* The steps of Vocabulary from the words w to the words v.
DefineStep(w, v) == /\ Len(v) = Len(w) + 1
                    /\ SubSeq(v, 1, Len(v) - 1) = w
                    /\ v[Len(v)].immediate = FALSE
ChangeStep(w, v) == /\ w # <<>> /\ Len(v) = Len(w)
                    /\ SubSeq(v, 1, Len(v) - 1) = SubSeq(w, 1, Len(w) - 1)
                    /\ v[Len(v)].name = w[Len(w)].name
GrowStep(w, v)   == /\ ChangeStep(w, v)
                    /\ v[Len(v)].immediate = w[Len(w)].immediate
                    /\ Vocab!IsPrefix(w[Len(w)].body, v[Len(v)].body)
MarkStep(w, v)   == /\ ChangeStep(w, v)
                    /\ v[Len(v)].immediate = TRUE
                    /\ v[Len(v)].body = w[Len(w)].body

LEMMA StepsOfVocabulary ==
    ASSUME DefineStep(words, words') \/ GrowStep(words, words') \/ MarkStep(words, words')
           \/ words' = words
    PROVE  [Vocab!Next]_words
  BY DEF DefineStep, ChangeStep, GrowStep, MarkStep, Vocab!Next, Vocab!Define, Vocab!Grow,
         Vocab!MarkImmediate, Vocab!Changes, Vocab!Newest, Vocab!Older

\* The newest definition changes, the others do not.
LEMMA ChangeIs ==
    ASSUME NEW d, IsDict(d), NEW es, NEW names, Lists(d, es, names), es # <<>>,
           NEW e, IsDict(e), e.latest = d.latest, e.here >= d.here,
           \A a \in Address : a < d.here => e.mem[a] = d.mem[a] \/ a = d.latest + CellSize
    PROVE  /\ ChangeStep(DefinitionsOf(d), DefinitionsOf(e))
           /\ \E w \in {DefinitionAt(d, es, names, Len(es))}, v \in {DefinitionAt(e, es, names, Len(es))} :
                 /\ DefinitionsOf(d)[Len(DefinitionsOf(d))] = w
                 /\ DefinitionsOf(e)[Len(DefinitionsOf(e))] = v
                 /\ Vocab!IsPrefix(w.body, v.body)
                 /\ e.here = d.here => v.body = w.body
           /\ es[Len(es)] = d.latest /\ d.latest + CellSize \in Address /\ d.latest + CellSize < d.here
  <1> DEFINE n == Len(es)
             w == DefinitionsOf(d)
             v == DefinitionsOf(e)
  <1>1. n \in Nat /\ n \in 1 .. n /\ n # 0 /\ d.latest = es[n]
    BY DEF Lists
  <1>2. Lists(e, es, names)
    BY ListKept
  <1>3. /\ w \in Seq(Definition) /\ Len(w) = n
        /\ \A i \in 1 .. n : w[i] = DefinitionAt(d, es, names, i)
    BY DefinitionsAre
  <1>4. /\ v \in Seq(Definition) /\ Len(v) = n
        /\ \A i \in 1 .. n : v[i] = DefinitionAt(e, es, names, i)
    BY <1>2, DefinitionsAre
  <1>5. \A a \in Address : a \in Int
    BY Sizes DEF Address
  <1>6. ASSUME NEW i \in 1 .. n - 1
        PROVE  v[i] = w[i]
    <2>1. i \in 1 .. n /\ i < Len(es)
      BY <1>1
    <2>2. /\ EndOf(d, es, i) \in Int /\ EndOf(d, es, i) <= d.here /\ d.here \in Int
          /\ EndOf(d, es, i) <= es[n] /\ es[n] \in Int
      BY <2>1, ExtentIs
    <2>3. \A x \in Address : x >= es[i] /\ x < EndOf(d, es, i) => e.mem[x] = d.mem[x]
      <3> TAKE x \in Address
      <3> HAVE x >= es[i] /\ x < EndOf(d, es, i)
      <3>1. x < d.here /\ x < es[n]
        BY <1>5, <2>2
      <3>2. x # d.latest + CellSize
        BY <1>1, <1>5, <2>2, <3>1, Sizes
      <3> QED BY <3>1, <3>2
    <2>4. EndOf(e, es, i) = EndOf(d, es, i)
      BY <1>1 DEF EndOf
    <2>5. DefinitionAt(e, es, names, i) = DefinitionAt(d, es, names, i)
      BY <2>1, <2>3, <2>4, DefinitionSame
    <2> QED BY <1>3, <1>4, <2>1, <2>5
  <1>7. /\ w[n] = DefinitionAt(d, es, names, n) /\ v[n] = DefinitionAt(e, es, names, n)
        /\ v[n].name = w[n].name
    BY <1>1, <1>3, <1>4 DEF DefinitionAt
  <1>8. ChangeStep(w, v)
    <2> HIDE DEF w, v
    <2>1. SubSeq(v, 1, n - 1) = SubSeq(w, 1, n - 1)
      <3>1. \A i \in 1 .. n - 1 : v[i] = w[i]
        BY <1>6
      <3> HIDE DEF n
      <3> QED BY <1>1, <1>3, <1>4, <3>1
    <2>2. w # <<>>
      BY <1>1, <1>3
    <2> QED BY <1>3, <1>4, <1>7, <2>1, <2>2 DEF ChangeStep
  <1>9. /\ EndOf(d, es, n) = d.here /\ EndOf(e, es, n) = e.here
        /\ d.here \in Int /\ e.here \in Int /\ d.here <= e.here
    BY Sizes DEF EndOf, IsDict
  <1>10. \A x \in Address : x >= es[n] /\ x < EndOf(d, es, n) /\ x # es[n] + 2 => e.mem[x] = d.mem[x]
    <2>1. d.latest + CellSize = es[n] + 2
      BY <1>1, Sizes
    <2> QED BY <1>9, <2>1
  <1>11. /\ Vocab!IsPrefix(w[n].body, v[n].body)
         /\ e.here = d.here => v[n].body = w[n].body
    <2> DEFINE s == Stored(d.mem, CodeIn(d.mem, es[n]), EndOf(d, es, n))
               t == Stored(e.mem, CodeIn(e.mem, es[n]), e.here)
    <2>0. e.mem \in [Address -> Byte]
      BY DEF IsDict
    <2>1. /\ Len(s) <= Len(t) /\ s = SubSeq(t, 1, Len(s))
          /\ EndOf(d, es, n) = e.here => s = t
      BY <1>1, <1>9, <1>10, <2>0, BodyGrows
    <2>2. w[n].body = s /\ v[n].body = t
      BY <1>7, <1>9 DEF DefinitionAt
    <2> HIDE DEF s, t
    <2> QED BY <1>9, <2>1, <2>2 DEF Vocab!IsPrefix
  <1>12. d.latest + CellSize \in Address /\ d.latest + CellSize < d.here
    <2>1. /\ es[n] \in Int /\ es[n] + 2 \in Address
          /\ es[n] + 5 <= CodeIn(d.mem, es[n]) /\ CodeIn(d.mem, es[n]) \in Nat
          /\ CodeIn(d.mem, es[n]) <= EndOf(d, es, n)
      BY <1>1, ExtentIs
    <2> QED BY <1>1, <1>9, <2>1, Sizes
  <1> QED BY <1>1, <1>3, <1>4, <1>7, <1>8, <1>11, <1>12

-----------------------------------------------------------------------------
(* The steps of the dictionary.                                            *)

\* What is placed behind a header leaves the header alone.
Follows(h, e) == Grows(h, e) /\ e.latest = h.latest /\ (h.status # "running" => e = h)

LEMMA FollowsTwice ==
    ASSUME NEW d, IsDict(d), NEW e, NEW f, Follows(d, e), Follows(e, f)
    PROVE  Follows(d, f)
  BY GrowsTwice DEF Follows

LEMMA FollowsItself == ASSUME NEW d, IsDict(d) PROVE Follows(d, d)
  <1>1. d.here \in Int
    BY Sizes DEF IsDict
  <1> QED BY <1>1 DEF Follows, Grows

LEMMA FailedFollows ==
    ASSUME NEW d, IsDict(d), d.status = "running", NEW s \in {"undefined", "abort", "hangs"}
    PROVE  Follows(d, Failed(d, s))
  <1>1. Failed(d, s).latest = d.latest
    BY DEF Failed, IsDict
  <1> QED BY <1>1, FailedGrows DEF Follows

LEMMA PlaceCellFollows ==
    ASSUME NEW d, IsDict(d), NEW v \in Cell
    PROVE  Follows(d, PlaceCell(d, v))
  <1>1. Grows(d, PlaceCell(d, v))
    BY PlaceCellGrows
  <1>2. PlaceCell(d, v).latest = d.latest /\ (d.status # "running" => PlaceCell(d, v) = d)
    BY DEF PlaceCell, Extends, Failed, IsDict
  <1> QED BY <1>1, <1>2 DEF Follows

LEMMA PlaceWordFollows ==
    ASSUME NEW d, IsDict(d), NEW w
    PROVE  Follows(d, PlaceWord(d, w))
  <1> DEFINE e == FindIn(d, WordName(w))
  <1>1. e \in Address => e \in Cell
    <2> HIDE DEF e
    <2> QED BY Sizes DEF Address
  <1>2. CASE d.status # "running"
    BY <1>2, FollowsItself DEF PlaceWord
  <1>3. CASE d.status = "running"
    <2>1. \/ e \in Address /\ PlaceWord(d, w) = PlaceCell(d, e)
          \/ \E s \in {"undefined", "abort", "hangs"} : PlaceWord(d, w) = Failed(d, s)
      BY <1>3 DEF PlaceWord
    <2> HIDE DEF e
    <2> QED BY <1>1, <1>3, <2>1, PlaceCellFollows, FailedFollows
  <1> QED BY <1>2, <1>3

LEMMA PushingFollows ==
    ASSUME NEW d, IsDict(d), NEW v \in Cell
    PROVE  Follows(d, Pushing(d, v))
  <1> DEFINE e == PlaceCell(d, v)
  <1>1. Follows(d, e)
    BY PlaceCellFollows
  <1> HIDE DEF e
  <1>2. IsDict(e) /\ -1 \in Cell
    BY <1>1, Sizes, SmallCells DEF Follows, Grows
  <1>3. Follows(e, PlaceCell(e, -1))
    BY <1>2, PlaceCellFollows
  <1> QED BY <1>1, <1>3, FollowsTwice DEF Pushing, e

\* Lists for more names, and for a dictionary that differs in its status.
LEMMA MoreNames ==
    ASSUME NEW d, NEW es, NEW names, Lists(d, es, names), NEW name, name \in Seq(Byte \ {0}),
           NEW e, e.mem = d.mem, e.here = d.here, e.latest = d.latest
    PROVE  Lists(e, es, Append(names, name))
  <1>1. /\ Len(es) \in Nat /\ Len(names) \in Nat /\ Len(es) <= Len(names)
        /\ names \in Seq(Seq(Byte \ {0}))
    BY DEF Lists
  <1>2. /\ Append(names, name) \in Seq(Seq(Byte \ {0}))
        /\ Len(Append(names, name)) = Len(names) + 1
        /\ \A i \in 1 .. Len(names) : Append(names, name)[i] = names[i]
    BY <1>1
  <1>3. \A i \in 1 .. Len(es) : i \in 1 .. Len(names)
    BY <1>1
  <1>4. \A i \in 1 .. Len(es) : EntryAt(e, es, Append(names, name), i)
    BY <1>2, <1>3 DEF Lists, EntryAt
  <1> QED BY <1>1, <1>2, <1>4 DEF Lists

\* A definition adds a word, or comes to nothing.
LEMMA DefineIs ==
    ASSUME NEW d, IsDict(d), d.status = "running", NEW es, NEW names, Lists(d, es, names),
           Len(names) = Len(es), NEW name, name \in Seq(Byte \ {0}), Len(name) + 2 < F_BUILTIN,
           NEW flags \in Byte, flags % 2 = 0, NEW e, Follows(Header(d, name, flags), e)
    PROVE  /\ \E more : /\ Lists(e, more, Append(names, name))
                        /\ e.status = "running" => Len(more) = Len(Append(names, name))
           /\ \/ DefineStep(DefinitionsOf(d), DefinitionsOf(e))
              \/ DefinitionsOf(e) = DefinitionsOf(d)
  <1> DEFINE h == Header(d, name, flags)
  <1>0. /\ name \in Seq(Byte) /\ IsDict(e) /\ Len(es) \in Nat /\ names \in Seq(Seq(Byte \ {0}))
        /\ es \in Seq(Address)
    BY DEF Follows, Grows, Lists
  <1>1. /\ DefinitionsOf(d) \in Seq(Definition) /\ Len(DefinitionsOf(d)) = Len(es)
        /\ \A i \in 1 .. Len(es) : DefinitionsOf(d)[i] = DefinitionAt(d, es, names, i)
    BY DefinitionsAre
  <1>2. CASE h.status # "running"
    <2>1. h = Failed(d, "undefined")
      BY <1>0, <1>2, HeaderBytes
    <2>2. e = Failed(d, "undefined")
      BY <1>2, <2>1 DEF Follows
    <2>3. e.mem = d.mem /\ e.here = d.here /\ e.latest = d.latest /\ e.status # "running"
      BY <2>2 DEF Failed, IsDict
    <2>4. Lists(e, es, Append(names, name))
      BY <2>3, MoreNames
    <2>5. /\ DefinitionsOf(e) \in Seq(Definition) /\ Len(DefinitionsOf(e)) = Len(es)
          /\ \A i \in 1 .. Len(es) : DefinitionsOf(e)[i] = DefinitionAt(e, es, Append(names, name), i)
      BY <1>0, <2>4, DefinitionsAre
    <2>6. \A i \in 1 .. Len(es) : DefinitionsOf(e)[i] = DefinitionsOf(d)[i]
      <3>1. \A i \in 1 .. Len(es) : Append(names, name)[i] = names[i]
        BY <1>0
      <3> QED BY <1>1, <2>3, <2>5, <3>1 DEF DefinitionAt, EndOf
    <2>7. DefinitionsOf(e) = DefinitionsOf(d)
      BY <1>1, <2>5, <2>6
    <2> QED BY <2>3, <2>4, <2>7
  <1>3. CASE h.status = "running"
    <2> DEFINE more   == Append(es, d.here)
               called == Append(names, name)
    <2>1. /\ IsDict(h) /\ h.latest = d.here /\ d.here \in Address
          /\ Lists(h, more, called)
          /\ h.mem[d.here + CellSize] = flags
          /\ \A a \in Address : a < d.here => h.mem[a] = d.mem[a]
          /\ d.here + CellSize < h.here
      BY <1>3, HeaderLists
    <2>2. /\ e.latest = h.latest /\ e.here >= h.here
          /\ \A a \in Address : a < h.here => e.mem[a] = h.mem[a]
      BY DEF Follows, Grows
    <2>3. /\ Len(more) = Len(es) + 1 /\ Len(called) = Len(names) + 1
          /\ \A i \in 1 .. Len(es) : more[i] = es[i] /\ called[i] = names[i]
          /\ more[Len(es) + 1] = d.here
      BY <1>0, <2>1
    <2> HIDE DEF h, more, called
    <2>4. Lists(e, more, called)
      BY <1>0, <2>1, <2>2, ListKept
    <2>5. /\ DefinitionsOf(e) \in Seq(Definition) /\ Len(DefinitionsOf(e)) = Len(es) + 1
          /\ \A i \in 1 .. Len(es) + 1 : DefinitionsOf(e)[i] = DefinitionAt(e, more, called, i)
      BY <1>0, <2>3, <2>4, DefinitionsAre
    <2>6. d.here \in Int /\ h.here \in Int /\ \A a \in Address : a \in Int
      BY <2>1, Sizes DEF IsDict, Address
    <2>7. ASSUME NEW i \in 1 .. Len(es) PROVE DefinitionsOf(e)[i] = DefinitionsOf(d)[i]
      <3>1. i \in 1 .. Len(es) + 1 /\ i # Len(es) + 1 /\ (i # Len(es) => i + 1 \in 1 .. Len(es))
            /\ (i = Len(es) => i + 1 = Len(es) + 1)
        BY <1>0
      <3>2. EndOf(e, more, i) = EndOf(d, es, i)
        BY <2>3, <3>1 DEF EndOf
      <3>3. EndOf(d, es, i) \in Int /\ EndOf(d, es, i) <= d.here
        BY ExtentIs
      <3>4. \A x \in Address : x >= es[i] /\ x < EndOf(d, es, i) => e.mem[x] = d.mem[x]
        <4> TAKE x \in Address
        <4> HAVE x >= es[i] /\ x < EndOf(d, es, i)
        <4>1. x < d.here /\ x < h.here
          BY <2>1, <2>6, <3>3, Sizes
        <4> QED BY <2>1, <2>2, <4>1
      <3>5. more[i] = es[i] /\ called[i] = names[i]
        BY <2>3
      <3>6. DefinitionAt(e, more, called, i) = DefinitionAt(d, es, names, i)
        <4>1. IsDict(d) /\ IsDict(e) /\ Lists(d, es, names)
          BY <1>0
        <4> QED BY ONLY <3>2, <3>4, <3>5, <4>1, i \in 1 .. Len(es), DefinitionSame
      <3> QED BY <1>1, <2>5, <3>1, <3>6
    <2>8. DefinitionsOf(e)[Len(es) + 1].immediate = FALSE
      <3>1. d.here + CellSize \in Address
        <4>1. /\ h.latest + CellSize = d.here + 2 /\ Len(es) + 1 \in 1 .. Len(more)
              /\ d.here + CellSize = d.here + 2
          BY <1>0, <2>1, <2>3, <2>6, Sizes
        <4>2. more[Len(es) + 1] + 2 \in Address
          BY <2>1, <4>1, ExtentIs
        <4> QED BY <2>3, <4>1, <4>2
      <3>2. e.mem[d.here + CellSize] = flags
        BY <2>1, <2>2, <3>1
      <3>3. (flags \div 1) % 2 = 0
        <4>1. flags \in Int
          BY Sizes DEF Byte
        <4>2. flags \div 1 = flags
          BY <4>1
        <4> QED BY <4>2
      <3>4. ~ HasFlag(e.mem, d.here, F_IMMEDIATE)
        BY <3>2, <3>3 DEF HasFlag, F_IMMEDIATE
      <3>5. Len(es) + 1 \in 1 .. Len(es) + 1
        BY <1>0
      <3>6. HasFlag(e.mem, d.here, F_IMMEDIATE) \in BOOLEAN
        BY DEF HasFlag
      <3> QED BY <2>3, <2>5, <3>4, <3>5, <3>6 DEF DefinitionAt
    <2>9. DefineStep(DefinitionsOf(d), DefinitionsOf(e))
      <3> DEFINE w == DefinitionsOf(d)
                 v == DefinitionsOf(e)
                 n == Len(es)
      <3>1. /\ w \in Seq(Definition) /\ v \in Seq(Definition) /\ Len(w) = n /\ Len(v) = n + 1
            /\ n \in Nat /\ \A i \in 1 .. n : v[i] = w[i]
        BY <1>0, <1>1, <2>5, <2>7
      <3> HIDE DEF w, v, n
      <3>2. SubSeq(v, 1, n) = w /\ n + 1 - 1 = n
        BY <3>1
      <3>3. v[n + 1].immediate = FALSE
        BY <2>8 DEF v, n
      <3> QED BY <3>1, <3>2, <3>3 DEF DefineStep, w, v
    <2> QED BY <2>3, <2>4, <2>9 DEF called
  <1> QED BY <1>2, <1>3

-----------------------------------------------------------------------------
LEMMA InitIsDict == MCInit => DictInv
  <1> SUFFICES ASSUME MCInit PROVE DictInv
    OBVIOUS
  <1>1. mem \in [Address -> Byte] /\ retstack \in [Slot -> Cell]
    BY SmallCells DEF MCInit, WordsInit
  <1>2. /\ stack = <<>> /\ output = <<>> /\ status = "running"
        /\ here = 0 /\ retstacktop = -1 /\ latest = -1
    BY DEF MCInit, WordsInit
  <1>3. <<>> \in Seq(Cell) /\ Len(<<>>) = 0 /\ <<>> \in Seq(Items)
    OBVIOUS
  <1>4. Depth <= StackSize /\ status \in Statuses
    BY <1>2, <1>3, SmallCells DEF Depth, Statuses
  <1>5. WordsTypeOK
    BY <1>1, <1>2, <1>3, <1>4, SmallCells DEF WordsTypeOK
  <1>6. latest = -1
    BY DEF MCInit
  <1>7. LatestIs(latest)
    BY <1>6 DEF LatestIs
  <1> QED BY <1>5, <1>7 DEF DictInv

\* What lies below here, but for the flags of the latest entry, is left alone.
Keeps == \A a \in Address : a < here => mem'[a] = mem[a] \/ a = latest + CellSize

\* The comma writes at here, ALLOT and a number on the stack write nothing.
LEMMA MemoryKeeps ==
    ASSUME DictInv, UNCHANGED latest, Comma \/ Allot \/ \E v \in Literals : Push(v)
    PROVE  DictInv' /\ Keeps
  <1>1. WordsTypeOK'
    BY MemoryWordsTyped, PushTyped, MCNamesAssumption DEF DictInv
  <1>2. DictInv'
    BY <1>1 DEF DictInv, LatestIs
  <1>3. ASSUME mem' = mem PROVE Keeps
    BY <1>3 DEF Keeps
  <1>4. ASSUME Holds(here, CellSize), mem' = PutCell(mem, here, Top) PROVE Keeps
    <2>1. mem \in [Address -> Byte] /\ here \in Int
      BY SmallCells DEF DictInv, WordsTypeOK
    <2>2. SUFFICES ASSUME NEW a \in Address, a < here PROVE mem'[a] = mem[a]
      BY DEF Keeps
    <2>3. a # here /\ a # here + 1
      BY <2>1, <2>2, SmallCells DEF Address
    <2> QED BY <1>4, <2>1, <2>3 DEF PutCell
  <1>5. mem' = mem \/ (Holds(here, CellSize) /\ mem' = PutCell(mem, here, Top))
    BY DEF Comma, Allot, Push, Replace, Needs, Aborts, Dies, Undefined, Stops
  <1> QED BY <1>2, <1>3, <1>4, <1>5

-----------------------------------------------------------------------------
(* The invariant.                                                          *)

\* The names are short enough for their padded length to be a char, and the
\* numbers a program pushes are none that ALLOT goes back by.
ShortNames == \A name \in Names \cup {WordName("LITNUMBER")} : Len(name) + 2 < F_BUILTIN
Forwards   == Literals \subseteq Nat

\* The entries are those of the names that were given, in their order.
WordsListed == \E es : Lists(Dict, es, given) /\ (status = "running" => Len(es) = Len(given))

Listed == /\ DictInv
          /\ words = Definitions
          /\ stack \in Seq(Literals)
          /\ WordsListed

LEMMA BecomesIs == ASSUME NEW d, IsDict(d), Becomes(d) PROVE Dict' = d
  <1>1. d = [mem |-> d.mem, here |-> d.here, latest |-> d.latest, status |-> d.status]
    BY DEF IsDict
  <1>2. Dict' = [mem |-> mem', here |-> here', latest |-> latest', status |-> status']
    BY DEF Dict
  <1> QED BY <1>1, <1>2 DEF Becomes

\* What the defining words do.
LEMMA DefinesIs ==
    ASSUME DictInv, status = "running", NEW name, name \in Seq(Byte),
           \/ Create(name) \/ Constant(name) \/ Colon(name)
           \/ Becomes(Register(Dict, name, 0, 1)) /\ UNCHANGED stack
    PROVE  /\ \E flags \in {0, F_BUILTIN} : Follows(Header(Dict, name, flags), Dict')
           /\ stack' = stack \/ (Depth > 0 /\ stack' = Rest(1))
  <1>1. /\ IsDict(Dict) /\ Dict.latest \in Cell /\ 0 \in Byte /\ F_BUILTIN \in Byte
        /\ F_BUILTIN + 0 = F_BUILTIN
    BY DictIsDict, Sizes DEF F_BUILTIN, Byte
  <1> DEFINE h == Header(Dict, name, 0)
             d == NewLiteral(name)
  <1>2. IsDict(h) /\ IsDict(Header(Dict, name, F_BUILTIN))
    BY <1>1, HeaderGrows DEF Grows
  <1>3. Follows(h, d) /\ IsDict(d)
    BY <1>2, PlaceWordFollows DEF NewLiteral, Follows, Grows
  <1> HIDE DEF h, d
  <1>4. \A v \in Cell : Follows(h, Pushing(d, v)) /\ IsDict(Pushing(d, v))
    <2> TAKE v \in Cell
    <2>1. Follows(d, Pushing(d, v))
      BY <1>3, PushingFollows
    <2>2. Follows(h, Pushing(d, v))
      BY <1>2, <1>3, <2>1, FollowsTwice
    <2> QED BY <2>1, <2>2 DEF Follows, Grows
  <1>5. CASE Create(name)
    <2>1. d.here + 2 * CellSize \in Cell
      <3>1. d.here \in 0 .. MemSize + CellSize
        BY <1>3 DEF IsDict
      <3> QED BY <3>1, Sizes
    <2>2. Becomes(Pushing(d, d.here + 2 * CellSize)) /\ UNCHANGED stack
      BY <1>5 DEF Create, d
    <2>3. Dict' = Pushing(d, d.here + 2 * CellSize)
      BY <1>4, <2>1, <2>2, BecomesIs
    <2> QED BY <1>4, <2>1, <2>2, <2>3 DEF h
  <1>6. CASE Constant(name)
    <2>1. CASE Becomes(d) /\ UNCHANGED stack
      <3>1. Dict' = d
        BY <1>3, <2>1, BecomesIs
      <3> QED BY <1>3, <2>1, <3>1 DEF h
    <2>2. CASE d.status = "running" /\ Becomes(Failed(d, "abort")) /\ UNCHANGED stack
      <3>1. Follows(d, Failed(d, "abort"))
        BY <1>3, <2>2, FailedFollows
      <3>2. Follows(h, Failed(d, "abort")) /\ IsDict(Failed(d, "abort"))
        BY <1>2, <1>3, <3>1, FollowsTwice DEF Follows, Grows
      <3>3. Dict' = Failed(d, "abort")
        BY <2>2, <3>2, BecomesIs
      <3> QED BY <2>2, <3>2, <3>3 DEF h
    <2>3. CASE Depth > 0 /\ Becomes(Pushing(d, Top)) /\ stack' = Rest(1)
      <3>1. Top \in Cell
        <4>1. Depth \in Nat
          BY TopsAreCells DEF DictInv, WordsTypeOK
        <4>2. Depth >= 1
          BY <2>3, <4>1
        <4> QED BY <4>1, <4>2, TopsAreCells DEF DictInv, WordsTypeOK
      <3>2. Dict' = Pushing(d, Top)
        BY <1>4, <2>3, <3>1, BecomesIs
      <3> QED BY <1>4, <2>3, <3>1, <3>2 DEF h
    <2> QED BY <1>6, <2>1, <2>2, <2>3 DEF Constant, d
  <1>7. CASE Colon(name)
    <2>1. Becomes(h) /\ UNCHANGED stack
      BY <1>7 DEF Colon, h
    <2>2. Dict' = h /\ Follows(h, h)
      BY <1>2, <2>1, BecomesIs, FollowsItself
    <2> QED BY <2>1, <2>2 DEF h
  <1>8. CASE Becomes(Register(Dict, name, 0, 1)) /\ UNCHANGED stack
    <2> DEFINE b == Header(Dict, name, F_BUILTIN)
    <2>1. Register(Dict, name, 0, 1) = PlaceCell(b, 1)
      BY <1>1 DEF Register
    <2> HIDE DEF b
    <2>2. Follows(b, PlaceCell(b, 1)) /\ IsDict(PlaceCell(b, 1))
      <3>1. IsDict(b) /\ 1 \in Cell
        BY <1>2, Sizes DEF b
      <3> QED BY <3>1, PlaceCellFollows DEF Follows, Grows
    <2>3. Dict' = PlaceCell(b, 1)
      BY <1>8, <2>1, <2>2, BecomesIs
    <2> QED BY <1>8, <2>2, <2>3 DEF b
  <1> QED BY <1>5, <1>6, <1>7, <1>8

\* The comma, ALLOT and a number on the stack take here forward.
LEMMA MemoryGoesOn ==
    ASSUME DictInv, Forwards, stack \in Seq(Literals),
           Comma \/ Allot \/ \E v \in Literals : Push(v)
    PROVE  /\ here' >= here /\ stack' \in Seq(Literals)
           /\ \A a \in Address : a < here => mem'[a] = mem[a]
           /\ status' = "running" => status = "running"
  <1>1. /\ mem \in [Address -> Byte] /\ here \in Int /\ here >= 0 /\ here <= MemSize + 2
        /\ Depth \in Nat
    BY Sizes DEF DictInv, WordsTypeOK, Depth
  <1>2. Depth >= 1 => Top \in Literals /\ Top \in Nat /\ Top \in Cell
    <2>1. Depth >= 1 => Top \in Literals
      BY <1>1 DEF Top, Depth
    <2> QED BY <2>1, MCNamesAssumption DEF Forwards
  <1>3. Rest(1) \in Seq(Literals) \/ Depth < 1
    BY <1>1 DEF Rest, Depth
  <1>4. ASSUME mem' = mem, here' >= here, stack' \in Seq(Literals),
               status' = "running" => status = "running"
        PROVE  /\ here' >= here /\ stack' \in Seq(Literals)
               /\ \A a \in Address : a < here => mem'[a] = mem[a]
               /\ status' = "running" => status = "running"
    BY <1>4
  <1>5. CASE Aborts \/ Dies \/ Undefined
    <2>1. mem' = mem /\ here' = here /\ stack' = stack /\ status' # "running"
      BY <1>5 DEF Aborts, Dies, Undefined, Stops
    <2> QED BY <1>1, <2>1
  <1>6. CASE Comma /\ ~ (Aborts \/ Dies \/ Undefined)
    <2>1. /\ Depth >= 1 /\ Holds(here, CellSize)
          /\ mem' = PutCell(mem, here, Top) /\ here' = here + CellSize
          /\ stack' = Rest(1) /\ UNCHANGED status
      BY <1>1, <1>6 DEF Comma, Needs
    <2>2. \A a \in Address : a < here => mem'[a] = mem[a]
      <3> SUFFICES ASSUME NEW a \in Address, a < here PROVE mem'[a] = mem[a]
        OBVIOUS
      <3>1. a # here /\ a # here + 1
        BY <1>1, Sizes DEF Address
      <3> QED BY <1>1, <2>1, <3>1 DEF PutCell
    <2>3. here' >= here
      BY <1>1, <2>1, Sizes
    <2> QED BY <1>1, <1>3, <2>1, <2>2, <2>3
  <1>7. CASE Allot /\ ~ (Aborts \/ Dies \/ Undefined)
    <2>1. /\ Depth >= 1 /\ Wrap(here + Top) \in 0 .. MemSize
          /\ here' = Wrap(here + Top) /\ stack' = Rest(1) /\ UNCHANGED <<mem, status>>
      BY <1>1, <1>7 DEF Allot, Needs
    <2>2. here' >= here
      <3>1. PICK h \in Nat : /\ CellBase = 2 * h /\ MinInt = -h /\ MaxInt = h - 1
                             /\ h >= ByteBase /\ ByteBase >= 2
        BY CellRange
      <3> DEFINE n == here + Top
      <3>2. Top \in Nat /\ Top <= MaxInt
        BY <1>2, <2>1, <3>1 DEF Cell
      <3>3. n \in Int /\ n >= here /\ n >= MinInt /\ n <= MaxInt + CellBase
            /\ n - CellBase < 0
        <4>1. MemSize \in Int /\ MemSize + 6 <= MaxInt
          BY Sizes
        <4> QED BY ONLY <1>1, <3>1, <3>2, <4>1
      <3> HIDE DEF n
      <3>4. Wrap(n) = IF n <= MaxInt THEN n ELSE n - CellBase
        BY <3>3, WrapOnce
      <3>5. here' = Wrap(n) /\ Wrap(n) >= 0
        BY <2>1, Sizes DEF n
      <3> QED BY <3>1, <3>3, <3>4, <3>5
    <2> QED BY <1>1, <1>3, <1>4, <2>1, <2>2
  <1>8. CASE (\E v \in Literals : Push(v)) /\ ~ (Aborts \/ Dies \/ Undefined)
    <2>1. PICK v \in Literals : Push(v)
      BY <1>8
    <2>2. /\ stack' = Rest(0) \o <<v>> /\ UNCHANGED <<mem, here, status>>
      BY <1>1, <1>8, <2>1 DEF Push, Replace, Needs
    <2>3. Rest(0) \in Seq(Literals)
      BY <1>1 DEF Rest, Depth
    <2>4. stack' \in Seq(Literals)
      <3> DEFINE s == Rest(0)
      <3> HIDE DEF s
      <3>1. s \o <<v>> \in Seq(Literals)
        BY <2>3 DEF s
      <3> QED BY <2>2, <3>1 DEF s
    <2> QED BY <1>1, <1>4, <2>2, <2>4
  <1> QED BY <1>5, <1>6, <1>7, <1>8

\* A step of the machine is a step of its vocabulary.
StepsTo == DefineStep(words, words') \/ GrowStep(words, words') \/ MarkStep(words, words')
           \/ words' = words

LEMMA DefinesListed ==
    ASSUME Listed, DictInv', ShortNames, status = "running", words' = Definitions',
           NEW name, name \in Names \cup {WordName("LITNUMBER")}, given' = Append(given, name),
           \/ Create(name) \/ Constant(name) \/ Colon(name)
           \/ Becomes(Register(Dict, name, 0, 1)) /\ UNCHANGED stack
    PROVE  Listed' /\ StepsTo
  <1>1. name \in Seq(Byte \ {0}) /\ Len(name) + 2 < F_BUILTIN
    <2>1. WordName("LITNUMBER") \in Seq(Byte \ {0})
      BY CodeAssumption DEF WordName
    <2> QED BY <2>1, MCNamesAssumption DEF ShortNames
  <1>2. PICK es : Lists(Dict, es, given) /\ Len(es) = Len(given)
    BY DEF Listed, WordsListed
  <1>3. /\ IsDict(Dict) /\ Dict.status = "running" /\ DictInv
    BY DictIsDict DEF Listed, Dict
  <1>4. name \in Seq(Byte)
    BY <1>1
  <1>5. /\ \E flags \in {0, F_BUILTIN} : Follows(Header(Dict, name, flags), Dict')
        /\ stack' = stack \/ (Depth > 0 /\ stack' = Rest(1))
    BY <1>3, <1>4, DefinesIs
  <1>6. PICK flags \in {0, F_BUILTIN} : Follows(Header(Dict, name, flags), Dict')
    BY <1>5
  <1>7. flags \in Byte /\ flags % 2 = 0
    <2>1. Len(name) \in Nat
      BY <1>1
    <2>2. ByteBase # 2
      BY <1>1, <2>1 DEF F_BUILTIN
    <2>3. ByteBase % 4 = 0
      BY <2>2, CellsAssumption
    <2> QED BY <2>3, Sizes DEF F_BUILTIN, Byte
  <1>8. /\ \E more : /\ Lists(Dict', more, Append(given, name))
                     /\ Dict'.status = "running" => Len(more) = Len(Append(given, name))
        /\ \/ DefineStep(DefinitionsOf(Dict), DefinitionsOf(Dict'))
           \/ DefinitionsOf(Dict') = DefinitionsOf(Dict)
    BY <1>1, <1>2, <1>3, <1>6, <1>7, DefineIs
  <1>9. WordsListed'
    <2>1. Dict'.status = status'
      BY DEF Dict
    <2> QED BY <1>8, <2>1 DEF WordsListed
  <1>10. StepsTo
    BY <1>8 DEF StepsTo, Listed, Definitions
  <1>11. stack' \in Seq(Literals)
    <2>1. stack \in Seq(Literals) /\ Depth \in Nat
      BY DEF Listed, Depth
    <2>2. Depth > 0 => Rest(1) \in Seq(Literals)
      BY <2>1 DEF Rest, Depth
    <2> QED BY <1>5, <2>1, <2>2
  <1> QED BY <1>9, <1>10, <1>11 DEF Listed

LEMMA NextIsDict == ASSUME DictInv' PROVE IsDict(Dict')
  <1>1. latest' \in Int /\ LatestIs(latest')
    BY Sizes DEF DictInv, LatestIs
  <1> QED BY <1>1 DEF DictInv, Dict, IsDict, WordsTypeOK

\* The newest definition grows.
LEMMA GrowsListed ==
    ASSUME Listed, DictInv', words' = Definitions', UNCHANGED <<given, latest>>, latest # -1,
           here' >= here, \A a \in Address : a < here => mem'[a] = mem[a],
           status' = "running" => status = "running", stack' \in Seq(Literals)
    PROVE  Listed' /\ StepsTo
  <1>1. PICK es : Lists(Dict, es, given) /\ (status = "running" => Len(es) = Len(given))
    BY DEF Listed, WordsListed
  <1>2. IsDict(Dict)
    BY DictIsDict DEF Listed
  <1>3. IsDict(Dict')
    BY NextIsDict
  <1>4. /\ Dict.mem = mem /\ Dict.here = here /\ Dict.latest = latest
        /\ Dict'.mem = mem' /\ Dict'.here = here' /\ Dict'.latest = latest
    BY DEF Dict
  <1>5. es # <<>>
    BY <1>1, <1>4 DEF Lists
  <1> DEFINE d == Dict
             e == Dict'
  <1>6. /\ IsDict(d) /\ IsDict(e) /\ Lists(d, es, given) /\ e.latest = d.latest /\ e.here >= d.here
        /\ \A a \in Address : a < d.here => e.mem[a] = d.mem[a]
    BY <1>1, <1>2, <1>3, <1>4
  <1> HIDE DEF d, e
  <1>7. Lists(e, es, given)
    BY <1>6, ListKept
  <1>8. GrowStep(DefinitionsOf(d), DefinitionsOf(e))
    <2> DEFINE w == DefinitionAt(d, es, given, Len(es))
               v == DefinitionAt(e, es, given, Len(es))
    <2>1. /\ ChangeStep(DefinitionsOf(d), DefinitionsOf(e))
          /\ DefinitionsOf(d)[Len(DefinitionsOf(d))] = w
          /\ DefinitionsOf(e)[Len(DefinitionsOf(e))] = v
          /\ Vocab!IsPrefix(w.body, v.body)
          /\ es[Len(es)] = d.latest /\ d.latest + CellSize \in Address /\ d.latest + CellSize < d.here
      BY <1>5, <1>6, ChangeIs
    <2>2. v.immediate = w.immediate
      <3>1. e.mem[d.latest + CellSize] = d.mem[d.latest + CellSize]
        BY <1>6, <2>1
      <3> QED BY <2>1, <3>1 DEF DefinitionAt, HasFlag
    <2> HIDE DEF w, v
    <2> QED BY <2>1, <2>2 DEF GrowStep
  <1>9. Lists(Dict', es, given')
    BY <1>7 DEF e
  <1>10. WordsListed'
    BY <1>1, <1>9 DEF WordsListed
  <1>11. StepsTo
    BY <1>8 DEF StepsTo, Listed, Definitions, d, e
  <1> QED BY <1>10, <1>11 DEF Listed

\* The newest definition is marked.
LEMMA MarksListed ==
    ASSUME Listed, DictInv', words' = Definitions', UNCHANGED given, latest # -1, Immediate
    PROVE  Listed' /\ StepsTo
  <1>1. PICK es : Lists(Dict, es, given) /\ (status = "running" => Len(es) = Len(given))
    BY DEF Listed, WordsListed
  <1>2. IsDict(Dict)
    BY DictIsDict DEF Listed
  <1>3. IsDict(Dict')
    BY NextIsDict
  <1>4. /\ Dict.mem = mem /\ Dict.here = here /\ Dict.latest = latest
        /\ Dict'.mem = mem' /\ Dict'.here = here /\ Dict'.latest = latest
        /\ UNCHANGED <<status, stack>>
    BY DEF Dict, Immediate
  <1>5. es # <<>>
    BY <1>1, <1>4 DEF Lists
  <1>6. /\ latest + CellSize \in Address /\ mem \in [Address -> Byte] /\ here \in Int
    BY Sizes DEF Listed, DictInv, LatestIs, WordsTypeOK, Address
  <1>7. /\ \A a \in Address : mem'[a] = mem[a] \/ a = latest + CellSize
        /\ HasFlag(mem', latest, F_IMMEDIATE)
    <2>1. CASE UNCHANGED mem /\ IsImmediate(latest)
      BY <2>1 DEF IsImmediate
    <2>2. CASE /\ ~ IsImmediate(latest)
               /\ mem' = [mem EXCEPT ![latest + CellSize] = mem[latest + CellSize] + F_IMMEDIATE]
      <3> DEFINE b == mem[latest + CellSize]
      <3>1. b \in Byte /\ b \in Int
        BY <1>6, Sizes DEF Byte
      <3>2. b \div 1 = b /\ (b + 1) \div 1 = b + 1
        <4> HIDE DEF b
        <4> QED BY <3>1
      <3>3. b % 2 # 1
        BY <2>2, <3>2 DEF IsImmediate, HasFlag, F_IMMEDIATE
      <3>4. (b + 1) % 2 = 1
        <4> HIDE DEF b
        <4> QED BY <3>1, <3>3
      <3>5. mem'[latest + CellSize] = b + 1
        BY <1>6, <2>2 DEF F_IMMEDIATE
      <3>6. HasFlag(mem', latest, F_IMMEDIATE)
        <4> HIDE DEF b
        <4> QED BY <3>2, <3>4, <3>5 DEF HasFlag, F_IMMEDIATE
      <3> QED BY <1>6, <2>2, <3>6
    <2> QED BY <2>1, <2>2 DEF Immediate
  <1> DEFINE d == Dict
             e == Dict'
  <1>8. /\ IsDict(d) /\ IsDict(e) /\ Lists(d, es, given) /\ e.latest = d.latest /\ e.here >= d.here
        /\ \A a \in Address : a < d.here => e.mem[a] = d.mem[a] \/ a = d.latest + CellSize
        /\ e.here = d.here
        /\ HasFlag(e.mem, d.latest, F_IMMEDIATE)
    BY <1>1, <1>2, <1>3, <1>4, <1>6, <1>7
  <1> HIDE DEF d, e
  <1>9. Lists(e, es, given)
    BY <1>8, ListKept
  <1>10. MarkStep(DefinitionsOf(d), DefinitionsOf(e))
    <2> DEFINE w == DefinitionAt(d, es, given, Len(es))
               v == DefinitionAt(e, es, given, Len(es))
    <2>1. /\ ChangeStep(DefinitionsOf(d), DefinitionsOf(e))
          /\ DefinitionsOf(d)[Len(DefinitionsOf(d))] = w
          /\ DefinitionsOf(e)[Len(DefinitionsOf(e))] = v
          /\ e.here = d.here => v.body = w.body
          /\ es[Len(es)] = d.latest
      BY <1>5, <1>8, ChangeIs
    <2>2. v.immediate = TRUE
      <3>1. HasFlag(e.mem, d.latest, F_IMMEDIATE) = TRUE
        BY <1>8 DEF HasFlag
      <3> QED BY <2>1, <3>1 DEF DefinitionAt
    <2> HIDE DEF w, v
    <2> QED BY <1>8, <2>1, <2>2 DEF MarkStep
  <1>11. Lists(Dict', es, given')
    BY <1>9 DEF e
  <1>12. WordsListed'
    BY <1>1, <1>4, <1>11 DEF WordsListed
  <1>13. StepsTo
    BY <1>10 DEF StepsTo, Listed, Definitions, d, e
  <1> QED BY <1>4, <1>12, <1>13 DEF Listed

LEMMA InitListed == MCInit => Listed
  <1> SUFFICES ASSUME MCInit PROVE Listed
    OBVIOUS
  <1>1. DictInv /\ latest = -1 /\ given = <<>> /\ words = <<>> /\ stack = <<>>
    BY InitIsDict DEF MCInit, WordsInit
  <1>2. <<>> \in Seq(Address) /\ <<>> \in Seq(Seq(Byte \ {0})) /\ Len(<<>>) = 0
        /\ <<>> \in Seq(Literals)
    OBVIOUS
  <1>3. Lists(Dict, <<>>, given)
    BY <1>1, <1>2 DEF Lists, Dict
  <1>4. /\ DefinitionsOf(Dict) \in Seq(Definition) /\ Len(DefinitionsOf(Dict)) = Len(<<>>)
    BY <1>1, <1>3, DictIsDict, DefinitionsAre
  <1>5. words = Definitions
    BY <1>1, <1>2, <1>4 DEF Definitions
  <1> QED BY <1>1, <1>2, <1>3, <1>5 DEF Listed, WordsListed

LEMMA StepKeeps == DictInv /\ [MCNext]_mcVars => DictInv' /\ (Keeps \/ UNCHANGED mcVars)
  <1> SUFFICES ASSUME DictInv, [MCNext]_mcVars PROVE DictInv' /\ (Keeps \/ UNCHANGED mcVars)
    OBVIOUS
  <1>1. CASE UNCHANGED mcVars
    BY <1>1 DEF mcVars, dictVars, wordVars, DictInv, LatestIs, WordsTypeOK, Depth
  <1>2. CASE DictNext
    <2>1. CASE Becomes(Register(Dict, WordName("LITNUMBER"), 0, 1)) /\ UNCHANGED stack
      <3>1. WordName("LITNUMBER") \in Seq(Byte)
        BY CodeAssumption DEF WordName
      <3>2. F_BUILTIN + 0 \in Byte
        <4>1. ByteBase \div 2 \in Nat /\ ByteBase \div 2 < ByteBase
          BY Sizes
        <4> QED BY <4>1, Sizes DEF F_BUILTIN, Byte
      <3>3. 1 \in Cell
        BY Sizes
      <3> QED BY <2>1, <3>1, <3>2, <3>3, RegisterKeeps DEF Untouched, Keeps
    <2>2. CASE \E name \in Names : Create(name) \/ Constant(name) \/ Colon(name)
      <3>1. PICK name \in Names : Create(name) \/ Constant(name) \/ Colon(name)
        BY <2>2
      <3>2. name \in Seq(Byte)
        BY MCNamesAssumption
      <3> QED BY <3>1, <3>2, DefiningKeeps DEF Untouched, Keeps
    <2>3. CASE Compile(latest) \/ Semicolon
      <3>1. latest \in Cell /\ -1 \in Cell
        BY DictIsDict, SmallCells
      <3> QED BY <2>3, <3>1, CompileKeeps DEF Semicolon, Untouched, Keeps
    <2>4. CASE latest # -1 /\ Immediate
      BY <2>4, ImmediateKeeps DEF Keeps
    <2>5. CASE UNCHANGED latest /\ (Comma \/ Allot \/ \E v \in Literals : Push(v))
      BY <2>5, MemoryKeeps
    <2> QED BY <1>2, <2>1, <2>2, <2>3, <2>4, <2>5 DEF DictNext, Defines
  <1> QED BY <1>1, <1>2 DEF MCNext

LEMMA StepListed ==
    ASSUME ShortNames, Forwards, Listed, [MCNext]_mcVars
    PROVE  Listed' /\ StepsTo
  <1>1. DictInv'
    BY StepKeeps DEF Listed
  <1>2. CASE UNCHANGED mcVars
    <2>1. UNCHANGED <<mem, here, latest, status, stack, given, words>> /\ UNCHANGED Dict
      BY <1>2 DEF mcVars, dictVars, wordVars, Dict
    <2>2. UNCHANGED Definitions
      BY <2>1 DEF Definitions
    <2> QED BY <1>1, <2>1, <2>2 DEF Listed, WordsListed, StepsTo
  <1>3. CASE MCNext
    <2>1. status = "running" /\ words' = Definitions' /\ DictNext
      BY <1>3 DEF MCNext
    <2>2. CASE /\ given' = Append(given, WordName("LITNUMBER"))
               /\ Becomes(Register(Dict, WordName("LITNUMBER"), 0, 1)) /\ UNCHANGED stack
      BY <1>1, <2>1, <2>2, DefinesListed
    <2>3. CASE \E name \in Names : /\ given' = Append(given, name)
                                   /\ Create(name) \/ Constant(name) \/ Colon(name)
      BY <1>1, <2>1, <2>3, DefinesListed
    <2>4. CASE UNCHANGED given /\ latest # -1 /\ (Compile(latest) \/ Semicolon)
      <3>1. PICK v \in Cell : Becomes(PlaceCell(Dict, v)) /\ UNCHANGED stack
        <4>1. latest \in Cell /\ -1 \in Cell
          BY DictIsDict, Sizes, SmallCells DEF Listed
        <4> QED BY <2>4, <4>1 DEF Semicolon, Compile
      <3>2. Follows(Dict, PlaceCell(Dict, v)) /\ IsDict(PlaceCell(Dict, v))
        BY DictIsDict, PlaceCellFollows DEF Listed, Follows, Grows
      <3>3. Dict' = PlaceCell(Dict, v)
        BY <3>1, <3>2, BecomesIs
      <3>4. /\ latest' = latest /\ here' >= here
            /\ \A a \in Address : a < here => mem'[a] = mem[a]
        BY <3>2, <3>3 DEF Follows, Grows, Dict
      <3>5. stack' \in Seq(Literals)
        BY <3>1 DEF Listed
      <3> QED BY <1>1, <2>1, <2>4, <3>4, <3>5, GrowsListed
    <2>5. CASE UNCHANGED given /\ latest # -1 /\ Immediate
      BY <1>1, <2>1, <2>5, MarksListed
    <2>6. CASE /\ UNCHANGED given /\ latest # -1 /\ UNCHANGED latest
               /\ Comma \/ Allot \/ \E v \in Literals : Push(v)
      <3>1. /\ here' >= here /\ stack' \in Seq(Literals)
            /\ \A a \in Address : a < here => mem'[a] = mem[a]
        BY <2>6, MemoryGoesOn DEF Listed
      <3> QED BY <1>1, <2>1, <2>6, <3>1, GrowsListed
    <2> QED BY <2>1, <2>2, <2>3, <2>4, <2>5, <2>6 DEF DictNext, Defines
  <1> QED BY <1>2, <1>3

\* Whatever is defined, compiled and allotted, for every size of memory: its
\* cells stay bytes, here is at most a cell beyond it and the data stack holds
\* int64 values within its array.
THEOREM DictionaryTypes == MCSpec => []WordsTypeOK
  <1>1. DictInv => WordsTypeOK
    BY DEF DictInv, WordsTypeOK
  <1>2. DictInv /\ [MCNext]_mcVars => DictInv'
    BY StepKeeps
  <1> QED BY <1>1, <1>2, InitIsDict, PTL DEF MCSpec

\* For every size of memory and every set of names, CREATE, CONSTANT, a colon
\* definition and what it compiles change no byte below here but the flags of
\* the newest entry: what was defined before is out of their reach.
THEOREM WritesAtHere == MCSpec => WritesOnlyAtHere
  <1>1. DictInv /\ [MCNext]_mcVars => DictInv'
    BY StepKeeps
  <1>2. DictInv /\ [MCNext]_mcVars =>
          [\A a \in 0 .. here - 1 : a \in Address =>
              mem'[a] = mem[a] \/ a = latest + CellSize]_mcVars
    <2> SUFFICES ASSUME DictInv, Keeps, NEW a \in 0 .. here - 1, a \in Address
                 PROVE  mem'[a] = mem[a] \/ a = latest + CellSize
      BY StepKeeps
    <2>1. a < here
      BY SmallCells DEF DictInv, WordsTypeOK
    <2> QED BY <2>1 DEF Keeps
  <1> QED BY <1>1, <1>2, InitIsDict, PTL DEF MCSpec, WritesOnlyAtHere

\* For every size of memory, as long as the names fit the length byte and ALLOT
\* is given no negative number: whatever is defined, compiled and allotted,
\* find_word_in_dict finds the newest of the words of a name, and none if the
\* name was never given.
THEOREM NewestIsFound ==
    ASSUME ShortNames, Forwards PROVE MCSpec => []FindsTheNewest
  <1>1. ASSUME Listed PROVE FindsTheNewest
    <2> SUFFICES ASSUME NEW name \in Names, status = "running"
                 PROVE  LET same == {i \in DOMAIN given : given[i] = name}
                        IN  \/ same = {} /\ Find(name) = NotFound
                            \/ \E i \in same : /\ \A j \in same : j <= i
                                               /\ Find(name) = Entries[i]
      BY DEF FindsTheNewest
    <2>1. PICK es : Lists(Dict, es, given) /\ Len(es) = Len(given)
      BY <1>1 DEF Listed, WordsListed
    <2>2. IsDict(Dict)
      BY <1>1, DictIsDict DEF Listed
    <2>3. Entries = es
      BY <2>1, <2>2, EntriesAre DEF Entries
    <2>4. DOMAIN given = 1 .. Len(es)
      BY <2>1 DEF Lists
    <2>5. name \in Seq(Byte \ {0})
      BY MCNamesAssumption
    <2>6. \/ /\ \A j \in 1 .. Len(es) : given[j] # name
             /\ FindIn(Dict, name) = NotFound
          \/ \E i \in 1 .. Len(es) : /\ given[i] = name
                                     /\ \A j \in 1 .. Len(es) : given[j] = name => j <= i
                                     /\ FindIn(Dict, name) = es[i]
      BY <2>1, <2>2, <2>5, FindsNewest
    <2> QED BY <2>3, <2>4, <2>6 DEF Find
  <1>2. Listed /\ [MCNext]_mcVars => Listed'
    BY StepListed
  <1> QED BY <1>1, <1>2, InitListed, PTL DEF MCSpec

\* Under the same conditions ctil's dictionary in memory implements Vocabulary:
\* every word that is executed defines a word, lets the newest one grow, marks
\* it as immediate, or leaves all definitions as they are.
THEOREM DictionaryIsVocabulary ==
    ASSUME ShortNames, Forwards PROVE MCSpec => KeepsDefinitions
  <1>1. MCInit => Vocab!Init
    BY DEF MCInit, Vocab!Init
  <1>2. Listed /\ [MCNext]_mcVars => Listed' /\ [Vocab!Next]_words
    <2> SUFFICES ASSUME Listed, [MCNext]_mcVars PROVE Listed' /\ [Vocab!Next]_words
      OBVIOUS
    <2>1. Listed' /\ StepsTo
      BY StepListed
    <2> QED BY <2>1, StepsOfVocabulary DEF StepsTo
  <1> QED BY <1>1, <1>2, InitListed, PTL DEF MCSpec, KeepsDefinitions, Vocab!Spec
=============================================================================
