--------------------------- MODULE CtilDictionary ---------------------------
(***************************************************************************)
(* The dictionary of ctil, which lives in the same memory as the program's *)
(* data: a list of entries linked from the latest to the first, each       *)
(*                                                                         *)
(*     link | flags | length | name 0 padding | code                       *)
(*                                                                         *)
(* where the length is that of the name with its padding, kept in a byte.  *)
(* A name is a sequence of characters, given by their codes.               *)
(***************************************************************************)
EXTENDS CtilWords

CONSTANT Code  \* the codes of the characters

ASSUME CodeAssumption ==
    /\ "LITNUMBER" \in DOMAIN Code
    /\ \A c \in DOMAIN Code : Code[c] \in Byte \ {0}
    /\ \A c, e \in DOMAIN Code : Code[c] = Code[e] => c = e

VARIABLE latest

dictVars == <<wordVars, latest>>

F_BUILTIN   == ByteBase \div 2
F_IMMEDIATE == 1

\* The words of ctil are characters of their own: what a word is called
\* matters only where names have different lengths.
Name(chars) == [i \in DOMAIN chars |-> Code[chars[i]]]
WordName(w) == <<Code[w]>>

-----------------------------------------------------------------------------
(* Entries.                                                                *)

Padded(n)       == n + ((CellSize - (n % CellSize)) % CellSize)
\* Mutation of AlignNameLen: the final zero is not counted.
AlignNoZero(n)  == Padded(n % ByteBase) % ByteBase

\* align_name_len: uint8 arithmetic on the length and the final zero
AlignNameLen(n) == Padded((n + 1) % ByteBase) % ByteBase

HeaderSize == CellSize + 2
NameAddr(e) == e + HeaderSize
HasFlag(m, e, flag) == (m[e + CellSize] \div flag) % 2 = 1
IsBuiltin(e)   == HasFlag(mem, e, F_BUILTIN)
IsImmediate(e) == HasFlag(mem, e, F_IMMEDIATE)
\* The length is read back as a char.
CodeIn(m, e) == NameAddr(e) + SignedByte(m[e + CellSize + 1])
CodeAddr(e)  == CodeIn(mem, e)

\* strcmp with the name of the entry
NameIs(m, e, name) ==
    \A i \in 1 .. Len(name) + 1 :
       /\ NameAddr(e) + i - 1 \in Address
       /\ m[NameAddr(e) + i - 1] = IF i <= Len(name) THEN name[i] ELSE 0

\* Where the header of the newest entry may be.
LatestIs(e) == e = -1 \/ (e \in Int /\ e >= 0 /\ e + HeaderSize <= MemSize)

\* The dictionary, and what came of extending it.
Dict == [mem |-> mem, here |-> here, latest |-> latest, status |-> status]

\* strcmp reads beyond memory: all characters up to its end are the same.
ComparesOutside(m, e, name) ==
    \E i \in 1 .. Len(name) + 1 :
       /\ NameAddr(e) + i - 1 \notin Address
       /\ \A j \in 1 .. i - 1 : m[NameAddr(e) + j - 1] = name[j]

\* find_word_in_dict: an entry, or how the search ended without one.  A link
\* that is followed more often than there are addresses goes round in circles.
NotFound == -1
Endless  == MemSize
Outside  == MemSize + 1
FindIn(d, name) ==
    LET search[links \in Nat] ==
            [e \in Int |->
               CASE e = -1 -> NotFound
                 [] e # -1 /\ (e < 0 \/ ComparesOutside(d.mem, e, name)) -> Outside
                 [] OTHER -> CASE NameIs(d.mem, e, name) -> e
                               [] ~ NameIs(d.mem, e, name) /\ links = 0 -> Endless
                               [] OTHER -> search[links - 1][CellAt(d.mem, e)]]
    IN  search[MemSize][d.latest]
Find(name) == FindIn(Dict, name)

-----------------------------------------------------------------------------
(* Extending the dictionary at here.                                       *)

Failed(d, s) == [d EXCEPT !.status = s]

\* The dictionary becomes next, in which n bytes from here on are written.
Extends(d, n, next) ==
    CASE d.status # "running" -> d
      [] d.status = "running" /\ Holds(d.here, n) -> next
      [] OTHER -> Failed(d, "undefined")

\* Mutation of PlaceCell: the whole value is put in the first byte.
PlaceCellWhole(d, v) ==
    Extends(d, CellSize, [d EXCEPT !.mem  = [d.mem EXCEPT ![d.here] = v],
                                   !.here = d.here + CellSize])
PlaceCell(d, v) ==
    Extends(d, CellSize, [d EXCEPT !.mem = PutCell(d.mem, d.here, v),
                                   !.here = d.here + CellSize])

PlaceBytes(m, a, bytes) ==
    [b \in DOMAIN m |-> IF b \in a .. a + Len(bytes) - 1 THEN bytes[b - a + 1] ELSE m[b]]

\* A header with the name, linked to the entry that was the latest.
Header(d, name, flags) ==
    LET length == AlignNameLen(Len(name))
        bytes  == <<ByteOf(d.latest, 0), ByteOf(d.latest, 1), flags, length>>
                     \o name \o <<0>>
    IN  Extends(d, Len(bytes), [d EXCEPT !.mem    = PlaceBytes(d.mem, d.here, bytes),
                                         !.latest = d.here,
                                         !.here   = NameAddr(d.here) + length])

\* place_dict_word asserts that the word is there.
PlaceWord(d, w) ==
    LET e == FindIn(d, WordName(w)) IN
    CASE d.status # "running" -> d
      [] d.status = "running" /\ e = NotFound -> Failed(d, "abort")
      [] d.status = "running" /\ e = Endless  -> Failed(d, "hangs")
      [] d.status = "running" /\ e \in Address -> PlaceCell(d, e)
      [] OTHER -> Failed(d, "undefined")

\* register_builtin: the code is a pointer to the function.
Register(d, name, flags, func) ==
    PlaceCell(Header(d, name, F_BUILTIN + flags), func)

Becomes(d) ==
    /\ \E next \in {d} : /\ mem' = next.mem /\ here' = next.here
                         /\ latest' = next.latest /\ status' = next.status
    /\ UNCHANGED <<retstack, retstacktop, output>>

\* CREATE and CONSTANT: the new word pushes a number, the address behind its
\* own definition or the value on the stack.
NewLiteral(name) == PlaceWord(Header(Dict, name, 0), "LITNUMBER")
Pushing(d, v)    == PlaceCell(PlaceCell(d, v), -1)

Create(name) ==
    LET d == NewLiteral(name) IN
    /\ Becomes(Pushing(d, d.here + 2 * CellSize))
    /\ UNCHANGED stack

Constant(name) ==
    LET d == NewLiteral(name) IN
    \/ d.status # "running" /\ Becomes(d) /\ UNCHANGED stack
    \/ d.status = "running" /\ Depth = 0 /\ Becomes(Failed(d, "abort")) /\ UNCHANGED stack
    \/ /\ d.status = "running" /\ Depth > 0
       /\ Becomes(Pushing(d, Top)) /\ stack' = Rest(1)

\* : and ;, and the cells compiled in between
Colon(name) == Becomes(Header(Dict, name, 0)) /\ UNCHANGED stack
Compile(v)  == Becomes(PlaceCell(Dict, v)) /\ UNCHANGED stack
\* Mutation of Semicolon: -1 takes the place of the last cell.
SemicolonOver ==
    Becomes(PlaceCell([Dict EXCEPT !.here = here - CellSize], -1)) /\ UNCHANGED stack
Semicolon == Compile(-1)

\* Mutation of Immediate: the flag is added, not set.
ImmediateAdds ==
    /\ mem' = [mem EXCEPT ![latest + CellSize] = (mem[latest + CellSize] + 1) % ByteBase]
    /\ UNCHANGED <<here, stack, retstack, retstacktop, output, status, latest>>

Immediate ==
    /\ IF IsImmediate(latest) THEN UNCHANGED mem
       ELSE mem' = [mem EXCEPT ![latest + CellSize] = mem[latest + CellSize] + F_IMMEDIATE]
    /\ UNCHANGED <<here, stack, retstack, retstacktop, output, status, latest>>
=============================================================================
