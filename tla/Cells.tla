------------------------------- MODULE Cells -------------------------------
(***************************************************************************)
(* The values goforth computes with: int64 cells, and the bytes they       *)
(* occupy in the interpreter's memory.                                     *)
(*                                                                         *)
(* A cell is CellSize bytes wide.  The code's cells are 8 bytes; two bytes *)
(* are the least width at which a cell still covers several addresses, so  *)
(* that a store can overlap its neighbours, run past the last allotted     *)
(* byte or past the end of memory.  The width of a byte is a parameter.    *)
(***************************************************************************)
EXTENDS Integers

CONSTANTS ByteBits,  \* bits in a byte
          ByteBase   \* number of values of a byte

ASSUME CellsAssumption ==
    /\ ByteBits \in Nat \ {0}
    /\ ByteBase \in Nat \ {0}
    /\ ByteBase = 2 ^ ByteBits
    /\ ByteBase % 2 = 0  \* this and the next follow, and are what the proofs use
    /\ ByteBase = 2 \/ ByteBase % 4 = 0

CellSize == 2
CellBase == ByteBase * ByteBase

Byte   == 0 .. ByteBase - 1
MaxInt == (CellBase \div 2) - 1
MinInt == -(CellBase \div 2)
Cell   == MinInt .. MaxInt

\* The cell an arithmetic result is stored as: int64 wraps around.
Wrap(n) == ((n - MinInt) % CellBase) + MinInt

\* uint64(c), and int64 of an unsigned number
Unsigned(c) == IF c < 0 THEN c + CellBase ELSE c
Signed(u)   == IF u > MaxInt THEN u - CellBase ELSE u

\* binary.LittleEndian.PutUint64 and Uint64: the byte of a cell at an
\* offset from its address, and the cell two consecutive bytes hold.
ByteOf(c, i) == IF i = 0 THEN Unsigned(c) % ByteBase
                         ELSE Unsigned(c) \div ByteBase
FromBytes(lo, hi) == Signed(lo + hi * ByteBase)

\* Comparison words leave all bits set for true.
Flag(b) == IF b THEN -1 ELSE 0

\* Go's / and % truncate toward zero.  The divisor is not zero.
Magnitude(x) == IF x < 0 THEN -x ELSE x
Quotient(x, y) == LET q == Magnitude(x) \div Magnitude(y)
                  IN  IF (x < 0) = (y < 0) THEN q ELSE -q
Remainder(x, y) == x - y * Quotient(x, y)

\* Bit i of a byte, and the cells that are x & y and x | y bit by bit.
Bit(b, i) == (b \div (2 ^ i)) % 2
BitIndex  == 0 .. ByteBits - 1
AndBytes(b, c) == {r \in Byte : \A i \in BitIndex : Bit(r, i) = Bit(b, i) * Bit(c, i)}
OrBytes(b, c)  == {r \in Byte : \A i \in BitIndex :
                                    Bit(r, i) = 1 - (1 - Bit(b, i)) * (1 - Bit(c, i))}
Ands(x, y) == {FromBytes(lo, hi) : lo \in AndBytes(ByteOf(x, 0), ByteOf(y, 0)),
                                   hi \in AndBytes(ByteOf(x, 1), ByteOf(y, 1))}
Ors(x, y)  == {FromBytes(lo, hi) : lo \in OrBytes(ByteOf(x, 0), ByteOf(y, 0)),
                                   hi \in OrBytes(ByteOf(x, 1), ByteOf(y, 1))}
=============================================================================
