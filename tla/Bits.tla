---------------------------------- MODULE Bits ----------------------------------
(***************************************************************************)
(* The bit fields of Utils and BitManipulation.h: bits are counted from 0, *)
(* the highest of a byte first, and a field may begin and end anywhere in  *)
(* a buffer of bytes.                                                      *)
(***************************************************************************)
EXTENDS Naturals, Sequences, SequencesExt, FiniteSets

CONSTANTS Fields, Buffers   \* sequences of bytes

BitsAssumption == \A b \in Fields \cup Buffers : b \in Seq(0..255) /\ b # <<>>

VARIABLES
  field,            \* in of setBits()
  before, buffer,   \* out of setBits(), before and after
  range             \* of bits that was written

bitsVars == <<field, before, buffer, range>>

Mask(i) == 2^(7 - (i % 8))   \* BIT_MASK_TABLE
READ_BIT(p, i) == (p[i \div 8 + 1] \div Mask(i)) % 2
WRITE_BIT(p, i, b) ==
  [p EXCEPT ![i \div 8 + 1] = @ - READ_BIT(p, i) * Mask(i) + b * Mask(i)]

\* The values of the ranges [start, stop) and [0, n).
getBits(in, out, start, stop) ==
  FoldLeft(LAMBDA o, n : WRITE_BIT(o, n, READ_BIT(in, start + n)), out,
           [n \in 1..stop - start |-> n - 1])
getBitRange(in, out, start, length) == getBits(in, out, start, start + length)

setBits(in, out, start, stop) ==
  FoldLeft(LAMBDA o, n : WRITE_BIT(o, start + n, READ_BIT(in, n)), out,
           [n \in 1..stop - start |-> n - 1])
setBitRange(in, out, start, length) == setBits(in, out, start, start + length)

\* Six bits, as the value of a byte, and back.
bin2Hex(in, offset) ==
  FoldLeft(LAMBDA value, i : 2 * value + READ_BIT(in, offset + i), 0, <<0, 1, 2, 3, 4, 5>>)
hex2Bin(value, out, offset) ==
  FoldLeft(LAMBDA o, i : WRITE_BIT(o, offset + i, (value \div 2^(5 - i)) % 2), out, <<0, 1, 2, 3, 4, 5>>)

\* A byte and its eight bits, highest or lowest first.
byteToBitsBE(byte) == [i \in 0..7 |-> (byte \div 2^(7 - i)) % 2]
byteToBitsLE(byte) == [i \in 0..7 |-> (byte \div 2^i) % 2]
bitsToByteBE(bits) == FoldLeft(LAMBDA value, i : 2 * value + bits[i], 0, <<0, 1, 2, 3, 4, 5, 6, 7>>)
bitsToByteLE(bits) == FoldLeft(LAMBDA value, i : 2 * value + bits[i], 0, <<7, 6, 5, 4, 3, 2, 1, 0>>)

\* A value of two, four or eight bytes, as its bytes.
reverseEndian(bytes) == Reverse(bytes)

\* The ones of a byte, pair of bits by pair, and of a value of one, four or eight bytes.
BITS_TABLE ==
  LET B2(n) == <<n, n + 1, n + 1, n + 2>>
      Widen(S) == S \o [i \in DOMAIN S |-> S[i] + 1] \o [i \in DOMAIN S |-> S[i] + 1]
                    \o [i \in DOMAIN S |-> S[i] + 2]
  IN Widen(Widen(Widen(B2(0))))
countBits(bytes) == FoldLeft(LAMBDA n, byte : n + BITS_TABLE[byte + 1], 0, bytes)

-----------------------------------------------------------------------------
Ranges(n, size) == {r \in (0..size) \X (0..size) : r[1] <= r[2] /\ r[2] - r[1] <= n}

Init ==
  /\ field \in Fields /\ before \in Buffers /\ buffer = before /\ range = <<0, 0>>

Set ==
  /\ range = <<0, 0>> /\ range' \in Ranges(8 * Len(field), 8 * Len(buffer))
  /\ buffer' = setBits(field, buffer, range'[1], range'[2])
  /\ UNCHANGED <<field, before>>

\* Of a buffer, the range of six bits from its beginning.
SetHex ==
  /\ range = <<0, 0>> /\ field' \in {<<4 * value>> : value \in 0..63}
  /\ \E offset \in 0..8 * Len(buffer) - 6 : range' = <<offset, offset + 6>>
  /\ buffer' = hex2Bin(field'[1] \div 4, buffer, range'[1])
  /\ UNCHANGED before

Next == Set \/ SetHex

Spec == Init /\ [][Next]_bitsVars

-----------------------------------------------------------------------------
\* What is written over the bounds of bytes is read back by either getter, whole or six
\* bits of it, no other bit of the buffer changes, and both orders of the bits of a byte
\* lead back to it.
FieldsReturn ==
  /\ getBits(buffer, field, range[1], range[2]) = field
  /\ range[2] - range[1] >= 6 => bin2Hex(buffer, range[1]) = field[1] \div 4
  /\ \A i \in (0..8 * Len(buffer) - 1) \ (range[1]..range[2] - 1) : READ_BIT(buffer, i) = READ_BIT(before, i)
  /\ \A i \in 1..Len(buffer) :
       /\ bitsToByteBE(byteToBitsBE(buffer[i])) = buffer[i]
       /\ bitsToByteLE(byteToBitsLE(buffer[i])) = buffer[i]
  /\ countBits(buffer) = Cardinality({i \in 0..8 * Len(buffer) - 1 : READ_BIT(buffer, i) = 1})
=============================================================================
