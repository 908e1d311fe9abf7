---------------------------------- MODULE Crc -----------------------------------
(***************************************************************************)
(* CRC: the checksums of the common library, over the bits of a frame in   *)
(* the order in which each code takes them: of a byte the highest first,   *)
(* of CCITT-161 the lowest.  A table of 256 is eight steps of the shift    *)
(* register.  A sender adds the checksum, a burst of noise may damage the  *)
(* frame, and the receiver checks it.  CRC-8 and CRC-9 have no check of    *)
(* their own: whoever calls them compares.                                 *)
(***************************************************************************)
EXTENDS Naturals, Sequences, SequencesExt

CONSTANTS
  Messages,   \* sequences of bits
  Bytes,      \* the values of a byte of a five bit sum
  Bursts      \* damage: sequences of bits that begin with a 1

CrcAssumption == \A b \in Bursts : b # <<>> /\ Head(b) = 1

VARIABLES
  code,
  message,
  frame       \* the bits the receiver gets: message and checksum

crcVars == <<code, message, frame>>

Ones(n) == [i \in 1..n |-> 1]
Zeros(n) == [i \in 1..n |-> 0]
Xor(a, b) == [i \in DOMAIN a |-> (a[i] + b[i]) % 2]
Poly(width, exponents) == [i \in 1..width |-> IF width - i \in exponents THEN 1 ELSE 0]

\* One bit into a register that is shifted to the left.
Shift(poly, register, bit) ==
  LET shifted == Append(Tail(register), 0)
  IN IF Head(register) # bit THEN Xor(shifted, poly) ELSE shifted

Register(poly, seed, bits) ==
  FoldLeft(LAMBDA register, bit : Shift(poly, register, bit), seed, bits)

Complement(bits) == Xor(bits, Ones(Len(bits)))

-----------------------------------------------------------------------------
CRC8(bits) == Register(Poly(8, {2, 1, 0}), Zeros(8), bits)
CRC6(bits) == Register(Poly(6, {5, 2, 1, 0}), Ones(6), bits)
CRC9(bits) == Complement(Register(Poly(9, {6, 4, 3, 0}), Zeros(9), bits))
CRC12(bits) == Register(Poly(12, {11, 3, 2, 1, 0}), Ones(12), bits)
CRC15(bits) == Register(Poly(15, {14, 11, 10, 7, 6, 2, 0}), Ones(15), bits)
CRC16(bits) == Register(Poly(16, {12, 5, 0}), Ones(16), bits)
CCITT162(bits) == Complement(Register(Poly(16, {12, 5, 0}), Zeros(16), bits))

\* The mirrored register, its low byte in front.
CCITT161(bits) == Complement(Register(Poly(16, {12, 5, 0}), Ones(16), bits))

InvertedCRC32(bits) ==
  Register(Poly(32, {26, 23, 22, 16, 12, 11, 10, 8, 7, 5, 4, 2, 1, 0}), Zeros(32), bits)
CRC32(bits) == Complement(InvertedCRC32(bits))

\* A byte, highest bit first, and back.
ByteToBits(byte, n) == [i \in 1..n |-> (byte \div 2^(n - i)) % 2]
BitsToByte(bits) == FoldLeft(LAMBDA sum, bit : 2 * sum + bit, 0, bits)

\* The sum of nine bytes, modulo 31.
FiveBit(bits) ==
  LET total == FoldLeft(LAMBDA sum, i : sum + BitsToByte(SubSeq(bits, 8 * i + 1, 8 * i + 8)),
                        0, [i \in 1..9 |-> i - 1])
  IN ByteToBits(total % 31, 5)

ByteCodes == {"CRC8", "CCITT161", "CCITT162", "CRC32", "InvertedCRC32"}
BitCodes == {"CRC6", "CRC9", "CRC12", "CRC15", "CRC16"}
Codes == ByteCodes \cup BitCodes \cup {"FiveBit"}

\* What a frame with a checksum of n bits is about.
Data(bits, n) == SubSeq(bits, 1, Len(bits) - n)

encodeFiveBit(bits) == bits \o FiveBit(bits)
addCRC6(bits) == bits \o CRC6(bits)
addCRC12(bits) == bits \o CRC12(bits)
addCRC15(bits) == bits \o CRC15(bits)
addCRC16(bits) == bits \o CRC16(bits)
addCCITT161(bits) == bits \o CCITT161(bits)
addCCITT162(bits) == bits \o CCITT162(bits)
addCRC32(bits) == bits \o CRC32(bits)
addInvertedCRC32(bits) == bits \o InvertedCRC32(bits)

\* Mutant: the first bit of the checksum is not compared.
checkCRC6OfFive(bits) ==
  LET n == Len(bits) - 5 IN SubSeq(addCRC6(Data(bits, 6)), n + 1, Len(bits)) = SubSeq(bits, n + 1, Len(bits))

checkFiveBit(bits) == encodeFiveBit(Data(bits, 5)) = bits
checkCRC6(bits) == addCRC6(Data(bits, 6)) = bits
checkCRC12(bits) == addCRC12(Data(bits, 12)) = bits
checkCRC15(bits) == addCRC15(Data(bits, 15)) = bits
checkCRC16(bits) == addCRC16(Data(bits, 16)) = bits
checkCCITT161(bits) == addCCITT161(Data(bits, 16)) = bits
checkCCITT162(bits) == addCCITT162(Data(bits, 16)) = bits
checkCRC32(bits) == addCRC32(Data(bits, 32)) = bits
checkInvertedCRC32(bits) == addInvertedCRC32(Data(bits, 32)) = bits

Add(c, bits) ==
  CASE c = "FiveBit" -> encodeFiveBit(bits) [] c = "CRC6" -> addCRC6(bits)
    [] c = "CRC8" -> bits \o CRC8(bits) [] c = "CRC9" -> bits \o CRC9(bits)
    [] c = "CRC12" -> addCRC12(bits) [] c = "CRC15" -> addCRC15(bits) [] c = "CRC16" -> addCRC16(bits)
    [] c = "CCITT161" -> addCCITT161(bits) [] c = "CCITT162" -> addCCITT162(bits)
    [] c = "CRC32" -> addCRC32(bits) [] c = "InvertedCRC32" -> addInvertedCRC32(bits)

Check(c, bits) ==
  CASE c = "FiveBit" -> checkFiveBit(bits) [] c = "CRC6" -> checkCRC6(bits)
    [] c = "CRC8" -> Data(bits, 8) \o CRC8(Data(bits, 8)) = bits
    [] c = "CRC9" -> Data(bits, 9) \o CRC9(Data(bits, 9)) = bits
    [] c = "CRC12" -> checkCRC12(bits) [] c = "CRC15" -> checkCRC15(bits)
    [] c = "CRC16" -> checkCRC16(bits)
    [] c = "CCITT161" -> checkCCITT161(bits) [] c = "CCITT162" -> checkCCITT162(bits)
    [] c = "CRC32" -> checkCRC32(bits) [] c = "InvertedCRC32" -> checkInvertedCRC32(bits)

\* What a code is used on: nine bytes, whole bytes, or any number of bits.
NineBytes ==
  {FoldLeft(LAMBDA bits, b : bits \o ByteToBits(b, 8), <<>>,
            [i \in 1..9 |-> IF i = k THEN one ELSE others]) : k \in 1..9, one, others \in Bytes}
Inputs(c) ==
  IF c = "FiveBit" THEN NineBytes
  ELSE {m \in Messages : m # <<>> /\ (c \in ByteCodes => Len(m) % 8 = 0)}

-----------------------------------------------------------------------------
Init ==
  /\ code \in Codes
  /\ message \in Inputs(code)
  /\ frame = Add(code, message)

Damaged(bits, burst, at) ==
  [i \in DOMAIN bits |->
    IF i >= at /\ i < at + Len(burst) THEN (bits[i] + burst[i - at + 1]) % 2 ELSE bits[i]]

Noise(burst) ==
  /\ frame = Add(code, message)
  /\ \E at \in 1..Len(frame) - Len(burst) + 1 : frame' = Damaged(frame, burst, at)
  /\ UNCHANGED <<code, message>>

Next == \E burst \in Bursts : Noise(burst)

Spec == Init /\ [][Next]_crcVars

-----------------------------------------------------------------------------
\* The receiver takes the frame the sender made, and none that a burst has damaged.
DamageIsSeen == Check(code, frame) <=> frame = Add(code, message)
=============================================================================
