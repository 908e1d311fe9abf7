-------------------------------- MODULE SlotType ---------------------------------
(***************************************************************************)
(* DMRSlotType: colour code and data type of a burst, in the twenty bits   *)
(* around its sync: a word of the (20,8,7) Golay code, which a receiver    *)
(* corrects.  A word is the set of its bits that are 1, bit 0 the lowest;  *)
(* a frame the set of its, the first of the frame 0.  The tables are       *)
(* stated by what they hold: ENCODING_TABLE_2087 the words of the          *)
(* generator with a bit that makes them even, DECODING_TABLE_1987 for the  *)
(* syndrome of up to three errors those errors.                            *)
(***************************************************************************)
EXTENDS Naturals, FiniteSets, SequencesExt

Xor(a, b) == (a \ b) \cup (b \ a)
ShiftedUp(word, n) == {i + n : i \in word}
ShiftedDown(word, n) == {i - n : i \in {j \in word : j >= n}}

GENPOL == {11, 10, 6, 5, 4, 2, 0}

\* The remainder of a pattern of nineteen bits, from X18 down to X11.
getSyndrome1987(pattern) ==
  FoldLeft(LAMBDA rest, i : IF i \in rest THEN Xor(rest, ShiftedUp(GENPOL, i - 11)) ELSE rest,
           pattern, [k \in 1..8 |-> 19 - k])

\* Eight bits, their remainder, and a bit that makes the number of ones even.
ENCODING_TABLE_2087(data) ==
  LET word == ShiftedUp(data, 11)
      code19 == Xor(word, getSyndrome1987(word))
  IN ShiftedUp(code19, 1) \cup (IF Cardinality(code19) % 2 = 1 THEN {0} ELSE {})

Correctable == {{}} \cup {{i, j, k} : i, j, k \in 0..18}

\* The rows that are looked up: a syndrome, and the errors it is of.
DECODING_TABLE_1987 == {<<getSyndrome1987(errors), errors>> : errors \in Correctable}

\* Bits 19 to 10 of the word come right before the sync, from bit 98 of the frame on, and
\* the others right after it: bytes 12 and 13, 19 and 20.
Place(i) == IF i >= 10 THEN 98 + 19 - i ELSE 156 + 9 - i
Places == {Place(i) : i \in 0..19}

encode(data, frame) == (frame \ Places) \cup {Place(i) : i \in ENCODING_TABLE_2087(data)}

\* Mutant: the errors are not taken off.
decode2087Raw(word) == ShiftedDown(word, 12)

decode2087(word) ==
  LET code19 == ShiftedDown(word, 1)
      syndrome == getSyndrome1987(code19)
      rows == {row \in DECODING_TABLE_1987 : row[1] = syndrome}
  IN ShiftedDown(Xor(code19, UNION {row[2] : row \in rows}), 11)

decode(frame) == decode2087({i \in 0..19 : Place(i) \in frame})
=============================================================================
