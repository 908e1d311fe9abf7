------------------------------- MODULE Filters --------------------------------
(***************************************************************************)
(* The filters of arm_math.cpp, block by block.  A filter keeps the end of *)
(* a block in its state array for the next, and the sum of products of an  *)
(* output is taken in groups of four taps and four outputs, from registers *)
(* of two samples each: which sample meets which coefficient is all that   *)
(* is followed here.  A product is <<coefficient, sample>>, a sum the      *)
(* sequence of its products; samples are numbered from 1, and 0 is the     *)
(* silence before the first.  Widths, shifts and saturation are left out.  *)
(***************************************************************************)
EXTENDS Integers, Sequences, SequencesExt

CONSTANTS
  Filter       \* records: kind, room (length of pState), blocks (sizes called with), upto
               \* (bound: samples in a behaviour); for "fir" taps, for "interpolate" L and
               \* phase, for "biquad" stages

FirFilters == {f \in Filter : f.kind = "fir"}

\* "the filter length is even"; a state array holds what is kept and a block, "plus some
\* spare", of which the unrolled loop loads one sample.
FiltersAssumption ==
  /\ \A f \in Filter : /\ f.kind \in {"fir", "interpolate", "biquad"}
                      /\ f.room \in Nat /\ f.upto \in Nat /\ f.blocks \subseteq Nat
  /\ \A f \in FirFilters : /\ f.taps \in Nat \ {0} /\ f.taps % 2 = 0
                         /\ \A size \in f.blocks : f.taps + size <= f.room
  /\ \A f \in Filter : f.kind = "interpolate" =>
       /\ f.L \in Nat \ {0} /\ f.phase \in Nat \ {0}
       /\ \A size \in f.blocks : f.phase - 1 + size <= f.room
  /\ \A f \in Filter : f.kind = "biquad" => f.stages \in Nat /\ f.room = 4 * f.stages

VARIABLES
  filter,
  pState,      \* the state array, from 0
  came,        \* samples filtered so far
  sums,        \* the outputs of the last block
  wild         \* a load from outside the state array

vars == <<filter, pState, came, sums, wild>>

Silence == 0
Outside == -1

Init ==
  /\ filter \in Filter
  /\ pState = [i \in 0 .. filter.room - 1 |-> Silence]
  /\ came = 0 /\ sums = <<>> /\ wild = FALSE

Cell(s, i) == IF i \in DOMAIN s THEN s[i] ELSE Outside

\* Sample x is put behind what is kept of the last block.
Into(s, at, x) == [s EXCEPT ![at] = x]

\* The last n samples go to the start of the array.
Carried(s, from, n) == [i \in DOMAIN s |-> IF i < n THEN Cell(s, from + i) ELSE s[i]]

-----------------------------------------------------------------------------
(* arm_fir_fast_q15() *)

\* Two samples from the array; the products of two with coefficients c and c + 1, straight
\* and crossed; the low half of one register and the high half of another.
Load(s, i) == <<Cell(s, i), Cell(s, i + 1)>>
Smlad(x, c) == <<<<c, x[1]>>, <<c + 1, x[2]>>>>
Smladx(x, c) == <<<<c, x[2]>>, <<c + 1, x[1]>>>>
Pkhbt(x, y) == <<x[1], y[2]>>

\* Four more taps for four outputs: r holds registers x0 and x2 and the four sums.
FourTaps(r, px, c) ==
  LET x0 == Load(r.s, px)
      x2 == Load(r.s, px + 2)
      x21 == Pkhbt(r.x2, r.x0)
      x32 == Pkhbt(x0, r.x2)
      x43 == Pkhbt(x2, x0)
  IN  [s |-> r.s, x0 |-> x0, x2 |-> x2,
       acc |-> << r.acc[1] \o Smlad(r.x0, c) \o Smlad(r.x2, c + 2),
                  r.acc[2] \o Smladx(x21, c) \o Smladx(x32, c + 2),
                  r.acc[3] \o Smlad(r.x2, c) \o Smlad(x0, c + 2),
                  r.acc[4] \o Smladx(x32, c) \o Smladx(x43, c + 2) >>,
       wild |-> r.wild \/ Outside \in {x0[1], x0[2], x2[1], x2[2]}]

\* Mutant: the crossed products of the fourth output take the last pair again.
LastTapsAgain(r, px, c) ==
  LET x0 == Load(r.s, px) IN
  [acc |-> << r.acc[1] \o Smlad(r.x0, c), r.acc[2] \o Smladx(Pkhbt(r.x2, r.x0), c),
              r.acc[3] \o Smlad(r.x2, c), r.acc[4] \o Smladx(Pkhbt(r.x2, r.x0), c) >>,
   wild |-> r.wild \/ Outside \in {x0[1], x0[2]}]

\* The two taps beyond the last four.
LastTaps(r, px, c) ==
  LET x0 == Load(r.s, px) IN
  [acc |-> << r.acc[1] \o Smlad(r.x0, c), r.acc[2] \o Smladx(Pkhbt(r.x2, r.x0), c),
              r.acc[3] \o Smlad(r.x2, c), r.acc[4] \o Smladx(Pkhbt(x0, r.x2), c) >>,
   wild |-> r.wild \/ Outside \in {x0[1], x0[2]}]

\* The block so far: array s, next place p, sums, and the number of the last sample.
FourOutputs(b, taps) ==
  LET at == b.p + taps - 1
      s == [i \in DOMAIN b.s |-> IF i \in at .. at + 3 THEN b.came + 1 + (i - at) ELSE b.s[i]]
      x0 == Load(s, b.p)
      x2 == Load(s, b.p + 2)
      first == [s |-> s, x0 |-> x0, x2 |-> x2, acc |-> << <<>>, <<>>, <<>>, <<>> >>,
                wild |-> b.wild \/ Outside \in {x0[1], x0[2], x2[1], x2[2]}]
      fours[g \in 0 .. taps \div 4] ==
        IF g = 0 THEN first ELSE FourTaps(fours[g - 1], b.p + 4 * g, 4 * (g - 1))
      c == 4 * (taps \div 4)
      all == IF taps % 4 # 0 THEN LastTaps(fours[taps \div 4], b.p + c + 4, c) ELSE fours[taps \div 4]
  IN  [s |-> s, p |-> b.p + 4, came |-> b.came + 4, sums |-> b.sums \o all.acc, wild |-> all.wild]

\* One of the one to three outputs that are left.
OneOutput(b, taps) ==
  LET s == Into(b.s, b.p + taps - 1, b.came + 1)
      sum == [k \in 1 .. 2 * (taps \div 2) |-> <<k - 1, Cell(s, b.p + k - 1)>>]
  IN  [s |-> s, p |-> b.p + 1, came |-> b.came + 1, sums |-> Append(b.sums, sum), wild |-> b.wild]

Begin == [s |-> pState, p |-> 0, came |-> came, sums |-> <<>>, wild |-> wild]

\* A block of any size.
FirFast(size) ==
  LET taps == filter.taps
      fours[i \in 0 .. size \div 4] == IF i = 0 THEN Begin ELSE FourOutputs(fours[i - 1], taps)
      ones[i \in 0 .. size % 4] == IF i = 0 THEN fours[size \div 4] ELSE OneOutput(ones[i - 1], taps)
      all == ones[size % 4]
  IN  /\ filter.kind = "fir"
      /\ pState' = Carried(all.s, all.p, taps - 1)
      /\ sums' = all.sums /\ wild' = all.wild

-----------------------------------------------------------------------------
(* arm_fir_interpolate_q15() *)

\* L outputs for a sample, each from every L-th coefficient, the last phase first.
Phases(s, p) ==
  [o \in 1 .. filter.L |->
     [r \in 1 .. filter.phase |-> <<filter.L - o + (r - 1) * filter.L, Cell(s, p + r - 1)>>]]

SampleIn(b) ==
  LET s == Into(b.s, b.p + filter.phase - 1, b.came + 1)
  IN  [s |-> s, p |-> b.p + 1, came |-> b.came + 1, sums |-> b.sums \o Phases(s, b.p), wild |-> b.wild]

Interpolate(size) ==
  LET samples[i \in 0 .. size] == IF i = 0 THEN Begin ELSE SampleIn(samples[i - 1])
      all == samples[size]
  IN  /\ filter.kind = "interpolate"
      /\ pState' = Carried(all.s, all.p, filter.phase - 1)
      /\ sums' = all.sums /\ wild' = all.wild

-----------------------------------------------------------------------------
(* arm_biquad_cascade_df1_q31(): value <<n, stage>> is output n of a stage, stage 0 the input *)

Value(n, stage) == IF n < 1 THEN Silence ELSE <<n, stage>>

\* One output of a stage; r holds Xn1, Xn2, Yn1, Yn2 and the sums.
StageOutput(r, stage, n) ==
  LET c == 5 * (stage - 1) IN
  [x1 |-> Value(n, stage - 1), x2 |-> r.x1, y1 |-> Value(n, stage), y2 |-> r.y1,
   sums |-> Append(r.sums, <<<<c, Value(n, stage - 1)>>, <<c + 1, r.x1>>, <<c + 2, r.x2>>,
                              <<c + 3, r.y1>>, <<c + 4, r.y2>>>>)]

\* A stage takes four cells of the array; the last one's outputs are the filter's.
Stage(b, stage, size) ==
  LET at == 4 * (stage - 1)
      first == [x1 |-> Cell(b.s, at), x2 |-> Cell(b.s, at + 1), y1 |-> Cell(b.s, at + 2),
                y2 |-> Cell(b.s, at + 3), sums |-> <<>>]
      outputs[i \in 0 .. size] == IF i = 0 THEN first ELSE StageOutput(outputs[i - 1], stage, came + i)
      r == outputs[size]
  IN  [s |-> [b.s EXCEPT ![at] = r.x1, ![at + 1] = r.x2, ![at + 2] = r.y1, ![at + 3] = r.y2],
       sums |-> Append(b.sums, r.sums)]

\* sums has a sequence of outputs for each stage.
Biquad(size) ==
  LET stages[i \in 0 .. filter.stages] ==
        IF i = 0 THEN [s |-> pState, sums |-> <<>>] ELSE Stage(stages[i - 1], i, size)
      all == stages[filter.stages]
  IN  /\ filter.kind = "biquad"
      /\ pState' = all.s /\ sums' = all.sums
      /\ UNCHANGED wild

-----------------------------------------------------------------------------

Block(size) ==
  /\ came + size <= filter.upto
  /\ FirFast(size) \/ Interpolate(size) \/ Biquad(size)
  /\ came' = came + size
  /\ UNCHANGED filter

Next == \E size \in filter.blocks : Block(size)

Spec == Init /\ [][Next]_vars

-----------------------------------------------------------------------------
(* Properties *)

\* A sum has each product it should have, once.
Has(sum, products) == ToSet(sum) = products /\ IsInjective(sum)

Sample(n) == IF n < 1 THEN Silence ELSE n

\* Convolution, with the coefficients in reverse: output n.
Convolution(taps, n) == {<<k, Sample(n - taps + 1 + k)>> : k \in 0 .. taps - 1}

\* Convolution of the samples with L - 1 zeros after each: output m, from 0.  Products
\* with those zeros are not taken.
Interpolation(L, taps, m) ==
  {<<k, Sample((m - taps + 1 + k) \div L + 1)>> : k \in {k \in 0 .. taps - 1 : (m - taps + 1 + k) % L = 0}}

\* The recurrence of a stage.
Recurrence(stage, n) ==
  LET c == 5 * (stage - 1)
  IN  {<<c + d, Value(n - d, stage - 1)>> : d \in 0 .. 2} \cup {<<c + 2 + d, Value(n - d, stage)>> : d \in 1 .. 2}

\* Whatever blocks a signal is cut into, however their sizes and the number of taps fit
\* the groups of four: every output is the filter's sum over the whole signal, each
\* product once, and no sample comes from beyond the state array.
SumsAreWhole ==
  /\ ~wild
  /\ filter.kind = "fir" =>
       \A i \in DOMAIN sums : Has(sums[i], Convolution(filter.taps, came - Len(sums) + i))
  /\ filter.kind = "interpolate" =>
       \A i \in DOMAIN sums : Has(sums[i], Interpolation(filter.L, filter.L * filter.phase,
                                                         came * filter.L - Len(sums) + i - 1))
  /\ filter.kind = "biquad" =>
       \A stage \in DOMAIN sums : \A i \in DOMAIN sums[stage] :
         Has(sums[stage][i], Recurrence(stage, came - Len(sums[stage]) + i))
=============================================================================
