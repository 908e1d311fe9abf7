--------------------------- MODULE MCFrameTx_proofs ---------------------------
(***************************************************************************)
(* Proofs about the transmitters that send on demand, for every length of  *)
(* a queue, a frame, a preamble and a tail, and however many commands the  *)
(* host sends.  A behaviour is one of a single transmitter, so each has an *)
(* invariant of its own, which needs to hold in its part only.             *)
(***************************************************************************)
EXTENDS MCFrameTx, SequenceTheorems, WellFoundedInduction, TLAPS

-----------------------------------------------------------------------------
(***************************************************************************)
(* FixedTx, as NXDN and as direct mode.  They differ in what a credit and  *)
(* a burst are, unit bytes both, and in the tail.                          *)
(***************************************************************************)

Sizes == {SmallQueue, LargeQueue}

\* What there is of a transmitter, and no frame but an accepted one.
FixedTypes(unit, hang) ==
  /\ m_modemState \in {"IDLE", "own", "other"} /\ m_tx \in BOOLEAN /\ m_length \in Sizes
  /\ written \in Nat /\ queue \in Seq(1 .. written) /\ onAir \in 0 .. written
  /\ m_poLeft \in 0 .. (IF PreambleBytes > unit THEN PreambleBytes ELSE unit)
  /\ m_tailCnt \in 0 .. hang /\ credit \in 0 .. 255 /\ ops \in 0 .. MaxFixedOps
  /\ led \in BOOLEAN /\ broken \in BOOLEAN /\ refusedWithin \in BOOLEAN

\* There is room for every frame the host has credit for.
FixedCredit(unit) == ~refusedWithin /\ credit * unit <= N!GetSpace

\* The frames wait in the order written, all of them after the one on the air.
FixedOrder ==
  /\ \A i \in 1 .. Len(queue) : onAir < queue[i]
  /\ \A i, j \in 1 .. Len(queue) : i < j => queue[i] < queue[j]

\* Nothing is on the air without a preamble before it, and nothing is half sent in
\* another mode, unless the mode was left half way.
FixedLed ==
  /\ m_tx \/ m_poLeft > 0 \/ m_tailCnt > 0 => led \/ broken
  /\ m_modemState # "own" /\ (m_poLeft > 0 \/ m_tailCnt > 0) => broken

FixedInv(unit, hang) ==
  FixedTypes(unit, hang) /\ FixedCredit(unit) /\ FixedOrder /\ FixedLed

\* The constants of either.
LEMMA FixedConstants ==
  /\ FrameBytes \in Nat \ {0} /\ SmallQueue \in Nat /\ LargeQueue \in Nat
  /\ PreambleBytes \in Nat \ {0} /\ TxHang \in Nat /\ MaxFixedOps \in Nat
  BY ConstantsFit DEF N!FixedTxAssumption

\* What the two do differently.
FixedStatus(unit) ==
  /\ credit' = (N!GetSpace \div unit) % 256
  /\ UNCHANGED <<m_modemState, m_tx, N!airVars, N!queueVars, ops, broken>>

FixedBegin(unit) ==
  /\ m_modemState = "own" /\ m_poLeft = 0 /\ queue # <<>> /\ m_tx
  /\ queue' = Tail(queue) /\ onAir' = Head(queue)
  /\ m_poLeft' = unit
  /\ UNCHANGED <<m_modemState, m_tx, m_length, m_tailCnt, led, written, refusedWithin, credit, ops, broken>>

FixedSend(hang) ==
  /\ m_modemState = "own"
  /\ m_poLeft' \in 0 .. m_poLeft - 1
  /\ m_tailCnt' = hang /\ m_tx' = TRUE
  /\ UNCHANGED <<m_modemState, onAir, led, N!queueVars, credit, ops, broken>>

FixedStep(unit, hang) ==
  \/ N!DataQueued \/ N!DataRefused \/ N!Clear
  \/ \E size \in Sizes : N!SetBuffers(size)
  \/ \E mode \in {"IDLE", "own", "other"} : N!SetMode(mode)
  \/ N!TailSilence \/ N!BeginPreamble \/ N!OtherEngine \/ N!TxOff
  \/ FixedStatus(unit) \/ FixedBegin(unit) \/ FixedSend(hang)

LEMMA NxdnSteps == N!Next => FixedStep(FrameBytes, TxHang)
  BY DEF N!Next, N!Host, N!Process, FixedStep, Sizes, N!GetStatus, N!FrameSpace, FixedStatus,
         N!BeginFrame, FixedBegin, N!SendBytes, FixedSend

\* Direct mode has no command that empties the queue.
LEMMA DirectModeSteps == D!Next => FixedStep(FrameBytes + 1, 0)
<1>1. D!DataQueued => N!DataQueued
  BY DEF D!DataQueued, N!DataQueued, D!Command, N!Command, D!GetSpace, N!GetSpace, D!Spend, N!Spend,
         D!airVars, N!airVars
<1>2. D!DataRefused => N!DataRefused
  BY DEF D!DataRefused, N!DataRefused, D!Command, N!Command, D!GetSpace, N!GetSpace, D!Spend, N!Spend,
         D!airVars, N!airVars
<1>3. ~D!Clear
  BY DEF D!Clear
<1>4. ASSUME NEW size \in Sizes PROVE D!SetBuffers(size) => N!SetBuffers(size)
  BY DEF D!SetBuffers, N!SetBuffers, D!Command, N!Command, D!airVars, N!airVars
<1>5. ASSUME NEW mode \in {"IDLE", "own", "other"} PROVE D!SetMode(mode) => N!SetMode(mode)
  BY DEF D!SetMode, N!SetMode, D!Command, N!Command, D!airVars, N!airVars, D!queueVars, N!queueVars
<1>6. D!TailSilence => N!TailSilence
  BY DEF D!TailSilence, N!TailSilence, D!Idle, N!Idle, D!queueVars, N!queueVars
<1>7. D!BeginPreamble => N!BeginPreamble
  BY DEF D!BeginPreamble, N!BeginPreamble, D!queueVars, N!queueVars
<1>8. D!OtherEngine => N!OtherEngine
  BY DEF D!OtherEngine, N!OtherEngine, D!queueVars, N!queueVars
<1>9. D!TxOff => N!TxOff
  BY DEF D!TxOff, N!TxOff, D!Busy, N!Busy, D!queueVars, N!queueVars
<1>10. D!GetStatus => FixedStatus(FrameBytes + 1)
  BY DEF D!GetStatus, FixedStatus, D!FrameSpace, D!GetSpace, N!GetSpace, D!airVars, N!airVars,
         D!queueVars, N!queueVars
<1>11. D!BeginFrame => FixedBegin(FrameBytes + 1)
  BY DEF D!BeginFrame, FixedBegin
<1>12. D!SendBytes => FixedSend(0)
  BY DEF D!SendBytes, FixedSend, D!queueVars, N!queueVars
<1>13. QED
  BY <1>1, <1>2, <1>3, <1>4, <1>5, <1>6, <1>7, <1>8, <1>9, <1>10, <1>11, <1>12
  DEF D!Next, D!Host, D!Process, Sizes, FixedStep

\* A credit rounded down and cut to a byte is no more than there is room for.
LEMMA CreditFits ==
  ASSUME NEW space \in Nat, NEW unit \in Nat \ {0}
  PROVE  /\ (space \div unit) % 256 \in 0 .. 255
         /\ ((space \div unit) % 256) * unit <= space
<1> DEFINE quotient == space \div unit
<1>1. quotient \in Nat /\ quotient * unit <= space
  OBVIOUS
<1>2. quotient % 256 \in 0 .. 255 /\ quotient % 256 <= quotient
  BY <1>1
<1>3. \A a, b \in Nat : a <= b => a * unit <= b * unit
  OBVIOUS
<1>4. (quotient % 256) * unit <= quotient * unit
  BY <1>1, <1>2, <1>3
<1>5. QED
  BY <1>1, <1>2, <1>4

\* The queue is never over its length.
LEMMA SpaceIsNat ==
  ASSUME NEW unit \in Nat, NEW hang \in Nat, FixedInv(unit, hang)
  PROVE  N!GetSpace \in Nat /\ credit * unit \in Nat
<1>1. /\ credit \in Nat /\ m_length \in Nat /\ Len(queue) \in Nat /\ FrameBytes \in Nat
      /\ credit * unit <= N!GetSpace
  BY FixedConstants DEF FixedInv, FixedTypes, FixedCredit, Sizes
<1>2. credit * unit \in Nat /\ Len(queue) * FrameBytes \in Nat
  BY <1>1
<1>3. N!GetSpace \in Int
  BY <1>1, <1>2 DEF N!GetSpace
<1>4. QED
  BY <1>1, <1>2, <1>3

LEMMA FixedTypesKept ==
  ASSUME NEW unit \in Nat, unit >= FrameBytes, NEW hang \in Nat,
         FixedInv(unit, hang), FixedStep(unit, hang)
  PROVE  FixedTypes(unit, hang)'
<1> USE FixedConstants DEF FixedInv, FixedTypes
<1>1. CASE N!DataQueued
  <2>1. written' = written + 1 /\ written' \in Nat
    BY <1>1 DEF N!DataQueued
  <2>2. queue \in Seq(1 .. written') /\ onAir \in 0 .. written'
    BY <2>1
  <2>3. queue' \in Seq(1 .. written')
    BY <1>1, <2>1, <2>2 DEF N!DataQueued
  <2>4. QED
    BY <1>1, <2>1, <2>2, <2>3 DEF N!DataQueued, N!Spend, N!Command, N!airVars
<1>2. CASE N!DataRefused
  BY <1>2 DEF N!DataRefused, N!Spend, N!Command, N!airVars
<1>3. CASE N!Clear
  BY <1>3 DEF N!Clear, N!Command, N!airVars
<1>4. ASSUME NEW size \in Sizes, N!SetBuffers(size) PROVE FixedTypes(unit, hang)'
  BY <1>4 DEF N!SetBuffers, N!Command, N!airVars
<1>5. ASSUME NEW mode \in {"IDLE", "own", "other"}, N!SetMode(mode) PROVE FixedTypes(unit, hang)'
  BY <1>5 DEF N!SetMode, N!Command, N!airVars, N!queueVars
<1>6. CASE N!TailSilence
  BY <1>6 DEF N!TailSilence, N!queueVars
<1>7. CASE N!BeginPreamble
  BY <1>7 DEF N!BeginPreamble, N!queueVars
<1>8. CASE N!OtherEngine
  BY <1>8 DEF N!OtherEngine, N!queueVars
<1>9. CASE N!TxOff
  BY <1>9 DEF N!TxOff, N!queueVars
<1>10. CASE FixedStatus(unit)
  <2>1. N!GetSpace \in Nat
    BY SpaceIsNat
  <2>2. QED
    BY <1>10, <2>1, CreditFits DEF FixedStatus, N!airVars, N!queueVars
<1>11. CASE FixedBegin(unit)
  BY <1>11 DEF FixedBegin
<1>12. CASE FixedSend(hang)
  BY <1>12 DEF FixedSend, N!queueVars
<1>13. QED
  BY <1>1, <1>2, <1>3, <1>4, <1>5, <1>6, <1>7, <1>8, <1>9, <1>10, <1>11, <1>12 DEF FixedStep

LEMMA FixedCreditKept ==
  ASSUME NEW unit \in Nat, unit >= FrameBytes, NEW hang \in Nat,
         FixedInv(unit, hang), FixedStep(unit, hang)
  PROVE  FixedCredit(unit)'
<1>1. /\ FrameBytes \in Nat \ {0} /\ unit \in Nat \ {0} /\ m_length \in Nat /\ Sizes \subseteq Nat
      /\ queue \in Seq(Nat) /\ credit \in Nat /\ ~refusedWithin
      /\ N!GetSpace = m_length - Len(queue) * FrameBytes
      /\ N!GetSpace' = m_length' - Len(queue') * FrameBytes
      /\ credit * unit \in Nat /\ credit * unit <= N!GetSpace /\ N!GetSpace \in Nat
  BY SpaceIsNat, FixedConstants DEF FixedInv, FixedTypes, FixedCredit, N!GetSpace, Sizes
<1>2. ASSUME NEW n \in Nat
      PROVE  (n + 1) * FrameBytes = n * FrameBytes + FrameBytes /\ n * FrameBytes \in Nat
  BY <1>1
<1>3. credit > 0 => (credit - 1) * unit = credit * unit - unit /\ credit * unit >= unit
  BY <1>1
<1>4. 0 * unit = 0 /\ 0 * FrameBytes = 0
  BY <1>1
<1>5. ASSUME UNCHANGED <<m_length, refusedWithin, queue, credit>> PROVE FixedCredit(unit)'
  BY <1>5, <1>1 DEF FixedCredit
<1>6. CASE N!DataQueued
  <2>1. queue' = Append(queue, written') /\ m_length' = m_length /\ N!GetSpace >= FrameBytes
        /\ credit' = (IF credit = 0 THEN 0 ELSE credit - 1) /\ refusedWithin' = refusedWithin
    BY <1>6 DEF N!DataQueued, N!Spend
  <2>2. Len(queue') = Len(queue) + 1 /\ Len(queue) \in Nat
    BY <1>1, <2>1
  <2>3. N!GetSpace' = N!GetSpace - FrameBytes
    BY <1>1, <1>2, <2>1, <2>2
  <2>4. credit' * unit <= N!GetSpace'
    BY <1>1, <1>3, <1>4, <2>1, <2>3
  <2>5. QED
    BY <1>1, <2>1, <2>4 DEF FixedCredit
<1>7. CASE N!DataRefused
  <2>1. queue' = queue /\ m_length' = m_length /\ N!GetSpace < FrameBytes
        /\ credit' = (IF credit = 0 THEN 0 ELSE credit - 1)
        /\ refusedWithin' = (refusedWithin \/ credit > 0)
    BY <1>7 DEF N!DataRefused, N!Spend
  <2>2. credit = 0
    <3>1. PICK owed \in Nat : owed = credit * unit
      BY <1>1
    <3>2. owed <= N!GetSpace /\ N!GetSpace < unit /\ (credit > 0 => unit <= owed)
      BY <1>1, <1>3, <2>1, <3>1
    <3>3. QED
      BY <1>1, <3>2
  <2>3. credit' = 0 /\ N!GetSpace' = N!GetSpace
    BY <1>1, <2>1, <2>2
  <2>4. ~(credit > 0)
    BY <2>2
  <2>5. ~refusedWithin'
    BY <1>1, <2>1, <2>4
  <2>6. QED
    BY <1>1, <1>4, <2>3, <2>5 DEF FixedCredit
<1>8. CASE N!Clear
  <2>1. queue' = <<>> /\ m_length' = m_length /\ credit' = credit /\ refusedWithin' = refusedWithin
    BY <1>8 DEF N!Clear
  <2>2. N!GetSpace' = m_length /\ N!GetSpace <= m_length
    BY <1>1, <1>2, <1>4, <2>1
  <2>3. QED
    BY <1>1, <2>1, <2>2 DEF FixedCredit
<1>9. ASSUME NEW size \in Sizes, N!SetBuffers(size) PROVE FixedCredit(unit)'
  <2>1. queue' = <<>> /\ m_length' = size /\ credit' = 0 /\ refusedWithin' = refusedWithin
    BY <1>9 DEF N!SetBuffers
  <2>2. N!GetSpace' = size
    BY <1>1, <1>4, <2>1
  <2>3. QED
    BY <1>1, <1>4, <2>1, <2>2 DEF FixedCredit
<1>10. CASE FixedStatus(unit)
  <2>1. credit' = (N!GetSpace \div unit) % 256 /\ UNCHANGED <<m_length, refusedWithin, queue>>
    BY <1>10 DEF FixedStatus, N!queueVars
  <2>2. QED
    BY <1>1, <2>1, CreditFits DEF FixedCredit
<1>11. CASE FixedBegin(unit)
  <2>1. queue # <<>> /\ queue' = Tail(queue) /\ UNCHANGED <<m_length, refusedWithin, credit>>
    BY <1>11 DEF FixedBegin
  <2>2. Len(queue) = Len(queue') + 1 /\ Len(queue') \in Nat
    BY <1>1, <2>1
  <2>3. N!GetSpace' = N!GetSpace + FrameBytes
    BY <1>1, <1>2, <2>1, <2>2
  <2>4. QED
    BY <1>1, <2>1, <2>3 DEF FixedCredit
<1>12. QED
  BY <1>5, <1>6, <1>7, <1>8, <1>9, <1>10, <1>11
  DEF FixedStep, N!SetMode, N!TailSilence, N!BeginPreamble, N!OtherEngine, N!TxOff, FixedSend, N!queueVars

LEMMA FixedOrderKept ==
  ASSUME NEW unit \in Nat, NEW hang \in Nat, FixedInv(unit, hang), FixedStep(unit, hang)
  PROVE  FixedOrder' /\ (onAir' # onAir => onAir' > onAir)
<1>1. /\ written \in Nat /\ onAir \in 0 .. written /\ queue \in Seq(1 .. written)
      /\ \A i \in 1 .. Len(queue) : onAir < queue[i]
      /\ \A i, j \in 1 .. Len(queue) : i < j => queue[i] < queue[j]
  BY DEF FixedInv, FixedTypes, FixedOrder
<1>2. ASSUME UNCHANGED <<queue, onAir>> PROVE FixedOrder' /\ (onAir' # onAir => onAir' > onAir)
  BY <1>1, <1>2 DEF FixedOrder
<1>3. CASE N!DataQueued
  <2>1. queue' = Append(queue, written + 1) /\ onAir' = onAir
    BY <1>3 DEF N!DataQueued, N!airVars
  <2>2. /\ Len(queue') = Len(queue) + 1 /\ Len(queue) \in Nat
        /\ queue'[Len(queue) + 1] = written + 1
        /\ \A i \in 1 .. Len(queue) : queue'[i] = queue[i] /\ queue[i] \in 1 .. written
    BY <1>1, <2>1
  <2>3. \A i \in 1 .. Len(queue) + 1 : i = Len(queue) + 1 \/ i \in 1 .. Len(queue)
    BY <2>2
  <2>4. \A i \in 1 .. Len(queue') : onAir' < queue'[i]
    BY <1>1, <2>1, <2>2, <2>3
  <2>5. ASSUME NEW i \in 1 .. Len(queue'), NEW j \in 1 .. Len(queue'), i < j
        PROVE  queue'[i] < queue'[j]
    <3>1. i \in 1 .. Len(queue) /\ queue'[i] = queue[i] /\ queue[i] <= written
      BY <2>2, <2>5
    <3>2. CASE j = Len(queue) + 1
      BY <1>1, <2>2, <3>1, <3>2
    <3>3. CASE j \in 1 .. Len(queue)
      BY <1>1, <2>2, <2>5, <3>1, <3>3
    <3>4. QED
      BY <2>2, <2>3, <3>2, <3>3
  <2>6. QED
    BY <2>1, <2>4, <2>5 DEF FixedOrder
<1>4. ASSUME queue' = <<>>, onAir' = onAir PROVE FixedOrder' /\ (onAir' # onAir => onAir' > onAir)
  BY <1>4 DEF FixedOrder
<1>5. CASE FixedBegin(unit)
  <2>1. queue # <<>> /\ queue' = Tail(queue) /\ onAir' = Head(queue)
    BY <1>5 DEF FixedBegin
  <2>2. /\ Len(queue') + 1 = Len(queue) /\ Len(queue') \in Nat /\ onAir' = queue[1]
        /\ \A i \in 1 .. Len(queue') : queue'[i] = queue[i + 1] /\ i + 1 \in 1 .. Len(queue)
        /\ 1 \in 1 .. Len(queue)
    BY <1>1, <2>1
  <2>3. \A i \in 1 .. Len(queue') : onAir' < queue'[i]
    BY <1>1, <2>2, SMTT(30)
  <2>4. ASSUME NEW i \in 1 .. Len(queue'), NEW j \in 1 .. Len(queue'), i < j
        PROVE  queue'[i] < queue'[j]
    <3>1. i + 1 \in 1 .. Len(queue) /\ j + 1 \in 1 .. Len(queue) /\ i + 1 < j + 1
      BY <2>2, <2>4
    <3>2. queue[i + 1] < queue[j + 1]
      BY <1>1, <3>1
    <3>3. QED
      BY <2>2, <3>2
  <2>5. QED
    BY <1>1, <2>2, <2>3, <2>4 DEF FixedOrder
<1>6. QED
  BY <1>2, <1>3, <1>4, <1>5
  DEF FixedStep, N!DataRefused, N!Clear, N!SetBuffers, N!SetMode, N!TailSilence, N!BeginPreamble,
      N!OtherEngine, N!TxOff, FixedStatus, FixedSend, N!airVars, N!queueVars

\* A frame begins with TX on, after a preamble unless the mode was left half way.
LEMMA FixedLedKept ==
  ASSUME NEW unit \in Nat, NEW hang \in Nat, FixedInv(unit, hang), FixedStep(unit, hang)
  PROVE  FixedLed' /\ (onAir' # onAir => broken \/ led)
<1>1. /\ m_modemState \in {"IDLE", "own", "other"} /\ m_poLeft \in Nat /\ m_tailCnt \in Nat
      /\ unit \in Nat
      /\ m_tx \/ m_poLeft > 0 \/ m_tailCnt > 0 => led \/ broken
      /\ m_modemState # "own" /\ (m_poLeft > 0 \/ m_tailCnt > 0) => broken
  BY FixedConstants DEF FixedInv, FixedTypes, FixedLed
<1>2. ASSUME UNCHANGED <<m_tx, m_poLeft, m_tailCnt, led, broken, onAir>>,
             m_modemState' = m_modemState \/ m_modemState' = "own"
      PROVE  FixedLed' /\ (onAir' # onAir => broken \/ led)
  BY <1>1, <1>2 DEF FixedLed
<1>3. CASE N!DataQueued \/ N!DataRefused \/ N!Clear \/ FixedStatus(unit)
  BY <1>2, <1>3 DEF N!DataQueued, N!DataRefused, N!Clear, FixedStatus, N!airVars, N!queueVars
<1>4. ASSUME NEW size \in Sizes, N!SetBuffers(size)
      PROVE  FixedLed' /\ (onAir' # onAir => broken \/ led)
  BY <1>2, <1>4 DEF N!SetBuffers, N!airVars
<1>5. ASSUME NEW mode \in {"IDLE", "own", "other"}, N!SetMode(mode)
      PROVE  FixedLed' /\ (onAir' # onAir => broken \/ led)
  BY <1>1, <1>5 DEF N!SetMode, N!airVars, N!queueVars, FixedLed
<1>6. CASE N!TailSilence
  BY <1>1, <1>6 DEF N!TailSilence, N!queueVars, FixedLed
<1>7. CASE N!BeginPreamble
  BY <1>1, <1>7 DEF N!BeginPreamble, N!queueVars, FixedLed
<1>8. CASE N!OtherEngine
  BY <1>1, <1>8 DEF N!OtherEngine, N!queueVars, FixedLed
<1>9. CASE N!TxOff
  BY <1>1, <1>9 DEF N!TxOff, N!Busy, N!queueVars, FixedLed
<1>10. CASE FixedBegin(unit)
  BY <1>1, <1>10 DEF FixedBegin, FixedLed
<1>11. CASE FixedSend(hang)
  BY <1>1, <1>11 DEF FixedSend, N!queueVars, FixedLed
<1>12. QED
  BY <1>3, <1>4, <1>5, <1>6, <1>7, <1>8, <1>9, <1>10, <1>11 DEF FixedStep

\* Either transmitter keeps its invariant, and frames go out in order and led.
LEMMA FixedKeeps ==
  ASSUME NEW unit \in Nat, unit >= FrameBytes, NEW hang \in Nat,
         FixedInv(unit, hang), FixedStep(unit, hang)
  PROVE  FixedInv(unit, hang)' /\ N!FrameLed
  BY FixedTypesKept, FixedCreditKept, FixedOrderKept, FixedLedKept DEF FixedInv, N!FrameLed

LEMMA FixedStarts ==
  ASSUME N!Init, NEW unit \in Nat, NEW hang \in Nat
  PROVE  FixedInv(unit, hang)
<1>1. /\ m_modemState = "IDLE" /\ m_tx = FALSE /\ m_length \in Sizes /\ queue = <<>>
      /\ m_poLeft = 0 /\ m_tailCnt = 0 /\ credit = 0 /\ ops = 0
      /\ written = 0 /\ onAir = 0 /\ led = FALSE /\ broken = FALSE /\ refusedWithin = FALSE
  BY DEF N!Init, Sizes
<1>2. N!GetSpace = m_length /\ m_length \in Nat /\ credit * unit = 0
  BY <1>1, FixedConstants DEF N!GetSpace, Sizes
<1>3. FixedTypes(unit, hang)
  <2>1. 0 \in 0 .. (IF PreambleBytes > unit THEN PreambleBytes ELSE unit)
    BY FixedConstants
  <2>2. queue \in Seq(1 .. written)
    BY <1>1
  <2>3. 0 \in 0 .. written /\ 0 \in 0 .. hang /\ 0 \in 0 .. MaxFixedOps
    BY <1>1, FixedConstants
  <2>4. credit \in 0 .. 255 /\ onAir \in 0 .. written /\ written \in Nat
    BY <1>1
  <2>5. /\ m_modemState \in {"IDLE", "own", "other"}
        /\ {m_tx, led, broken, refusedWithin} \subseteq BOOLEAN
    BY <1>1
  <2>6. QED
    BY <1>1, <2>1, <2>2, <2>3, <2>4, <2>5, Zenon DEF FixedTypes
<1>4. QED
  BY <1>1, <1>2, <1>3 DEF FixedInv, FixedCredit, FixedOrder, FixedLed

-----------------------------------------------------------------------------
(* The calibration engines *)

CalTypes ==
  /\ protocol \in {"DMR", "P25", "NXDN"}
  /\ protocol = "DMR" => m_modemState \in {"IDLE", "DMR_CAL_1K", "DMR_DMO_CAL_1K", "DMR_CAL"}
  /\ protocol = "P25" => m_modemState \in {"IDLE", "P25_CAL_1K", "P25_CAL"}
  /\ protocol = "NXDN" => m_modemState \in {"IDLE", "NXDN_CAL"}
  /\ protocol = "DMR" => m_state \in {"IDLE", "VH", "VOICE", "VT", "WAIT"}
  /\ protocol # "DMR" => m_state \in {"IDLE", "CALL"}
  /\ protocol = "DMR" => m_audioSeq \in 0 .. 2
  /\ protocol = "P25" => m_audioSeq \in 0 .. 1
  /\ protocol = "NXDN" => m_audioSeq \in 0 .. 3
  /\ protocol = "DMR" => tx \in {"CAL", "IDLE", "SLOT1", "CACH2", "SLOT2", "CACH1"}
  /\ protocol # "DMR" => tx \in {"CAL", "NORMAL"}
  /\ calQueue \in [{"base", "direct"} -> 0 .. QueueLen] /\ ops \in 0 .. MaxCalOps
  /\ m_frameStart \in Nat /\ m_frameCount \in Nat
  /\ m_transmit \in BOOLEAN /\ m_tx \in BOOLEAN /\ undisturbed \in BOOLEAN

\* How far a base station is from a turn of SLOT2, the slot that takes from the queue.
Slack == CASE tx \in {"SLOT1", "CACH2"} -> 1 [] tx = "SLOT2" -> 2 [] OTHER -> 0

\* While the base station is left time, a frame leaves the queue every other CACH: what
\* is left of the wait is enough for what is left in the queue.
CalWait ==
  undisturbed /\ m_state = "WAIT" =>
    /\ protocol = "DMR" /\ m_modemState = "DMR_CAL_1K"
    /\ m_frameCount >= m_frameStart
    /\ m_frameStart >= StartupCount /\ calQueue["base"] > 0 =>
         2 * calQueue["base"] + (m_frameCount - m_frameStart) <= 2 * QueueLen + Slack

\* The place in the call and the state agree with the last frame written.
CalRoundDmr ==
  /\ m_state \in {"IDLE", "VH"} => lastTwo[2] \in {-1, -3} /\ m_audioSeq = 0
  /\ m_state = "VOICE" => m_audioSeq \in 0 .. 2 /\ lastTwo[2] \in K!Before(m_audioSeq)
  /\ m_state = "VT" => lastTwo[2] = 2 /\ m_audioSeq = 0
  /\ m_state = "WAIT" => lastTwo[2] = -3 /\ m_audioSeq = 0
  /\ m_state # "IDLE" => m_modemState \in {"DMR_CAL_1K", "DMR_DMO_CAL_1K"}

CalRoundP25 ==
  /\ m_audioSeq \in 0 .. 1 /\ lastTwo[2] \in K!Before(m_audioSeq)
  /\ m_state = "IDLE" \/ m_modemState # "P25_CAL_1K" => m_audioSeq = 0

CalRoundNxdn ==
  /\ m_audioSeq \in 0 .. 3 /\ lastTwo[2] \in -1 .. 2
  /\ m_audioSeq > 0 => lastTwo[2] = m_audioSeq - 1

CalRound ==
  undisturbed =>
    /\ lastTwo[1] \in K!Before(lastTwo[2])
    /\ protocol = "DMR" => CalRoundDmr
    /\ protocol = "P25" => CalRoundP25
    /\ protocol = "NXDN" => CalRoundNxdn

CalInv == CalTypes /\ CalWait /\ CalRound

\* What may come before a frame, protocol by protocol.
LEMMA BeforeSets ==
  /\ K!Before(-1) = {-1, -3} /\ K!Before(-2) = {-1, -3}
  /\ protocol = "DMR" => K!Before(-3) = {2} /\ K!Before(0) = {-2, 2}
  /\ protocol = "P25" => K!Before(0) = {-1, 1}
  /\ protocol = "NXDN" => K!Before(0) = {-1, 0, 1, 2}
  /\ K!Before(1) = {0} /\ K!Before(2) = {1}
<1>1. K!NoFrame = -1 /\ K!HeaderFrame = -2 /\ K!TerminatorFrame = -3
  BY DEF K!NoFrame, K!HeaderFrame, K!TerminatorFrame
<1>2. Rounds["DMR"] = 2 /\ Rounds["P25"] = 1 /\ Rounds["NXDN"] = 2
  BY DEF Rounds
<1>3. K!Before(-1) = {-1, -3} /\ K!Before(-2) = {-1, -3}
  BY <1>1 DEF K!Before
<1>4. protocol = "DMR" => K!Before(-3) = {2} /\ K!Before(0) = {-2, 2}
  BY <1>1, <1>2 DEF K!Before
<1>5. protocol = "P25" => K!Before(0) = {-1, 1}
  BY <1>1, <1>2 DEF K!Before
<1>6. protocol = "NXDN" => K!Before(0) = {-1, 0, 1, 2}
  BY <1>1, <1>2 DEF K!Before
<1>7. K!Before(1) = {0} /\ K!Before(2) = {1}
  BY <1>1 DEF K!Before
<1>8. QED
  BY <1>3, <1>4, <1>5, <1>6, <1>7

\* The types are those of K!TypeOK, protocol by protocol.
LEMMA CalTypesAre == CalTypes => K!TypeOK
  BY DEF CalTypes, K!TypeOK, K!CallModes, K!PatternModes, K!After, K!Transmitters, Rounds

LEMMA CalConstants ==
  QueueLen \in Nat \ {0} /\ StartupCount \in Nat /\ MaxCalOps \in Nat /\ WaitCount \in Nat
  /\ WaitCount >= 2 * QueueLen
  BY ConstantsFit DEF K!CalTxAssumption

\* The transmitter's turn: a frame more or less, a CACH more, the next of the rotation.
LEMMA CalTurn ==
  ASSUME CalTypes, NEW begins \in BOOLEAN
  PROVE  /\ K!Used \in {"base", "direct"}
         /\ K!QueueThen(begins) \in 0 .. calQueue[K!Used]
         /\ K!CountThen(begins) \in {m_frameCount, m_frameCount + 1}
         /\ protocol = "DMR" =>
              K!TxThen(begins) \in {"CAL", "IDLE", "SLOT1", "CACH2", "SLOT2", "CACH1"}
         /\ protocol # "DMR" => K!TxThen(begins) = tx
<1>1. K!Used \in {"base", "direct"}
  BY DEF K!Used
<1>2. calQueue[K!Used] \in Nat
  BY <1>1, CalConstants DEF CalTypes
<1>3. K!QueueThen(begins) \in 0 .. calQueue[K!Used]
  BY <1>2 DEF K!QueueThen, K!Takes
<1>4. K!CountThen(begins) \in {m_frameCount, m_frameCount + 1}
  BY DEF K!CountThen
<1>5. protocol = "DMR" => K!TxThen(begins) \in {"CAL", "IDLE", "SLOT1", "CACH2", "SLOT2", "CACH1"}
  BY DEF CalTypes, K!TxThen, K!After
<1>6. protocol # "DMR" => K!TxThen(begins) = tx
  BY DEF K!TxThen, K!Rotates
<1>7. QED
  BY <1>1, <1>3, <1>4, <1>5, <1>6

\* What a turn of the clock leaves alone, and the transmitter's part of it.
LEMMA CalClockTypes ==
  ASSUME CalTypes, NEW begins \in BOOLEAN, K!Clock(begins)
  PROVE  CalTypes'
<1>1. UNCHANGED <<protocol, m_modemState, m_transmit, ops, undisturbed>> /\ m_tx' = (m_tx \/ K!Sends)
  BY DEF K!Clock
<1>2. m_tx' \in BOOLEAN
  BY <1>1
<1>3. ASSUME /\ m_frameStart' \in Nat /\ m_frameCount' \in Nat
             /\ calQueue' \in [{"base", "direct"} -> 0 .. QueueLen]
             /\ protocol = "DMR" => m_state' \in {"IDLE", "VH", "VOICE", "VT", "WAIT"}
             /\ protocol # "DMR" => m_state' \in {"IDLE", "CALL"}
             /\ protocol = "DMR" => m_audioSeq' \in 0 .. 2
             /\ protocol = "P25" => m_audioSeq' \in 0 .. 1
             /\ protocol = "NXDN" => m_audioSeq' \in 0 .. 3
             /\ protocol = "DMR" => tx' \in {"CAL", "IDLE", "SLOT1", "CACH2", "SLOT2", "CACH1"}
             /\ protocol # "DMR" => tx' \in {"CAL", "NORMAL"}
      PROVE  CalTypes'
  BY <1>1, <1>2, <1>3 DEF CalTypes
<1>4. /\ Rounds["DMR"] = 2 /\ Rounds["P25"] = 1 /\ Rounds["NXDN"] = 2
      /\ K!CountThen(begins) \in Nat
  BY CalTurn DEF Rounds, CalTypes
<1>5. ASSUME K!Keep(begins) PROVE calQueue' \in [{"base", "direct"} -> 0 .. QueueLen]
  <2>1. K!QueueThen(begins) \in 0 .. QueueLen
    BY CalTurn, CalConstants DEF CalTypes
  <2>2. QED
    BY <1>5, <2>1 DEF K!Keep, CalTypes
<1>6. ASSUME NEW frame, K!Put(begins, frame), ~(K!QueueThen(begins) >= QueueLen)
      PROVE  calQueue' \in [{"base", "direct"} -> 0 .. QueueLen]
  <2>1. K!QueueThen(begins) + 1 \in 0 .. QueueLen
    BY <1>6, CalTurn, CalConstants DEF CalTypes
  <2>2. QED
    BY <1>6, <2>1 DEF K!Put, CalTypes
<1>7. CASE m_modemState \in K!PatternModes(protocol)
  <2>1. K!Pattern
    BY <1>7 DEF K!Clock
  <2>2. QED
    BY <1>3, <2>1 DEF K!Pattern, CalTypes
<1>8. CASE ~(m_modemState \in K!PatternModes(protocol)) /\ K!QueueThen(begins) >= QueueLen
  <2>1. K!NoRoom(begins)
    BY <1>8 DEF K!Clock
  <2>2. UNCHANGED <<m_state, m_audioSeq, m_frameStart>>
    BY <2>1 DEF K!NoRoom, K!engine
  <2>3. protocol = "NXDN" => tx' \in {"CAL", "NORMAL"} /\ m_frameCount' = m_frameCount
    BY <2>1 DEF K!NoRoom
  <2>4. protocol # "NXDN" => tx' = K!TxThen(begins) /\ m_frameCount' = K!CountThen(begins)
    BY <2>1 DEF K!NoRoom, K!Turns
  <2>5. calQueue' \in [{"base", "direct"} -> 0 .. QueueLen]
    BY <1>5, <2>1 DEF K!NoRoom
  <2>6. QED
    BY <1>3, <1>4, <2>2, <2>3, <2>4, <2>5, CalTurn DEF CalTypes
<1>9. CASE /\ ~(m_modemState \in K!PatternModes(protocol)) /\ ~(K!QueueThen(begins) >= QueueLen)
           /\ protocol = "DMR"
  <2>1. K!Dmr(begins)
    BY <1>9 DEF K!Clock
  <2>2. K!TurnsOn(begins) => /\ tx' \in {"CAL", "IDLE", "SLOT1", "CACH2", "SLOT2", "CACH1"}
                             /\ m_frameCount' = K!CountThen(begins)
    BY <1>9, CalTurn DEF K!TurnsOn
  <2>3. K!Turns(begins) => /\ tx' \in {"CAL", "IDLE", "SLOT1", "CACH2", "SLOT2", "CACH1"}
                           /\ m_frameCount' = K!CountThen(begins)
    BY <1>9, CalTurn DEF K!Turns
  <2>4. CASE K!Header(begins)
    <3>1. /\ m_state' = "VOICE" /\ UNCHANGED <<m_audioSeq, m_frameStart>>
          /\ tx' \in {tx, "SLOT1"} /\ m_frameCount' \in {m_frameCount, 0}
      BY <2>4 DEF K!Header
    <3>2. QED
      BY <1>3, <1>6, <1>9, <2>4, <3>1 DEF K!Header, CalTypes
  <2>5. CASE K!Voice(begins)
    <3>1. m_state' \in {m_state, "VT"} /\ m_frameStart' = m_frameStart
          /\ m_audioSeq' = (IF m_audioSeq = 2 THEN 0 ELSE m_audioSeq + 1)
      BY <1>4, <1>9, <2>5 DEF K!Voice, K!Round, K!LastFrame
    <3>2. m_audioSeq' \in 0 .. 2
      BY <1>9, <3>1 DEF CalTypes
    <3>3. QED
      BY <1>3, <1>4, <1>6, <1>9, <2>2, <2>5, <3>1, <3>2 DEF K!Voice, CalTypes
  <2>6. CASE K!Terminator(begins)
    <3>1. m_state' \in {"WAIT", "IDLE"} /\ m_audioSeq' = m_audioSeq
          /\ m_frameStart' \in {K!CountThen(begins), m_frameStart}
      BY <2>6 DEF K!Terminator
    <3>2. QED
      BY <1>3, <1>4, <1>6, <1>9, <2>2, <2>6, <3>1 DEF K!Terminator, CalTypes
  <2>7. CASE K!Wait(begins)
    BY <1>3, <1>4, <1>5, <1>9, <2>3, <2>7 DEF K!Wait, K!engine, CalTypes
  <2>8. CASE K!Stop(begins)
    <3>1. calQueue' \in [{"base", "direct"} -> 0 .. QueueLen]
      BY <2>8, CalConstants DEF K!Stop, CalTypes
    <3>2. QED
      BY <1>3, <1>9, <2>8, <3>1 DEF K!Stop, CalTypes
  <2>9. CASE K!NoCall(begins)
    <3>1. m_audioSeq' \in {m_audioSeq, 0} /\ m_state' = "IDLE" /\ m_frameStart' = m_frameStart
      BY <2>9 DEF K!NoCall
    <3>2. QED
      BY <1>3, <1>4, <1>5, <1>9, <2>3, <2>9, <3>1 DEF K!NoCall, CalTypes
  <2>10. QED
    BY <2>1, <2>4, <2>5, <2>6, <2>7, <2>8, <2>9 DEF K!Dmr
<1>10. CASE /\ ~(m_modemState \in K!PatternModes(protocol)) /\ ~(K!QueueThen(begins) >= QueueLen)
            /\ protocol = "P25"
  <2>1. K!P25(begins)
    BY <1>10 DEF K!Clock
  <2>2. tx' = tx /\ m_frameCount' = K!CountThen(begins) /\ m_frameStart' = m_frameStart
    BY <1>10, <2>1, CalTurn DEF K!P25, K!Turns
  <2>3. CASE m_state = "CALL" /\ K!Put(begins, m_audioSeq) /\ K!Round("IDLE")
    <3>1. m_state' \in {m_state, "IDLE"} /\ m_audioSeq' = (IF m_audioSeq = 1 THEN 0 ELSE m_audioSeq + 1)
      BY <1>4, <1>10, <2>3 DEF K!Round, K!LastFrame
    <3>2. m_audioSeq' \in 0 .. 1
      BY <1>10, <3>1 DEF CalTypes
    <3>3. QED
      BY <1>3, <1>4, <1>6, <1>10, <2>2, <2>3, <3>1, <3>2 DEF CalTypes
  <2>4. CASE m_state = "IDLE" /\ K!Keep(begins) /\ UNCHANGED <<m_state, m_audioSeq>>
    BY <1>3, <1>4, <1>5, <1>10, <2>2, <2>4 DEF CalTypes
  <2>5. QED
    BY <2>1, <2>3, <2>4 DEF K!P25
<1>11. CASE /\ ~(m_modemState \in K!PatternModes(protocol)) /\ ~(K!QueueThen(begins) >= QueueLen)
            /\ protocol = "NXDN"
  <2>1. K!Nxdn(begins)
    BY <1>11 DEF K!Clock
  <2>2. tx' \in {"CAL", "NORMAL"} /\ UNCHANGED <<m_frameStart, m_frameCount>>
    BY <2>1 DEF K!Nxdn
  <2>3. CASE m_state = "CALL"
    <3>1. PICK seq \in 0 .. 2 : K!Put(begins, seq) /\ m_audioSeq' = IF m_transmit THEN seq + 1 ELSE 0
      <4>1. m_audioSeq \in 0 .. 3
        BY <1>11 DEF CalTypes
      <4>2. QED
        BY <1>4, <2>1, <2>3, <4>1 DEF K!Nxdn
    <3>2. m_audioSeq' \in 0 .. 3 /\ m_state' \in {m_state, "IDLE"}
      BY <2>1, <2>3, <3>1 DEF K!Nxdn
    <3>3. QED
      BY <1>3, <1>6, <1>11, <2>2, <2>3, <3>1, <3>2 DEF CalTypes
  <2>4. CASE m_state = "IDLE" /\ m_audioSeq' = 0 /\ K!Keep(begins) /\ UNCHANGED m_state
    BY <1>3, <1>5, <1>11, <2>2, <2>4 DEF CalTypes
  <2>5. QED
    BY <2>1, <2>3, <2>4 DEF K!Nxdn
<1>12. QED
  BY <1>7, <1>8, <1>9, <1>10, <1>11 DEF CalTypes

\* A turn of the base station's clock in a call's wait: the queue keeps up.
LEMMA WaitGoesOn ==
  ASSUME CalTypes, CalWait, undisturbed, m_state = "WAIT", NEW begins \in BOOLEAN,
         UNCHANGED <<protocol, m_modemState, m_frameStart>>,
         K!Keep(begins), tx' = K!TxThen(begins), m_frameCount' = K!CountThen(begins)
  PROVE  /\ m_frameCount' >= m_frameStart'
         /\ m_frameStart' >= StartupCount /\ calQueue'["base"] > 0 =>
              2 * calQueue'["base"] + (m_frameCount' - m_frameStart') <= 2 * QueueLen + Slack'
<1> DEFINE q == calQueue["base"]
<1>1. /\ protocol = "DMR" /\ m_modemState = "DMR_CAL_1K" /\ m_frameCount \in Nat
      /\ m_frameStart \in Nat /\ m_frameCount >= m_frameStart /\ q \in 0 .. QueueLen
      /\ QueueLen \in Nat /\ tx \in {"CAL", "IDLE", "SLOT1", "CACH2", "SLOT2", "CACH1"}
      /\ m_frameStart >= StartupCount /\ q > 0 =>
           2 * q + (m_frameCount - m_frameStart) <= 2 * QueueLen + Slack
  BY CalConstants DEF CalTypes, CalWait
<1>2. K!Used = "base" /\ K!Rotates /\ K!Called
  BY <1>1 DEF K!Used, K!Rotates, K!Called
<1>3. /\ tx' = (IF begins /\ tx \in {"SLOT1", "CACH2", "SLOT2", "CACH1"} THEN K!After[tx] ELSE tx)
      /\ m_frameCount' \in {m_frameCount, m_frameCount + 1}
      /\ m_frameCount' = m_frameCount + 1 => begins /\ tx \in {"CACH1", "CACH2"}
  BY <1>1, <1>2 DEF K!TxThen, K!After, K!CountThen
<1>4. K!Takes <=> q > 0 /\ tx = "SLOT2" /\ m_frameCount >= StartupCount
  BY <1>1, <1>2 DEF K!Takes
<1>5. calQueue'["base"] = IF begins /\ K!Takes THEN q - 1 ELSE q
  BY <1>2 DEF K!Keep, K!QueueThen, CalTypes
<1>6. StartupCount \in Nat
  BY CalConstants
<1>7. m_frameCount' >= m_frameStart'
  BY <1>1, <1>3
<1>8. ASSUME m_frameStart >= StartupCount, calQueue'["base"] > 0
      PROVE  2 * calQueue'["base"] + (m_frameCount' - m_frameStart') <= 2 * QueueLen + Slack'
  <2>1. q > 0 /\ 2 * q + (m_frameCount - m_frameStart) <= 2 * QueueLen + Slack
    BY <1>1, <1>5, <1>8
  <2>2. CASE ~begins \/ tx \in {"CAL", "IDLE"}
    <3>1. tx' = tx /\ m_frameCount' = m_frameCount /\ calQueue'["base"] = q
      BY <1>3, <1>4, <1>5, <2>2
    <3>2. Slack' = Slack
      BY <3>1 DEF Slack
    <3>3. QED
      BY <2>1, <3>1, <3>2
  <2>3. CASE begins /\ tx = "SLOT1"
    <3>1. tx' = "CACH2" /\ m_frameCount' = m_frameCount /\ calQueue'["base"] = q
      BY <1>3, <1>4, <1>5, <2>3 DEF K!After
    <3>2. Slack = 1 /\ Slack' = 1
      BY <2>3, <3>1 DEF Slack
    <3>3. QED
      BY <2>1, <3>1, <3>2
  <2>4. CASE begins /\ tx = "CACH2"
    <3>1. tx' = "SLOT2" /\ calQueue'["base"] = q
      BY <1>3, <1>4, <1>5, <2>4 DEF K!After
    <3>2. Slack = 1 /\ Slack' = 2
      BY <2>4, <3>1 DEF Slack
    <3>3. QED
      BY <1>1, <1>3, <2>1, <3>1, <3>2
  <2>5. CASE begins /\ tx = "SLOT2"
    <3>0. K!Takes
      BY <1>1, <1>4, <1>6, <1>8, <2>1, <2>5
    <3>1. tx' = "CACH1" /\ m_frameCount' = m_frameCount /\ calQueue'["base"] = q - 1
      BY <1>3, <1>5, <2>5, <3>0 DEF K!After
    <3>2. Slack = 2 /\ Slack' = 0
      BY <2>5, <3>1 DEF Slack
    <3>3. QED
      BY <1>1, <2>1, <3>1, <3>2
  <2>6. CASE begins /\ tx = "CACH1"
    <3>1. tx' = "SLOT1" /\ calQueue'["base"] = q
      BY <1>3, <1>4, <1>5, <2>6 DEF K!After
    <3>2. Slack = 0 /\ Slack' = 1
      BY <2>6, <3>1 DEF Slack
    <3>3. QED
      BY <1>1, <1>3, <2>1, <3>1, <3>2
  <2>7. QED
    BY <1>1, <2>2, <2>3, <2>4, <2>5, <2>6
<1>9. QED
  BY <1>7, <1>8

\* When the wait is over the queue is empty: with a frame left in it, twice as many CACHs
\* have gone by as there are frames taken, and not yet WaitCount and one.
LEMMA WaitIsEnough ==
  ASSUME CalTypes, CalWait, undisturbed, m_state = "WAIT", NEW begins \in BOOLEAN,
         K!WaitOver(begins), m_frameStart >= StartupCount
  PROVE  calQueue["base"] = 0
<1> DEFINE q == calQueue["base"]
<1>1. /\ protocol = "DMR" /\ m_frameCount \in Nat
      /\ m_frameStart \in Nat /\ m_frameCount >= m_frameStart /\ q \in 0 .. QueueLen
      /\ QueueLen \in Nat /\ WaitCount \in Nat /\ WaitCount >= 2 * QueueLen
      /\ q > 0 => 2 * q + (m_frameCount - m_frameStart) <= 2 * QueueLen + Slack
  BY CalConstants DEF CalTypes, CalWait
<1>2. K!CountThen(begins) > m_frameStart + WaitCount
  BY DEF K!WaitOver
<1>3. /\ \/ K!CountThen(begins) = m_frameCount
         \/ K!CountThen(begins) = m_frameCount + 1 /\ tx \in {"CACH1", "CACH2"}
      /\ Slack \in 0 .. 2 /\ (tx \in {"CACH1", "CACH2"} => Slack \in 0 .. 1)
  BY DEF K!CountThen, Slack
<1>4. QED
  BY <1>1, <1>2, <1>3

LEMMA CalWaitKept ==
  ASSUME CalInv, K!Next
  PROVE  /\ CalWait'
         /\ undisturbed /\ m_state = "WAIT" /\ m_state' = "IDLE" /\ m_frameStart >= StartupCount
              => calQueue["base"] = 0
<1> DEFINE Emptied == undisturbed /\ m_state = "WAIT" /\ m_state' = "IDLE"
                        /\ m_frameStart >= StartupCount => calQueue["base"] = 0
<1>1. CalTypes /\ CalWait
  BY DEF CalInv
<1>2. ASSUME NEW mode, K!SetMode(mode) PROVE CalWait' /\ Emptied
  <2>1. /\ undisturbed' => undisturbed /\ m_state = "IDLE"
        /\ m_state' = m_state
    BY <1>2 DEF K!SetMode, K!engine
  <2>2. QED
    BY <2>1 DEF CalWait
<1>3. ASSUME NEW on \in BOOLEAN, K!Write(on) PROVE CalWait' /\ Emptied
  <2>1. /\ m_state' = "WAIT" => m_state = "WAIT"
        /\ m_state = "WAIT" => m_state' = "WAIT"
        /\ UNCHANGED <<protocol, m_modemState, m_frameStart, tx, m_frameCount, calQueue, undisturbed>>
    BY <1>3 DEF K!Write, K!air
  <2>2. Slack' = Slack
    BY <2>1 DEF Slack
  <2>3. QED
    BY <1>1, <2>1, <2>2 DEF CalWait
<1>4. CASE K!TxOff
  <2>1. UNCHANGED <<protocol, m_modemState, m_frameStart, tx, m_frameCount, calQueue, undisturbed, m_state>>
    BY <1>4 DEF K!TxOff, K!engine
  <2>2. Slack' = Slack
    BY <2>1 DEF Slack
  <2>3. QED
    BY <1>1, <2>1, <2>2 DEF CalWait
<1>5. ASSUME NEW begins \in BOOLEAN, K!Clock(begins) PROVE CalWait' /\ Emptied
  <2>1. UNCHANGED <<protocol, m_modemState, undisturbed>>
    BY <1>5 DEF K!Clock
  <2>2. CASE ~undisturbed
    BY <2>1, <2>2 DEF CalWait
  <2>3. CASE undisturbed /\ m_state = "WAIT"
    <3>1. protocol = "DMR" /\ m_modemState = "DMR_CAL_1K"
      BY <1>1, <2>3 DEF CalWait
    <3>2. K!Rotates /\ m_modemState \notin K!PatternModes(protocol)
      BY <3>1 DEF K!Rotates, K!Used, K!PatternModes
    <3>3. CASE K!NoRoom(begins) \/ K!Wait(begins)
      <4>1. /\ K!Keep(begins) /\ tx' = K!TxThen(begins) /\ m_frameCount' = K!CountThen(begins)
            /\ UNCHANGED <<m_state, m_frameStart>>
        BY <3>1, <3>3 DEF K!NoRoom, K!Wait, K!engine, K!Turns
      <4>2. QED
        BY <1>1, <2>1, <2>3, <3>1, <4>1, WaitGoesOn DEF CalWait
    <3>4. CASE K!Stop(begins)
      <4>1. K!WaitOver(begins) /\ m_state' = "IDLE"
        BY <3>4 DEF K!Stop
      <4>2. QED
        BY <1>1, <2>3, <4>1, WaitIsEnough DEF CalWait
    <3>5. K!NoRoom(begins) \/ K!Wait(begins) \/ K!Stop(begins)
      BY <1>5, <2>3, <3>1, <3>2
      DEF K!Clock, K!Dmr, K!Header, K!Voice, K!Terminator, K!NoCall
    <3>6. QED
      BY <3>3, <3>4, <3>5
  <2>4. CASE undisturbed /\ m_state # "WAIT" /\ m_state' = "WAIT"
    <3>1. K!Terminator(begins) /\ K!Rotates /\ ~(K!QueueThen(begins) >= QueueLen)
      BY <1>5, <2>4
      DEF K!Clock, K!Pattern, K!NoRoom, K!engine, K!Dmr, K!Header, K!Voice, K!Round, K!Wait, K!Stop,
          K!NoCall, K!Terminator, K!P25, K!Nxdn
    <3>2. /\ m_frameStart' = K!CountThen(begins) /\ m_frameCount' = K!CountThen(begins)
          /\ K!Put(begins, K!TerminatorFrame)
      BY <3>1 DEF K!Terminator, K!TurnsOn
    <3>3. protocol = "DMR" /\ K!Used = "base"
      BY <3>1 DEF K!Rotates
    <3>4. m_modemState = "DMR_CAL_1K"
      <4>1. CalRoundDmr
        BY <2>4, <3>3 DEF CalInv, CalRound
      <4>2. m_state = "VT"
        BY <3>1 DEF K!Terminator
      <4>3. QED
        BY <3>3, <4>1, <4>2 DEF CalRoundDmr, K!Used
    <3>5. calQueue'["base"] = K!QueueThen(begins) + 1 /\ calQueue'["base"] \in 0 .. QueueLen
      BY <1>1, <3>1, <3>2, <3>3, CalTurn, CalConstants DEF K!Put, CalTypes
    <3>6. Slack' \in 0 .. 2 /\ K!CountThen(begins) \in Nat /\ QueueLen \in Nat
      BY <1>1, CalTurn, CalConstants DEF Slack, CalTypes
    <3>7. QED
      BY <2>1, <2>4, <3>2, <3>3, <3>4, <3>5, <3>6 DEF CalWait
  <2>5. CASE m_state # "WAIT" /\ m_state' # "WAIT"
    BY <2>5 DEF CalWait
  <2>6. QED
    BY <2>2, <2>3, <2>4, <2>5
<1>6. QED
  BY <1>2, <1>3, <1>4, <1>5 DEF K!Next

\* A round of base station or direct mode: the frame written is the one that comes after
\* the last.
LEMMA CalRoundDmrKept ==
  ASSUME CalTypes, CalRound, undisturbed, protocol = "DMR",
         NEW begins \in BOOLEAN, K!Clock(begins)
  PROVE  CalRoundDmr' /\ lastTwo'[1] \in K!Before(lastTwo'[2])
<1>1. /\ CalRoundDmr /\ lastTwo[1] \in K!Before(lastTwo[2]) /\ Rounds["DMR"] = 2
      /\ m_state \in {"IDLE", "VH", "VOICE", "VT", "WAIT"}
  BY DEF CalRound, CalTypes, Rounds
<1>2. m_modemState' = m_modemState /\ protocol' = protocol
  BY DEF K!Clock
<1>3. K!NoFrame = -1 /\ K!HeaderFrame = -2 /\ K!TerminatorFrame = -3
  BY DEF K!NoFrame, K!HeaderFrame, K!TerminatorFrame
<1>4. ASSUME NEW frame, K!Put(begins, frame)
      PROVE  lastTwo' = <<lastTwo[2], frame>> /\ lastTwo'[1] = lastTwo[2] /\ lastTwo'[2] = frame
  BY <1>4 DEF K!Put
<1>5. ASSUME NEW frame PROVE K!Before(frame)' = K!Before(frame)
  BY <1>2 DEF K!Before
<1>6. CASE K!Header(begins)
  <2>1. /\ m_state = "VH" /\ m_state' = "VOICE" /\ m_audioSeq' = m_audioSeq
        /\ lastTwo'[1] = lastTwo[2] /\ lastTwo'[2] = -2
    BY <1>3, <1>4, <1>6 DEF K!Header
  <2>2. lastTwo[2] \in {-1, -3} /\ m_audioSeq = 0 /\ m_modemState \in {"DMR_CAL_1K", "DMR_DMO_CAL_1K"}
    BY <1>1, <2>1 DEF CalRoundDmr
  <2>3. lastTwo[2] \in K!Before(-2) /\ -2 \in K!Before(0)
    BY <2>2, BeforeSets
  <2>4. QED
    BY <1>2, <1>5, <2>1, <2>2, <2>3 DEF CalRoundDmr
<1>7. CASE K!Voice(begins)
  <2>1. /\ m_state = "VOICE" /\ lastTwo'[1] = lastTwo[2] /\ lastTwo'[2] = m_audioSeq
        /\ m_audioSeq' = (IF m_audioSeq = 2 THEN 0 ELSE m_audioSeq + 1)
        /\ m_state' = (IF m_audioSeq = 2 /\ ~m_transmit THEN "VT" ELSE m_state)
    BY <1>1, <1>4, <1>7 DEF K!Voice, K!Round, K!LastFrame
  <2>2. /\ m_audioSeq \in 0 .. 2 /\ lastTwo[2] \in K!Before(m_audioSeq)
        /\ m_modemState \in {"DMR_CAL_1K", "DMR_DMO_CAL_1K"}
    BY <1>1, <2>1 DEF CalRoundDmr
  <2>3. /\ m_audioSeq' \in 0 .. 2
        /\ m_audioSeq = 2 => m_audioSeq' = 0
        /\ m_audioSeq = 0 => m_audioSeq' = 1
        /\ m_audioSeq = 1 => m_audioSeq' = 2
    BY <2>1, <2>2
  <2>4. m_audioSeq \in K!Before(m_audioSeq')
    BY <2>2, <2>3, BeforeSets
  <2>5. m_state' = "VT" => lastTwo'[2] = 2 /\ m_audioSeq' = 0
    BY <2>1, <2>3
  <2>6. m_state' \in {"VOICE", "VT"}
    BY <2>1
  <2>7. QED
    BY <1>2, <1>5, <2>1, <2>2, <2>3, <2>4, <2>5, <2>6 DEF CalRoundDmr
<1>8. CASE K!Terminator(begins)
  <2>1. /\ m_state = "VT" /\ m_state' \in {"WAIT", "IDLE"} /\ m_audioSeq' = m_audioSeq
        /\ lastTwo'[1] = lastTwo[2] /\ lastTwo'[2] = -3
    BY <1>3, <1>4, <1>8 DEF K!Terminator
  <2>2. lastTwo[2] = 2 /\ m_audioSeq = 0 /\ m_modemState \in {"DMR_CAL_1K", "DMR_DMO_CAL_1K"}
    BY <1>1, <2>1 DEF CalRoundDmr
  <2>3. lastTwo[2] \in K!Before(-3)
    BY <2>2, BeforeSets
  <2>4. QED
    BY <1>2, <1>5, <2>1, <2>2, <2>3 DEF CalRoundDmr
<1>9. ASSUME lastTwo' = lastTwo, m_state' = m_state, m_audioSeq' = m_audioSeq
      PROVE  CalRoundDmr' /\ lastTwo'[1] \in K!Before(lastTwo'[2])
  BY <1>1, <1>2, <1>5, <1>9 DEF CalRoundDmr
<1>10. ASSUME lastTwo' = lastTwo, m_state' = "IDLE", m_audioSeq' \in {m_audioSeq, 0},
              m_state \in {"IDLE", "WAIT"}
       PROVE  CalRoundDmr' /\ lastTwo'[1] \in K!Before(lastTwo'[2])
  <2>1. lastTwo[2] \in {-1, -3} /\ m_audioSeq = 0
    BY <1>1, <1>10 DEF CalRoundDmr
  <2>2. QED
    BY <1>1, <1>2, <1>5, <1>10, <2>1 DEF CalRoundDmr
<1>11. CASE K!Pattern \/ K!NoRoom(begins) \/ K!Wait(begins)
  <2>1. lastTwo' = lastTwo /\ m_state' = m_state /\ m_audioSeq' = m_audioSeq
    BY <1>11 DEF K!Pattern, K!NoRoom, K!Wait, K!Keep, K!engine
  <2>2. QED
    BY <1>9, <2>1
<1>12. CASE K!Stop(begins) \/ K!NoCall(begins)
  <2>1. lastTwo' = lastTwo /\ m_state' = "IDLE" /\ m_audioSeq' \in {m_audioSeq, 0}
        /\ m_state \in {"IDLE", "WAIT"}
    BY <1>12 DEF K!Stop, K!NoCall, K!Keep
  <2>2. QED
    BY <1>10, <2>1
<1>13. QED
  BY <1>6, <1>7, <1>8, <1>11, <1>12 DEF K!Clock, K!Dmr

LEMMA CalRoundP25Kept ==
  ASSUME CalTypes, CalRound, undisturbed, protocol = "P25",
         NEW begins \in BOOLEAN, K!Clock(begins)
  PROVE  CalRoundP25' /\ lastTwo'[1] \in K!Before(lastTwo'[2])
<1>1. /\ m_audioSeq \in 0 .. 1 /\ lastTwo[2] \in K!Before(m_audioSeq)
      /\ m_state = "IDLE" \/ m_modemState # "P25_CAL_1K" => m_audioSeq = 0
      /\ lastTwo[1] \in K!Before(lastTwo[2]) /\ Rounds["P25"] = 1
      /\ m_modemState \in {"IDLE", "P25_CAL_1K", "P25_CAL"}
  BY DEF CalRound, CalRoundP25, CalTypes, Rounds
<1>2. m_modemState' = m_modemState /\ protocol' = protocol /\ m_modemState # "IDLE"
  BY DEF K!Clock
<1>3. ASSUME NEW frame PROVE K!Before(frame)' = K!Before(frame)
  BY <1>2 DEF K!Before
<1>4. K!PatternModes(protocol) = {"P25_CAL"}
  BY DEF K!PatternModes
<1>5. CASE m_modemState = "P25_CAL"
  <2>1. lastTwo' = lastTwo /\ m_audioSeq' = 0
    BY <1>4, <1>5 DEF K!Clock, K!Pattern
  <2>2. m_audioSeq = 0
    BY <1>1, <1>5
  <2>3. QED
    BY <1>1, <1>3, <2>1, <2>2 DEF CalRoundP25
<1>6. CASE m_modemState = "P25_CAL_1K" /\ K!P25(begins) /\ m_state = "CALL"
  <2>1. /\ lastTwo' = <<lastTwo[2], m_audioSeq>>
        /\ m_audioSeq' = (IF m_audioSeq = 1 THEN 0 ELSE m_audioSeq + 1)
        /\ m_state' = (IF m_audioSeq = 1 /\ ~m_transmit THEN "IDLE" ELSE m_state)
    BY <1>1, <1>6 DEF K!P25, K!Put, K!Round, K!LastFrame
  <2>2. lastTwo'[1] = lastTwo[2] /\ lastTwo'[2] = m_audioSeq
    BY <2>1
  <2>3. m_audioSeq' \in 0 .. 1 /\ (m_audioSeq = 0 => m_audioSeq' = 1) /\ (m_audioSeq = 1 => m_audioSeq' = 0)
    BY <1>1, <2>1
  <2>4. m_audioSeq \in K!Before(m_audioSeq')
    BY <1>1, <2>3, BeforeSets
  <2>5. m_state' = "IDLE" => m_audioSeq' = 0
    BY <1>6, <2>1, <2>3
  <2>6. QED
    BY <1>1, <1>2, <1>3, <1>6, <2>2, <2>3, <2>4, <2>5 DEF CalRoundP25
<1>7. CASE m_modemState = "P25_CAL_1K" /\ ~(K!P25(begins) /\ m_state = "CALL")
  <2>1. lastTwo' = lastTwo /\ m_state' = m_state /\ m_audioSeq' = m_audioSeq
    BY <1>4, <1>7 DEF K!Clock, K!NoRoom, K!engine, K!P25, K!Keep
  <2>2. QED
    BY <1>1, <1>2, <1>3, <2>1 DEF CalRoundP25
<1>8. QED
  BY <1>1, <1>2, <1>5, <1>6, <1>7

LEMMA CalRoundNxdnKept ==
  ASSUME CalTypes, CalRound, undisturbed, protocol = "NXDN",
         NEW begins \in BOOLEAN, K!Clock(begins)
  PROVE  CalRoundNxdn' /\ lastTwo'[1] \in K!Before(lastTwo'[2])
<1>1. /\ m_audioSeq \in 0 .. 3 /\ lastTwo[2] \in -1 .. 2
      /\ m_audioSeq > 0 => lastTwo[2] = m_audioSeq - 1
      /\ lastTwo[1] \in K!Before(lastTwo[2]) /\ Rounds["NXDN"] = 2
      /\ m_state \in {"IDLE", "CALL"}
  BY DEF CalRound, CalRoundNxdn, CalTypes, Rounds
<1>2. protocol' = protocol
  BY DEF K!Clock
<1>3. ASSUME NEW frame PROVE K!Before(frame)' = K!Before(frame)
  BY <1>2 DEF K!Before
<1>4. K!PatternModes(protocol) = {}
  BY DEF K!PatternModes
<1>5. CASE K!Nxdn(begins) /\ m_state = "CALL"
  <2>1. PICK seq : /\ seq = (IF m_audioSeq > 2 THEN 0 ELSE m_audioSeq)
                   /\ lastTwo' = <<lastTwo[2], seq>>
                   /\ m_audioSeq' = IF m_transmit THEN seq + 1 ELSE 0
    BY <1>1, <1>5 DEF K!Nxdn, K!Put
  <2>2. lastTwo'[1] = lastTwo[2] /\ lastTwo'[2] = seq
    BY <2>1
  <2>3. seq \in 0 .. 2 /\ m_audioSeq' \in {0, seq + 1} /\ (seq > 0 => lastTwo[2] = seq - 1)
    BY <1>1, <2>1
  <2>4. lastTwo[2] \in K!Before(seq)
    <3>1. CASE seq = 0
      BY <1>1, <3>1, BeforeSets
    <3>2. CASE seq = 1
      BY <2>3, <3>2, BeforeSets
    <3>3. CASE seq = 2
      BY <2>3, <3>3, BeforeSets
    <3>4. QED
      BY <2>3, <3>1, <3>2, <3>3
  <2>5. m_audioSeq' \in 0 .. 3 /\ lastTwo'[2] \in -1 .. 2
    BY <2>2, <2>3
  <2>6. m_audioSeq' > 0 => lastTwo'[2] = m_audioSeq' - 1
    <3>1. CASE m_audioSeq' = 0
      BY <3>1
    <3>2. CASE m_audioSeq' = seq + 1
      BY <2>2, <2>3, <3>2
    <3>3. QED
      BY <2>3, <3>1, <3>2
  <2>7. QED
    BY <2>2, <2>4, <2>5, <2>6 DEF CalRoundNxdn
<1>6. CASE ~(K!Nxdn(begins) /\ m_state = "CALL")
  <2>1. lastTwo' = lastTwo /\ (m_audioSeq' = m_audioSeq \/ m_audioSeq' = 0)
    BY <1>4, <1>6 DEF K!Clock, K!NoRoom, K!engine, K!Nxdn, K!Keep
  <2>2. QED
    BY <1>1, <1>3, <2>1 DEF CalRoundNxdn
<1>7. QED
  BY <1>5, <1>6

LEMMA CalRoundKept ==
  ASSUME CalInv, K!Next
  PROVE  CalRound'
<1>1. CalTypes /\ CalRound /\ protocol \in {"DMR", "P25", "NXDN"}
  BY DEF CalInv, CalTypes
<1>2. ASSUME NEW frame, protocol' = protocol PROVE K!Before(frame)' = K!Before(frame)
  BY <1>2 DEF K!Before
<1>3. ASSUME NEW mode, K!SetMode(mode) PROVE CalRound'
  <2>1. /\ undisturbed' => undisturbed /\ m_state = "IDLE"
        /\ UNCHANGED <<protocol, m_state, m_audioSeq, lastTwo>>
    BY <1>3 DEF K!SetMode, K!engine
  <2>2. QED
    BY <1>1, <1>2, <2>1 DEF CalRound, CalRoundDmr, CalRoundP25, CalRoundNxdn
<1>4. ASSUME NEW on \in BOOLEAN, K!Write(on) PROVE CalRound'
  <2>1. UNCHANGED <<protocol, m_modemState, undisturbed, m_audioSeq, lastTwo>>
    BY <1>4 DEF K!Write
  <2>2. \/ m_state' = m_state
        \/ m_state = "IDLE" /\ protocol # "DMR" /\ m_state' = "CALL"
        \/ /\ m_state = "IDLE" /\ protocol = "DMR" /\ m_state' = "VH"
           /\ m_modemState \in {"DMR_CAL_1K", "DMR_DMO_CAL_1K"}
    BY <1>4 DEF K!Write, K!CallModes
  <2>3. QED
    BY <1>1, <1>2, <2>1, <2>2 DEF CalRound, CalRoundDmr, CalRoundP25, CalRoundNxdn
<1>5. CASE K!TxOff
  <2>1. UNCHANGED <<protocol, m_modemState, undisturbed, m_state, m_audioSeq, lastTwo>>
    BY <1>5 DEF K!TxOff, K!engine
  <2>2. QED
    BY <1>1, <1>2, <2>1 DEF CalRound, CalRoundDmr, CalRoundP25, CalRoundNxdn
<1>6. ASSUME NEW begins \in BOOLEAN, K!Clock(begins) PROVE CalRound'
  <2>1. protocol' = protocol /\ undisturbed' = undisturbed
    BY <1>6 DEF K!Clock
  <2>2. CASE ~undisturbed
    BY <2>1, <2>2 DEF CalRound
  <2>3. CASE undisturbed
    BY <1>1, <1>2, <1>6, <2>1, <2>3, CalRoundDmrKept, CalRoundP25Kept, CalRoundNxdnKept DEF CalRound
  <2>4. QED
    BY <2>2, <2>3
<1>7. QED
  BY <1>3, <1>4, <1>5, <1>6 DEF K!Next

LEMMA CalTypesKept ==
  ASSUME CalTypes, K!Next
  PROVE  CalTypes'
<1>1. ASSUME NEW mode \in {"IDLE"} \cup K!CallModes(protocol) \cup K!PatternModes(protocol),
             K!SetMode(mode)
      PROVE  CalTypes'
  <2>1. /\ UNCHANGED <<protocol, m_transmit, m_state, m_audioSeq, m_frameStart, tx, m_frameCount,
                       calQueue, m_tx>>
        /\ ops' = ops + 1 /\ ops < MaxCalOps /\ m_modemState' = mode
        /\ undisturbed' = (undisturbed /\ ~m_transmit /\ m_state = "IDLE" /\ tx # "CAL")
    BY <1>1 DEF K!SetMode, K!engine, K!air, K!Command
  <2>2. undisturbed' \in BOOLEAN
    BY <2>1
  <2>3. /\ protocol = "DMR" => mode \in {"IDLE", "DMR_CAL_1K", "DMR_DMO_CAL_1K", "DMR_CAL"}
        /\ protocol = "P25" => mode \in {"IDLE", "P25_CAL_1K", "P25_CAL"}
        /\ protocol = "NXDN" => mode \in {"IDLE", "NXDN_CAL"}
    BY DEF K!CallModes, K!PatternModes
  <2>4. ops' \in 0 .. MaxCalOps
    BY <2>1, CalConstants DEF CalTypes
  <2>5. QED
    BY <2>1, <2>2, <2>3, <2>4 DEF CalTypes
<1>2. ASSUME NEW on \in BOOLEAN, K!Write(on) PROVE CalTypes'
  <2>1. /\ UNCHANGED <<protocol, m_modemState, m_audioSeq, m_frameStart, tx, m_frameCount,
                       calQueue, m_tx, undisturbed>>
        /\ ops' = ops + 1 /\ ops < MaxCalOps /\ m_transmit' = on
        /\ m_state' = m_state \/ m_state' = (IF protocol = "DMR" THEN "VH" ELSE "CALL")
    BY <1>2 DEF K!Write, K!air, K!Command
  <2>2. ops' \in 0 .. MaxCalOps
    BY <2>1, CalConstants DEF CalTypes
  <2>3. QED
    BY <2>1, <2>2 DEF CalTypes
<1>3. ASSUME NEW begins \in BOOLEAN, K!Clock(begins) PROVE CalTypes'
  BY <1>3, CalClockTypes
<1>4. CASE K!TxOff
  BY <1>4 DEF K!TxOff, K!engine, CalTypes
<1>5. QED
  BY <1>1, <1>2, <1>3, <1>4 DEF K!Next

LEMMA CalStarts == K!Init => CalInv
<1> SUFFICES ASSUME K!Init PROVE CalInv
  OBVIOUS
<1>1. CalTypes
  <2>1. [t \in {"base", "direct"} |-> 0] \in [{"base", "direct"} -> 0 .. QueueLen]
    BY CalConstants
  <2>2. 0 \in 0 .. MaxCalOps
    BY CalConstants
  <2>3. /\ protocol \in {"DMR", "P25", "NXDN"} /\ m_modemState = "IDLE" /\ m_state = "IDLE"
        /\ m_audioSeq = 0 /\ m_frameStart = 0 /\ m_frameCount = 0 /\ ops = 0
        /\ calQueue \in [{"base", "direct"} -> 0 .. QueueLen]
        /\ tx = (IF protocol = "DMR" THEN "IDLE" ELSE "NORMAL")
        /\ {m_transmit, m_tx, undisturbed} \subseteq BOOLEAN
    BY <2>1 DEF K!Init, K!Transmitters
  <2>4. QED
    BY <2>2, <2>3 DEF CalTypes
<1>2. lastTwo[1] = -1 /\ lastTwo[2] = -1 /\ m_state = "IDLE" /\ m_audioSeq = 0
  BY DEF K!Init, K!NoFrame
<1>3. CalRound
  <2>1. -1 \in K!Before(-1) /\ (protocol = "P25" => -1 \in K!Before(0))
    BY BeforeSets
  <2>2. QED
    BY <1>2, <2>1 DEF CalRound, CalRoundDmr, CalRoundP25, CalRoundNxdn
<1>4. QED
  BY <1>1, <1>2, <1>3 DEF CalInv, CalWait

\* The engines keep their invariant, and calls are whole.
LEMMA CalKeeps ==
  ASSUME CalInv, K!Next
  PROVE  CalInv' /\ K!CallWhole
<1>1. undisturbed => lastTwo[1] \in K!Before(lastTwo[2])
  BY DEF CalInv, CalRound
<1>2. QED
  BY <1>1, CalTypesKept, CalWaitKept, CalRoundKept DEF CalInv, K!CallWhole

-----------------------------------------------------------------------------
(* P25: the ring and the bytes in it *)

\* The cell i places on, for i up to twice the length.
Place(i) == IF i < FifoLen THEN i ELSE i - FifoLen

\* The j-th byte that get() will return, from 0.
CellAt(q, j) == q.m_buffer[Place(q.m_tail + j)]

\* Bytes that begin a frame, and those after one, when the frames are numbered up to w.
Starts == {<<"short">>, <<"long">>}
Follows(w) == ({"len", "msb", "lsb"} \X Nat) \cup ({"data"} \X (1 .. w) \X Nat)
FrameBytesOf(w) == Starts \cup Follows(w)

Fifos(w) ==
  {q \in [m_length : {FifoLen}, m_buffer : [0 .. FifoLen - 1 -> {NoByte} \cup FrameBytesOf(w)],
          m_head : 0 .. FifoLen - 1, m_tail : 0 .. FifoLen - 1, m_full : BOOLEAN] :
     q.m_full => q.m_head = q.m_tail}

LEMMA PlaceIs ==
  ASSUME NEW i \in Nat
  PROVE  /\ i % FifoLen \in 0 .. FifoLen - 1
         /\ i < 2 * FifoLen => i % FifoLen = Place(i)
<1>1. FifoLen \in Nat \ {0}
  BY P25TxAssumption
<1>2. CASE i < FifoLen
  BY <1>1, <1>2 DEF Place
<1>3. CASE i >= FifoLen /\ i < 2 * FifoLen
  BY <1>1, <1>3 DEF Place
<1>4. CASE i >= 2 * FifoLen
  BY <1>1, <1>4
<1>5. QED
  BY <1>1, <1>2, <1>3, <1>4

\* What sets a start byte apart, and the numbers other bytes carry.
LEMMA ByteKinds ==
  ASSUME NEW w \in Nat
  PROVE  /\ \A b \in Starts : b \notin Follows(w) /\ b # NoByte /\ b[1] \in {"short", "long"}
         /\ \A b \in Follows(w) : /\ b[1] \in {"len", "msb", "lsb", "data"} /\ b[2] \in Nat
                                  /\ b # NoByte /\ b \notin Starts
                                  /\ b[1] = "data" => b[2] \in 1 .. w
         /\ \A n \in Nat : {<<"len", n>>, <<"msb", n>>, <<"lsb", n>>} \subseteq Follows(w)
         /\ \A f \in 1 .. w, i \in Nat : <<"data", f, i>> \in Follows(w)
         /\ Follows(w) \subseteq Follows(w + 1)
<1>1. \A b \in Starts : b # NoByte /\ b[1] \in {"short", "long"}
  BY DEF Starts, NoByte
<1>2. ASSUME NEW b \in Follows(w)
      PROVE  /\ b[1] \in {"len", "msb", "lsb", "data"} /\ b[2] \in Nat
             /\ b # NoByte /\ b \notin Starts
             /\ b[1] = "data" => b[2] \in 1 .. w
  <2>1. CASE b \in {"len", "msb", "lsb"} \X Nat
    BY <2>1 DEF Starts, NoByte
  <2>2. CASE b \in {"data"} \X (1 .. w) \X Nat
    BY <2>2 DEF Starts, NoByte
  <2>3. QED
    BY <1>2, <2>1, <2>2 DEF Follows
<1>3. \A n \in Nat : {<<"len", n>>, <<"msb", n>>, <<"lsb", n>>} \subseteq Follows(w)
  BY DEF Follows
<1>4. \A f \in 1 .. w, i \in Nat : <<"data", f, i>> \in Follows(w)
  BY DEF Follows
<1>5. Follows(w) \subseteq Follows(w + 1)
  BY DEF Follows
<1>6. QED
  BY <1>1, <1>2, <1>3, <1>4, <1>5

\* getSpace() and getData() share the length out, and the head is where the data ends.
LEMMA RingParts ==
  ASSUME NEW w \in Nat, NEW q \in Fifos(w)
  PROVE  /\ GetSpace(q) \in 0 .. FifoLen /\ GetData(q) \in 0 .. FifoLen
         /\ GetSpace(q) + GetData(q) = FifoLen
         /\ q.m_head = Place(q.m_tail + GetData(q))
<1>1. FifoLen \in Nat \ {0} /\ q.m_tail \in 0 .. FifoLen - 1 /\ q.m_head \in 0 .. FifoLen - 1
      /\ q.m_length = FifoLen /\ (q.m_full => q.m_head = q.m_tail)
  BY P25TxAssumption DEF Fifos
<1>2. CASE q.m_tail = q.m_head /\ q.m_full
  <2>1. GetSpace(q) = 0 /\ GetData(q) = FifoLen
    BY <1>1, <1>2 DEF GetSpace, GetData
  <2>2. QED
    BY <1>1, <1>2, <2>1 DEF Place
<1>3. CASE q.m_tail = q.m_head /\ ~q.m_full
  <2>1. GetSpace(q) = FifoLen /\ GetData(q) = 0
    BY <1>1, <1>3 DEF GetSpace, GetData
  <2>2. QED
    BY <1>1, <1>3, <2>1 DEF Place
<1>4. CASE q.m_tail < q.m_head
  <2>1. GetSpace(q) = FifoLen - q.m_head + q.m_tail /\ GetData(q) = q.m_head - q.m_tail
    BY <1>1, <1>4 DEF GetSpace, GetData
  <2>2. QED
    BY <1>1, <1>4, <2>1 DEF Place
<1>5. CASE q.m_tail > q.m_head
  <2>1. GetSpace(q) = q.m_tail - q.m_head /\ GetData(q) = FifoLen - q.m_tail + q.m_head
    BY <1>1, <1>5 DEF GetSpace, GetData
  <2>2. QED
    BY <1>1, <1>5, <2>1 DEF Place
<1>6. QED
  BY <1>1, <1>2, <1>3, <1>4, <1>5

\* Taking n bytes moves the tail; the rest of the data comes n places earlier.
LEMMA RingTakes ==
  ASSUME NEW w \in Nat, NEW q \in Fifos(w), NEW n \in Nat
  PROVE  /\ GetAll(q, n) \in Fifos(w)
         /\ GetAll(q, n).m_buffer = q.m_buffer /\ GetAll(q, n).m_head = q.m_head
         /\ n <= GetData(q) =>
              /\ GetData(GetAll(q, n)) = GetData(q) - n
              /\ GetAll(q, n).m_tail = Place(q.m_tail + n)
              /\ \A j \in 0 .. FifoLen - 1 - n : CellAt(GetAll(q, n), j) = CellAt(q, n + j)
<1> DEFINE q2 == GetAll(q, n)
<1>1. FifoLen \in Nat \ {0} /\ q.m_tail \in 0 .. FifoLen - 1 /\ q.m_head \in 0 .. FifoLen - 1
      /\ q.m_length = FifoLen /\ q.m_full \in BOOLEAN /\ (q.m_full => q.m_head = q.m_tail)
  BY P25TxAssumption DEF Fifos
<1>2. /\ q2.m_tail = (q.m_tail + n) % FifoLen /\ (q2.m_full <=> q.m_full /\ n = 0) /\ q2.m_full \in BOOLEAN
      /\ q2.m_buffer = q.m_buffer /\ q2.m_head = q.m_head /\ q2.m_length = q.m_length
  BY <1>1 DEF GetAll, Fifos
<1> HIDE DEF q2
<1>3. q2.m_tail \in 0 .. FifoLen - 1 /\ (n = 0 => q2.m_tail = q.m_tail)
  BY <1>1, <1>2, PlaceIs DEF Place
<1>4. q2 \in Fifos(w)
  <2>1. (q.m_full /\ n = 0) \in BOOLEAN
    OBVIOUS
  <2>2. q2 \in [m_length : {FifoLen}, m_buffer : [0 .. FifoLen - 1 -> {NoByte} \cup FrameBytesOf(w)],
                m_head : 0 .. FifoLen - 1, m_tail : 0 .. FifoLen - 1, m_full : BOOLEAN]
    BY <1>1, <1>2, <1>3, <2>1 DEF GetAll, Fifos, q2
  <2>3. q2.m_full => q2.m_head = q2.m_tail
    BY <1>1, <1>2, <1>3
  <2>4. QED
    BY <2>2, <2>3 DEF Fifos
<1>5. ASSUME n <= GetData(q)
      PROVE  /\ GetData(q2) = GetData(q) - n
             /\ q2.m_tail = Place(q.m_tail + n)
             /\ \A j \in 0 .. FifoLen - 1 - n : CellAt(q2, j) = CellAt(q, n + j)
  <2>1. GetData(q) \in 0 .. FifoLen /\ n \in 0 .. FifoLen
    BY <1>1, <1>5, RingParts
  <2>2. q2.m_tail = Place(q.m_tail + n)
    <3>1. q.m_tail + n \in Nat /\ q.m_tail + n < 2 * FifoLen
      BY <1>1, <2>1
    <3>2. QED
      BY <1>2, <3>1, PlaceIs
  <2>3. GetData(q2) = GetData(q) - n
    <3>1. CASE n = 0
      BY <1>1, <1>2, <1>3, <3>1 DEF GetData
    <3>2. CASE n > 0
      <4>1. ~q2.m_full
        BY <1>2, <3>2
      <4>2. GetData(q2) = (IF q2.m_tail <= q.m_head THEN q.m_head - q2.m_tail
                                                     ELSE FifoLen - q2.m_tail + q.m_head)
        BY <1>1, <1>2, <1>3, <4>1, SMTT(30) DEF GetData
      <4>3. q.m_head = Place(q.m_tail + GetData(q))
        BY RingParts
      <4>4. QED
        BY <1>1, <1>5, <2>1, <2>2, <3>2, <4>2, <4>3 DEF Place
    <3>3. QED
      BY <2>1, <3>1, <3>2
  <2>4. \A j \in 0 .. FifoLen - 1 - n : Place(q2.m_tail + j) = Place(q.m_tail + (n + j))
    BY <1>1, <2>1, <2>2 DEF Place
  <2>5. QED
    BY <1>2, <2>2, <2>3, <2>4 DEF CellAt
<1>6. QED
  BY <1>2, <1>4, <1>5 DEF q2

\* Places from the tail and from the head, with d bytes between them.
LEMMA PlaceSums ==
  ASSUME NEW t \in 0 .. FifoLen - 1, NEW d \in 0 .. FifoLen, NEW h \in 0 .. FifoLen - 1,
         h = Place(t + d)
  PROVE  /\ \A j \in 0 .. FifoLen - 1 : Place(t + j) \in 0 .. FifoLen - 1
         /\ \A j \in 0 .. d - 1 : j < FifoLen => Place(Place(t + j) + (FifoLen - h)) = FifoLen - d + j
         /\ \A j \in d .. FifoLen - 1 : Place(Place(t + j) + (FifoLen - h)) = j - d
         /\ \A n \in 0 .. FifoLen - d : Place(h + n) = Place(t + (d + n))
<1> FifoLen \in Nat \ {0}
  BY P25TxAssumption
<1>1. \A j \in 0 .. FifoLen - 1 : Place(t + j) \in 0 .. FifoLen - 1
  BY DEF Place
<1>2. CASE t + d < FifoLen
  BY <1>1, <1>2 DEF Place
<1>3. CASE t + d >= FifoLen
  BY <1>1, <1>3 DEF Place
<1>4. QED
  BY <1>2, <1>3

\* What is put and fits comes behind the data that is there, and nothing else changes.
LEMMA RingPuts ==
  ASSUME NEW w \in Nat, NEW q \in Fifos(w), NEW s \in Seq(FrameBytesOf(w)),
         NEW n \in Nat, n = (IF Len(s) < GetSpace(q) THEN Len(s) ELSE GetSpace(q))
  PROVE  /\ PutAll(q, s) \in Fifos(w)
         /\ GetData(PutAll(q, s)) = GetData(q) + n
         /\ PutAll(q, s).m_tail = q.m_tail /\ PutAll(q, s).m_head = Place(q.m_head + n)
         /\ \A p \in 0 .. FifoLen - 1 :
              PutAll(q, s).m_buffer[p] = IF Place(p + (FifoLen - q.m_head)) < n
                                         THEN s[Place(p + (FifoLen - q.m_head)) + 1] ELSE q.m_buffer[p]
         /\ \A j \in 0 .. GetData(q) - 1 : CellAt(PutAll(q, s), j) = CellAt(q, j)
         /\ \A i \in 1 .. n : CellAt(PutAll(q, s), GetData(q) + (i - 1)) = s[i]
<1> DEFINE q2 == PutAll(q, s)
           At(p) == Place(p + (FifoLen - q.m_head))
<1>1. /\ FifoLen \in Nat \ {0} /\ q.m_tail \in 0 .. FifoLen - 1 /\ q.m_head \in 0 .. FifoLen - 1
      /\ q.m_length = FifoLen /\ q.m_full \in BOOLEAN /\ (q.m_full => q.m_head = q.m_tail)
      /\ q.m_buffer \in [0 .. FifoLen - 1 -> {NoByte} \cup FrameBytesOf(w)]
  BY P25TxAssumption DEF Fifos
<1>2. /\ GetSpace(q) \in 0 .. FifoLen /\ GetData(q) \in 0 .. FifoLen
      /\ GetSpace(q) + GetData(q) = FifoLen
      /\ q.m_head = Place(q.m_tail + GetData(q))
  BY RingParts
<1>3. Len(s) \in Nat /\ n \in 0 .. FifoLen /\ n <= Len(s) /\ n <= GetSpace(q)
  BY <1>1, <1>2
<1>4. \A p \in 0 .. FifoLen - 1 :
        (p + FifoLen - q.m_head) % FifoLen = At(p) /\ At(p) \in 0 .. FifoLen - 1
  <2>1. ASSUME NEW p \in 0 .. FifoLen - 1
        PROVE  (p + FifoLen - q.m_head) % FifoLen = At(p) /\ At(p) \in 0 .. FifoLen - 1
    <3>1. p + FifoLen - q.m_head = p + (FifoLen - q.m_head)
      BY <1>1
    <3>2. p + (FifoLen - q.m_head) \in Nat /\ p + (FifoLen - q.m_head) < 2 * FifoLen
      BY <1>1
    <3>3. QED
      BY <3>1, <3>2, PlaceIs
  <2>2. QED
    BY <2>1
<1>5. (q.m_head + n) % FifoLen = Place(q.m_head + n) /\ Place(q.m_head + n) \in 0 .. FifoLen - 1
  <2>1. q.m_head + n \in Nat /\ q.m_head + n < 2 * FifoLen
    BY <1>1, <1>3
  <2>2. QED
    BY <2>1, PlaceIs
<1> DEFINE Buffer == [p \in 0 .. FifoLen - 1 |-> IF At(p) < n THEN s[At(p) + 1] ELSE q.m_buffer[p]]
           Full == q.m_full \/ (n > 0 /\ n = GetSpace(q))
<1>6. Buffer \in [0 .. FifoLen - 1 -> {NoByte} \cup FrameBytesOf(w)]
  <2>1. ASSUME NEW p \in 0 .. FifoLen - 1
        PROVE  (IF At(p) < n THEN s[At(p) + 1] ELSE q.m_buffer[p]) \in {NoByte} \cup FrameBytesOf(w)
    <3>1. CASE At(p) < n
      <4>1. At(p) + 1 \in 1 .. Len(s)
        BY <1>3, <1>4, <3>1
      <4>2. s[At(p) + 1] \in FrameBytesOf(w)
        BY <4>1
      <4>3. QED
        BY <3>1, <4>2
    <3>2. CASE ~(At(p) < n)
      BY <1>1, <3>2
    <3>3. QED
      BY <3>1, <3>2
  <2>2. QED
    BY <2>1
<1>7. q2 = [q EXCEPT !.m_buffer = Buffer, !.m_head = Place(q.m_head + n), !.m_full = Full]
  <2>1. DOMAIN q.m_buffer = 0 .. FifoLen - 1
    BY <1>1
  <2>2. [i \in DOMAIN q.m_buffer |-> IF (i + q.m_length - q.m_head) % q.m_length < n
                                     THEN s[((i + q.m_length - q.m_head) % q.m_length) + 1]
                                     ELSE q.m_buffer[i]] = Buffer
    <3> HIDE DEF At
    <3>1. QED
      BY <1>1, <1>4, <2>1
  <2>3. QED
    BY <1>1, <1>5, <2>2 DEF PutAll
<1>8. /\ q2.m_buffer = Buffer /\ q2.m_head = Place(q.m_head + n) /\ q2.m_tail = q.m_tail
      /\ q2.m_length = FifoLen
      /\ q2.m_full <=> q.m_full \/ (n > 0 /\ n = GetSpace(q))
      /\ q2.m_full \in BOOLEAN
  BY <1>1, <1>7 DEF Fifos
<1> HIDE DEF q2, Buffer, Full
<1>20. PICK d \in 0 .. FifoLen, t \in 0 .. FifoLen - 1, h \in 0 .. FifoLen - 1 :
         d = GetData(q) /\ t = q.m_tail /\ h = q.m_head
  BY <1>1, <1>2
<1>21. h = Place(t + d)
  BY <1>2, <1>20
<1>22. /\ \A j \in 0 .. FifoLen - 1 : Place(t + j) \in 0 .. FifoLen - 1
       /\ \A j \in 0 .. d - 1 : j < FifoLen => Place(Place(t + j) + (FifoLen - h)) = FifoLen - d + j
       /\ \A j \in d .. FifoLen - 1 : Place(Place(t + j) + (FifoLen - h)) = j - d
       /\ \A k \in 0 .. FifoLen - d : Place(h + k) = Place(t + (d + k))
  BY <1>21, PlaceSums
<1>23. n \in 0 .. FifoLen - d /\ d + n \in 0 .. FifoLen /\ GetSpace(q) = FifoLen - d
       /\ q2.m_head = Place(t + (d + n))
  <2>1. n \in 0 .. FifoLen - d /\ d + n \in 0 .. FifoLen /\ GetSpace(q) = FifoLen - d
    BY <1>1, <1>2, <1>3, <1>20, SMTT(20)
  <2>2. QED
    BY <1>8, <1>20, <1>22, <2>1
<1>9. q2.m_full => q2.m_head = q2.m_tail
  <2>1. CASE q.m_full
    <3>1. GetSpace(q) = 0
      BY <1>1, <2>1 DEF GetSpace
    <3>2. n = 0 /\ q.m_head = q.m_tail
      BY <1>1, <1>3, <2>1, <3>1
    <3>3. QED
      BY <1>1, <1>8, <3>2 DEF Place
  <2>2. CASE n > 0 /\ n = GetSpace(q)
    <3>1. d + n = FifoLen
      BY <1>1, <1>20, <1>23, <2>2
    <3>2. Place(t + FifoLen) = t
      BY <1>1, <1>20 DEF Place
    <3>3. QED
      BY <1>8, <1>20, <1>23, <3>1, <3>2
  <2>3. QED
    BY <1>8, <2>1, <2>2
<1>10. q2 \in Fifos(w)
  <2>1. q2 \in [m_length : {FifoLen}, m_buffer : [0 .. FifoLen - 1 -> {NoByte} \cup FrameBytesOf(w)],
                m_head : 0 .. FifoLen - 1, m_tail : 0 .. FifoLen - 1, m_full : BOOLEAN]
    <3>1. Full \in BOOLEAN
      BY DEF Full
    <3>2. QED
      BY <1>5, <1>6, <1>7, <3>1 DEF Fifos
  <2>2. QED
    BY <1>9, <2>1 DEF Fifos
<1>11. GetData(q2) = GetData(q) + n
  <2>1. CASE n = 0
    <3>1. q2.m_head = q.m_head
      BY <1>1, <1>8, <2>1 DEF Place
    <3>2. q2.m_full <=> q.m_full
      BY <1>8, <2>1
    <3>3. QED
      BY <1>1, <1>2, <1>8, <2>1, <3>1, <3>2 DEF GetData
  <2>2. CASE n > 0 /\ n = GetSpace(q)
    <3>1. q2.m_full
      BY <1>8, <2>2
    <3>2. QED
      BY <1>1, <1>2, <1>8, <1>9, <2>2, <3>1 DEF GetData
  <2>3. CASE n > 0 /\ n < GetSpace(q)
    <3>1. ~q.m_full
      BY <1>1, <2>3 DEF GetSpace
    <3>2. ~q2.m_full
      BY <1>8, <2>3, <3>1
    <3>3. GetData(q2) = (IF q2.m_tail <= q2.m_head THEN q2.m_head - q2.m_tail
                                                    ELSE FifoLen - q2.m_tail + q2.m_head)
      BY <1>1, <1>5, <1>8, <3>2 DEF GetData
    <3>4. d + n < FifoLen /\ d + n \in Nat
      BY <1>1, <1>20, <1>23, <2>3
    <3>5. q2.m_tail = t /\ q2.m_head = Place(t + (d + n))
      BY <1>8, <1>20, <1>23
    <3>6. PICK u \in 0 .. FifoLen - 1 : u = Place(t + (d + n))
      BY <1>5, <1>8, <3>5
    <3>7. GetData(q2) = d + n
      <4>1. GetData(q2) = (IF t <= u THEN u - t ELSE FifoLen - t + u)
        BY <3>3, <3>5, <3>6
      <4>2. CASE t + (d + n) < FifoLen
        <5>1. u = t + (d + n)
          BY <3>6, <4>2 DEF Place
        <5>2. QED
          BY <1>1, <3>4, <4>1, <5>1
      <4>3. CASE ~(t + (d + n) < FifoLen)
        <5>1. u = t + (d + n) - FifoLen
          BY <1>1, <3>4, <3>6, <4>3 DEF Place
        <5>2. ~(t <= u)
          BY <1>1, <3>4, <5>1
        <5>3. QED
          BY <1>1, <3>4, <4>1, <5>1, <5>2, SMTT(20)
      <4>4. QED
        BY <4>2, <4>3
    <3>8. QED
      BY <1>20, <3>7
  <2>4. QED
    BY <1>2, <1>3, <2>1, <2>2, <2>3
<1>12. ASSUME NEW p \in 0 .. FifoLen - 1
       PROVE  q2.m_buffer[p] = IF At(p) < n THEN s[At(p) + 1] ELSE q.m_buffer[p]
  BY <1>8 DEF Buffer
<1>13. ASSUME NEW j \in 0 .. GetData(q) - 1 PROVE CellAt(q2, j) = CellAt(q, j)
  <2>1. j \in 0 .. d - 1 /\ j < FifoLen /\ j \in 0 .. FifoLen - 1
    BY <1>1, <1>20
  <2>2. Place(t + j) \in 0 .. FifoLen - 1 /\ Place(Place(t + j) + (FifoLen - h)) = FifoLen - d + j
    BY <1>22, <2>1
  <2>3. At(Place(t + j)) = FifoLen - d + j
    BY <1>20, <2>2
  <2>4. ~(At(Place(t + j)) < n)
    BY <1>1, <1>23, <2>1, <2>3
  <2>5. q2.m_buffer[Place(t + j)] = q.m_buffer[Place(t + j)]
    BY <1>12, <2>2, <2>4
  <2>6. QED
    BY <1>8, <1>20, <2>5 DEF CellAt
<1>14. ASSUME NEW i \in 1 .. n PROVE CellAt(q2, GetData(q) + (i - 1)) = s[i]
  <2>1. PICK j \in d .. FifoLen - 1 : j = d + (i - 1)
    BY <1>1, <1>23
  <2>2. j - d = i - 1 /\ i - 1 < n /\ (i - 1) + 1 = i /\ j \in 0 .. FifoLen - 1
    BY <1>3, <2>1
  <2>3. Place(t + j) \in 0 .. FifoLen - 1 /\ Place(Place(t + j) + (FifoLen - h)) = i - 1
    BY <1>22, <2>2
  <2>4. At(Place(t + j)) = i - 1
    BY <1>20, <2>3
  <2>5. q2.m_buffer[Place(t + j)] = s[i]
    BY <1>12, <2>2, <2>3, <2>4
  <2>6. QED
    BY <1>8, <1>20, <2>1, <2>5 DEF CellAt
<1>15. QED
  BY <1>8, <1>10, <1>11, <1>12, <1>13, <1>14 DEF q2

-----------------------------------------------------------------------------
(* P25: the frames in the ring *)

\* A frame as it is put: its framing and its payload.
Wire(frame) == Header(frame[2]) \o Payload(frame)

FramesUpTo(w) == (1 .. w) \X (Nat \ {0})

\* The data of the ring is the frames acc, one behind the other: the k-th begins off[k]
\* bytes behind the tail, and the last offset is where the data ends.
FramesIn(off, q, acc) ==
  /\ off \in [1 .. Len(acc) + 1 -> 0 .. GetData(q)]
  /\ off[1] = 0 /\ off[Len(acc) + 1] = GetData(q)
  /\ \A j, k \in 1 .. Len(acc) + 1 : j <= k => off[j] <= off[k]
  /\ \A k \in 1 .. Len(acc) :
       /\ off[k + 1] = off[k] + Len(Wire(acc[k]))
       /\ \A i \in 1 .. Len(Wire(acc[k])) : CellAt(q, off[k] + (i - 1)) = Wire(acc[k])[i]

\* The data is bytes of frames, and what follows a start byte is no start byte.
ProperData(q, w) ==
  \A j \in 0 .. GetData(q) - 1 :
    /\ CellAt(q, j) \in FrameBytesOf(w)
    /\ CellAt(q, j) \in Starts => j + 1 < GetData(q) /\ CellAt(q, j + 1) \in Follows(w)

\* So are all cells, once the ring was filled to the brim and get() may run past the head.
ProperRing(q, w) ==
  /\ \A p \in 0 .. FifoLen - 1 :
       /\ q.m_buffer[p] \in FrameBytesOf(w)
       /\ q.m_buffer[p] \in Starts => q.m_buffer[Place(p + 1)] \in Follows(w)
  /\ q.m_buffer[Place(q.m_head + (FifoLen - 1))] \notin Starts

LEMMA WireIs ==
  ASSUME NEW w \in Nat, NEW frame \in FramesUpTo(w)
  PROVE  /\ Wire(frame) \in Seq(FrameBytesOf(w))
         /\ Len(Header(frame[2])) \in {2, 3}
         /\ Len(Wire(frame)) = Len(Header(frame[2])) + frame[2] /\ frame[2] \in Nat \ {0}
         /\ \A i \in 2 .. Len(Wire(frame)) : Wire(frame)[i] \in Follows(w)
         /\ Wire(frame)[1] = (IF Len(Header(frame[2])) = 2 THEN <<"short">> ELSE <<"long">>)
         /\ Wire(frame)[2][2] = frame[2]
         /\ \A i \in 1 .. frame[2] : Wire(frame)[Len(Header(frame[2])) + i] = <<"data", frame[1], i>>
<1> DEFINE size == frame[2]
           header == Header(size)
           body == [i \in 1 .. size |-> <<"data", frame[1], i>>]
<1>1. frame[1] \in 1 .. w /\ size \in Nat \ {0}
  BY DEF FramesUpTo
<1>2. /\ body = Payload(frame)
      /\ \A i \in 1 .. size : body[i] = <<"data", frame[1], i>> /\ <<"data", frame[1], i>> \in Follows(w)
  BY <1>1, ByteKinds, SMTT(30) DEF Payload
<1>3. body \in Seq(Follows(w)) /\ Len(body) = size
  <2>1. size \in Nat /\ \A i \in 1 .. size : <<"data", frame[1], i>> \in Follows(w)
    BY <1>1, <1>2
  <2>2. body \in [1 .. size -> Follows(w)]
    BY <2>1
  <2>3. body \in Seq(Follows(w))
    BY <2>1, <2>2
  <2>4. QED
    BY <2>1, <2>2, <2>3, LenProperties
<1>4. /\ header \in Seq(FrameBytesOf(w)) /\ Len(header) \in {2, 3}
      /\ header[1] = (IF Len(header) = 2 THEN <<"short">> ELSE <<"long">>)
      /\ header[2][2] = size
      /\ \A i \in 2 .. Len(header) : header[i] \in Follows(w)
  <2>1. /\ <<"len", size>> \in Follows(w) /\ <<"msb", size>> \in Follows(w)
        /\ <<"lsb", size>> \in Follows(w) /\ <<"short">> \in Starts /\ <<"long">> \in Starts
    BY <1>1, ByteKinds DEF Starts
  <2>2. CASE size + 1 <= ByteMax
    <3>1. header = <<<<"short">>, <<"len", size>>>>
      BY <2>2 DEF Header
    <3>2. Len(header) = 2 /\ header[1] = <<"short">> /\ header[2] = <<"len", size>>
      BY <3>1
    <3>3. header \in Seq(FrameBytesOf(w))
      BY <2>1, <3>1 DEF FrameBytesOf
    <3>4. \A i \in 2 .. 2 : i = 2
      OBVIOUS
    <3>5. \A i \in 2 .. Len(header) : header[i] \in Follows(w)
      BY <2>1, <3>2, <3>4
    <3>6. header[1] = (IF Len(header) = 2 THEN <<"short">> ELSE <<"long">>) /\ header[2][2] = size
      BY <3>2
    <3>7. Len(header) \in {2, 3}
      BY <3>2
    <3>8. QED
      BY <3>3, <3>5, <3>6, <3>7
  <2>3. CASE ~(size + 1 <= ByteMax)
    <3>1. header = <<<<"long">>, <<"msb", size>>, <<"lsb", size>>>>
      BY <2>3 DEF Header
    <3>2. /\ Len(header) = 3 /\ header[1] = <<"long">> /\ header[2] = <<"msb", size>>
          /\ header[3] = <<"lsb", size>>
      BY <3>1
    <3>3. header \in Seq(FrameBytesOf(w))
      BY <2>1, <3>1 DEF FrameBytesOf
    <3>4. \A i \in 2 .. 3 : i = 2 \/ i = 3
      OBVIOUS
    <3>5. \A i \in 2 .. Len(header) : header[i] \in Follows(w)
      BY <2>1, <3>2, <3>4
    <3>6. header[1] = (IF Len(header) = 2 THEN <<"short">> ELSE <<"long">>) /\ header[2][2] = size
      BY <3>2
    <3>7. Len(header) \in {2, 3}
      BY <3>2
    <3>8. QED
      BY <3>3, <3>5, <3>6, <3>7
  <2>4. QED
    BY <2>2, <2>3
<1> HIDE DEF header, body
<1>5. body \in Seq(FrameBytesOf(w))
  BY <1>3 DEF FrameBytesOf
<1>6. /\ header \o body \in Seq(FrameBytesOf(w)) /\ Len(header \o body) = Len(header) + size
      /\ \A i \in 1 .. Len(header) : (header \o body)[i] = header[i]
      /\ \A i \in 1 .. size : (header \o body)[Len(header) + i] = body[i]
  <2>0. header \in Seq(FrameBytesOf(w))
    BY <1>4
  <2>6. /\ header \o body \in Seq(FrameBytesOf(w)) /\ Len(header \o body) = Len(header) + Len(body)
        /\ \A i \in 1 .. Len(header) + Len(body) :
             (header \o body)[i] = IF i <= Len(header) THEN header[i] ELSE body[i - Len(header)]
    BY <1>5, <2>0, ConcatProperties, Zenon
  <2>1. /\ header \o body \in Seq(FrameBytesOf(w)) /\ Len(header \o body) = Len(header) + size
        /\ \A i \in 1 .. Len(header) + size :
             (header \o body)[i] = IF i <= Len(header) THEN header[i] ELSE body[i - Len(header)]
    BY <1>3, <2>6
  <2>2. Len(header) \in Nat
    BY <1>4
  <2>3. ASSUME NEW i \in 1 .. size PROVE (header \o body)[Len(header) + i] = body[i]
    <3>1. /\ Len(header) + i \in 1 .. Len(header) + size /\ ~(Len(header) + i <= Len(header))
          /\ (Len(header) + i) - Len(header) = i
      BY <1>1, <2>2
    <3>2. QED
      BY <2>1, <3>1
  <2>4. ASSUME NEW i \in 1 .. Len(header) PROVE (header \o body)[i] = header[i]
    <3>1. i \in 1 .. Len(header) + size /\ i <= Len(header)
      BY <1>1, <2>2
    <3>2. QED
      BY <2>1, <3>1
  <2>5. QED
    BY <2>1, <2>3, <2>4
<1>7. Wire(frame) = header \o body
  BY <1>2 DEF Wire, header
<1>8. ASSUME NEW i \in 2 .. Len(header \o body) PROVE (header \o body)[i] \in Follows(w)
  <2>1. CASE i <= Len(header)
    BY <1>4, <1>6, <2>1
  <2>2. CASE i > Len(header)
    <3>1. PICK k \in 1 .. size : i = Len(header) + k
      <4>1. i - Len(header) \in 1 .. size /\ i = Len(header) + (i - Len(header))
        BY <1>1, <1>4, <1>6, <2>2
      <4>2. QED
        BY <4>1
    <3>2. QED
      BY <1>2, <1>6, <3>1
  <2>3. QED
    BY <1>4, <1>6, <2>1, <2>2
<1>9. QED
  <2>1. \A i \in 1 .. size : (header \o body)[Len(header) + i] = <<"data", frame[1], i>>
    BY <1>2, <1>6
  <2>2. 1 \in 1 .. Len(header) /\ 2 \in 1 .. Len(header)
    BY <1>4
  <2>3. QED
    BY <1>1, <1>4, <1>6, <1>7, <1>8, <2>1, <2>2 DEF header

\* An emptied ring.
LEMMA RingEmptied ==
  ASSUME NEW w \in Nat, NEW q \in Fifos(w)
  PROVE  /\ Reset(q) \in Fifos(w)
         /\ \E off : FramesIn(off, Reset(q), <<>>)
         /\ ProperData(Reset(q), w)
<1>1. Reset(q).m_tail = Reset(q).m_head /\ Reset(q).m_full = FALSE
  BY DEF Reset, Fifos
<1>4. Reset(q) \in Fifos(w)
  <2>1. 0 \in 0 .. FifoLen - 1
    BY P25TxAssumption
  <2>2. Reset(q) \in [m_length : {FifoLen}, m_buffer : [0 .. FifoLen - 1 -> {NoByte} \cup FrameBytesOf(w)],
                      m_head : 0 .. FifoLen - 1, m_tail : 0 .. FifoLen - 1, m_full : BOOLEAN]
    BY <2>1 DEF Reset, Fifos
  <2>3. QED
    BY <1>1, <2>2 DEF Fifos
<1>2. GetData(Reset(q)) = 0
  BY <1>1 DEF GetData
<1>3. FramesIn([k \in 1 .. 1 |-> 0], Reset(q), <<>>)
  BY <1>2 DEF FramesIn
<1>5. QED
  BY <1>2, <1>3, <1>4 DEF ProperData

\* A frame put behind the others, where there is room for it.
LEMMA FramesPut ==
  ASSUME NEW w \in Nat, NEW q \in Fifos(w), NEW acc \in Seq(FramesUpTo(w)), NEW frame \in FramesUpTo(w),
         NEW off, FramesIn(off, q, acc), Len(Wire(frame)) <= GetSpace(q)
  PROVE  \E o : FramesIn(o, PutAll(q, Wire(frame)), Append(acc, frame))
<1> DEFINE q2 == PutAll(q, Wire(frame))
           acc2 == Append(acc, frame)
           N1 == Len(acc) + 1
           o == [k \in 1 .. N1 + 1 |-> IF k <= N1 THEN off[k] ELSE GetData(q) + Len(Wire(frame))]
<1>1. /\ Wire(frame) \in Seq(FrameBytesOf(w)) /\ Len(Wire(frame)) \in Nat
      /\ GetSpace(q) \in 0 .. FifoLen /\ GetData(q) \in 0 .. FifoLen /\ FifoLen \in Nat
  BY WireIs, RingParts, P25TxAssumption
<1>2. PICK n \in Nat : n = Len(Wire(frame)) /\ n = (IF Len(Wire(frame)) < GetSpace(q) THEN Len(Wire(frame)) ELSE GetSpace(q))
  BY <1>1
<1>3. /\ GetData(q2) = GetData(q) + n
      /\ \A j \in 0 .. GetData(q) - 1 : CellAt(q2, j) = CellAt(q, j)
      /\ \A i \in 1 .. n : CellAt(q2, GetData(q) + (i - 1)) = Wire(frame)[i]
  BY <1>1, <1>2, RingPuts
<1>4. PICK d \in Nat : d = GetData(q)
  BY <1>1
<1>5. /\ N1 \in Nat \ {0} /\ Len(acc2) = N1 /\ acc2[N1] = frame
      /\ \A k \in 1 .. Len(acc) : acc2[k] = acc[k]
  OBVIOUS
<1>6. /\ off \in [1 .. N1 -> 0 .. d] /\ off[1] = 0 /\ off[N1] = d
      /\ \A j, k \in 1 .. N1 : j <= k => off[j] <= off[k]
      /\ \A k \in 1 .. Len(acc) :
           /\ off[k + 1] = off[k] + Len(Wire(acc[k]))
           /\ \A i \in 1 .. Len(Wire(acc[k])) : CellAt(q, off[k] + (i - 1)) = Wire(acc[k])[i]
  BY <1>4 DEF FramesIn
<1> HIDE DEF q2, acc2, N1
<1>7. /\ o \in [1 .. N1 + 1 -> 0 .. d + n] /\ o[N1 + 1] = d + n
      /\ \A k \in 1 .. N1 : o[k] = off[k] /\ o[k] \in 0 .. d
  <2>0. \A k \in 1 .. N1 : k <= N1 /\ k \in 1 .. N1 + 1
    BY <1>5
  <2>1. \A k \in 1 .. N1 : k <= N1 /\ k \in 1 .. N1 + 1 /\ off[k] \in 0 .. d
    BY <1>6, <2>0
  <2>2. \A k \in 1 .. N1 : o[k] = off[k]
    BY <2>1
  <2>3. N1 + 1 \in 1 .. N1 + 1 /\ ~(N1 + 1 <= N1)
    BY <1>5
  <2>4. o[N1 + 1] = d + n
    BY <1>2, <1>4, <2>3
  <2>5. \A k \in 1 .. N1 + 1 : k \in 1 .. N1 \/ k = N1 + 1
    BY <1>5
  <2>6. \A k \in 1 .. N1 + 1 : o[k] \in 0 .. d + n
    BY <1>1, <1>2, <1>4, <2>1, <2>2, <2>4, <2>5
  <2>7. QED
    BY <2>1, <2>2, <2>4, <2>6
<1> HIDE DEF o
<1>8. o[1] = 0
  BY <1>5, <1>6, <1>7
<1>9. ASSUME NEW j \in 1 .. N1 + 1, NEW k \in 1 .. N1 + 1, j <= k PROVE o[j] <= o[k]
  <2>1. CASE k = N1 + 1
    BY <1>7, <1>9, <2>1, <1>2, <1>1, SMTT(30)
  <2>2. CASE k # N1 + 1
    <3>1. j \in 1 .. N1 /\ k \in 1 .. N1
      BY <1>5, <1>9, <2>2
    <3>2. QED
      BY <1>6, <1>7, <1>9, <3>1
  <2>3. QED
    BY <2>1, <2>2
<1>10. ASSUME NEW k \in 1 .. N1
       PROVE  /\ o[k + 1] = o[k] + Len(Wire(acc2[k]))
              /\ \A i \in 1 .. Len(Wire(acc2[k])) : CellAt(q2, o[k] + (i - 1)) = Wire(acc2[k])[i]
  <2>1. CASE k = N1
    <3>1. N1 \in 1 .. N1
      BY <1>5
    <3>2. o[k + 1] = d + n /\ o[k] = d /\ acc2[k] = frame
      BY <1>5, <1>6, <1>7, <2>1, <3>1
    <3>3. \A i \in 1 .. n : CellAt(q2, d + (i - 1)) = Wire(frame)[i]
      BY <1>3, <1>4
    <3>4. QED
      BY <1>2, <3>2, <3>3
  <2>2. CASE k # N1
    <3>1. k \in 1 .. Len(acc) /\ k \in 1 .. N1 /\ k + 1 \in 1 .. N1
      BY <1>5, <2>2 DEF N1
    <3>2. /\ o[k] = off[k] /\ o[k + 1] = off[k + 1] /\ acc2[k] = acc[k]
          /\ off[k] \in 0 .. d /\ off[k + 1] \in 0 .. d
          /\ off[k + 1] = off[k] + Len(Wire(acc[k]))
      BY <1>5, <1>6, <1>7, <3>1
    <3>3. Len(Wire(acc[k])) \in Nat
      BY <3>1, WireIs
    <3>4. ASSUME NEW i \in 1 .. Len(Wire(acc[k]))
          PROVE  CellAt(q2, off[k] + (i - 1)) = Wire(acc[k])[i]
      <4>1. off[k] + (i - 1) \in 0 .. d - 1
        BY <1>4, <3>2, <3>3, SMTT(20)
      <4>2. QED
        BY <1>3, <1>4, <1>6, <3>1, <4>1
    <3>5. QED
      BY <3>2, <3>4
  <2>3. QED
    BY <2>1, <2>2
<1>11. FramesIn(o, q2, acc2)
  <2>1. GetData(q2) = d + n
    BY <1>3, <1>4
  <2>2. QED
    BY <1>5, <1>7, <1>8, <1>9, <1>10, <2>1 DEF FramesIn
<1>12. QED
  BY <1>11 DEF q2, acc2

\* A frame taken off: those behind it stay.
LEMMA FramesTaken ==
  ASSUME NEW w \in Nat, NEW q \in Fifos(w), NEW acc \in Seq(FramesUpTo(w)), acc # <<>>,
         NEW off, FramesIn(off, q, acc), NEW n \in Nat, n = Len(Wire(acc[1])), NEW q2,
         GetData(q2) = GetData(q) - n,
         \A j \in 0 .. GetData(q) - n - 1 : CellAt(q2, j) = CellAt(q, n + j)
  PROVE  \E o : FramesIn(o, q2, Tail(acc))
<1> DEFINE count == Len(acc)
           acc2 == Tail(acc)
           o == [k \in 1 .. count |-> off[k + 1] - n]
<1>1. PICK d \in Nat : d = GetData(q)
  BY RingParts, P25TxAssumption
<1>2. /\ count \in Nat \ {0} /\ Len(acc2) = count - 1
      /\ \A k \in 1 .. count - 1 : acc2[k] = acc[k + 1] /\ k + 1 \in 1 .. count
  OBVIOUS
<1>3. /\ off \in [1 .. count + 1 -> 0 .. d] /\ off[1] = 0 /\ off[count + 1] = d
      /\ \A j, k \in 1 .. count + 1 : j <= k => off[j] <= off[k]
      /\ \A k \in 1 .. count :
           /\ off[k + 1] = off[k] + Len(Wire(acc[k]))
           /\ \A i \in 1 .. Len(Wire(acc[k])) : CellAt(q, off[k] + (i - 1)) = Wire(acc[k])[i]
  BY <1>1 DEF FramesIn
<1> HIDE DEF count, acc2
<1>4. off[2] = n /\ 1 \in 1 .. count
  <2>1. 1 \in 1 .. count /\ 1 + 1 = 2
    BY <1>2
  <2>2. off[2] = 0 + n
    BY <1>3, <2>1
  <2>3. QED
    BY <2>1, <2>2
<1>5. \A k \in 1 .. count : k + 1 \in 1 .. count + 1 /\ off[k + 1] \in 0 .. d /\ n <= off[k + 1]
  <2>1. 2 \in 1 .. count + 1 /\ \A k \in 1 .. count : k + 1 \in 1 .. count + 1 /\ 2 <= k + 1
    BY <1>2
  <2>2. QED
    BY <1>3, <1>4, <2>1
<1>6. o \in [1 .. count -> 0 .. d - n] /\ \A k \in 1 .. count : o[k] = off[k + 1] - n
  <2>1. \A k \in 1 .. count : off[k + 1] - n \in 0 .. d - n
    BY <1>1, <1>5
  <2>2. QED
    BY <2>1
<1> HIDE DEF o
<1>7. o[1] = 0 /\ o[count] = d - n
  <2>1. 1 \in 1 .. count /\ count \in 1 .. count /\ 1 + 1 = 2
    BY <1>2
  <2>2. o[1] = off[2] - n /\ o[count] = off[count + 1] - n
    BY <1>6, <2>1
  <2>3. n - n = 0
    OBVIOUS
  <2>4. QED
    BY <1>3, <1>4, <2>2, <2>3
<1>8. ASSUME NEW j \in 1 .. count, NEW k \in 1 .. count, j <= k PROVE o[j] <= o[k]
  <2>1. off[j + 1] <= off[k + 1]
    BY <1>2, <1>3, <1>5, <1>8
  <2>2. QED
    BY <1>5, <1>6, <2>1
<1>9. ASSUME NEW k \in 1 .. count - 1
      PROVE  /\ o[k + 1] = o[k] + Len(Wire(acc2[k]))
             /\ \A i \in 1 .. Len(Wire(acc2[k])) : CellAt(q2, o[k] + (i - 1)) = Wire(acc2[k])[i]
  <2>1. k \in 1 .. count /\ k + 1 \in 1 .. count /\ acc2[k] = acc[k + 1]
    BY <1>2
  <2>2. Len(Wire(acc[k + 1])) \in Nat
    BY <2>1, WireIs DEF count
  <2>3. off[(k + 1) + 1] = off[k + 1] + Len(Wire(acc[k + 1]))
    BY <1>3, <2>1
  <2>4. off[k + 1] \in 0 .. d /\ off[(k + 1) + 1] \in 0 .. d /\ n <= off[k + 1]
    BY <1>5, <2>1
  <2>5. o[k] = off[k + 1] - n /\ o[k + 1] = off[(k + 1) + 1] - n
    BY <1>6, <2>1
  <2>6. ASSUME NEW i \in 1 .. Len(Wire(acc[k + 1]))
        PROVE  CellAt(q2, o[k] + (i - 1)) = Wire(acc[k + 1])[i]
    <3>0. PICK a \in 0 .. d, b \in 0 .. d, m \in Nat :
            a = off[k + 1] /\ b = off[(k + 1) + 1] /\ m = Len(Wire(acc[k + 1]))
      BY <2>2, <2>4
    <3>1. o[k] + (i - 1) \in 0 .. d - n - 1 /\ n + (o[k] + (i - 1)) = off[k + 1] + (i - 1)
      <4>1. b = a + m /\ o[k] = a - n /\ n <= a /\ i \in 1 .. m
        BY <2>3, <2>4, <2>5, <2>6, <3>0
      <4>2. (a - n) + (i - 1) \in 0 .. d - n - 1 /\ n + ((a - n) + (i - 1)) = a + (i - 1)
        BY <1>1, <4>1, SMTT(20)
      <4>3. QED
        BY <3>0, <4>1, <4>2
    <3>2. CellAt(q2, o[k] + (i - 1)) = CellAt(q, off[k + 1] + (i - 1))
      BY <1>1, <3>1
    <3>3. QED
      BY <1>3, <2>1, <3>2
  <2>7. QED
    BY <2>1, <2>2, <2>3, <2>4, <2>5, <2>6
<1>10. FramesIn(o, q2, acc2)
  <2>1. Len(acc2) + 1 = count /\ GetData(q2) = d - n
    BY <1>1, <1>2
  <2>2. QED
    BY <1>2, <1>6, <1>7, <1>8, <1>9, <2>1 DEF FramesIn
<1>11. QED
  BY <1>10 DEF acc2

\* A frame put, even one cut short, leaves no start byte without what follows it.
LEMMA ProperPut ==
  ASSUME NEW w \in Nat, NEW q \in Fifos(w), ProperData(q, w), NEW s \in Seq(FrameBytesOf(w)),
         \A i \in 2 .. Len(s) : s[i] \in Follows(w),
         NEW n \in Nat, n >= 2, n = (IF Len(s) < GetSpace(q) THEN Len(s) ELSE GetSpace(q))
  PROVE  ProperData(PutAll(q, s), w)
<1> DEFINE q2 == PutAll(q, s)
<1>1. PICK d \in Nat : d = GetData(q)
  BY RingParts, P25TxAssumption
<1>2. /\ GetData(q2) = d + n
      /\ \A j \in 0 .. d - 1 : CellAt(q2, j) = CellAt(q, j)
      /\ \A i \in 1 .. n : CellAt(q2, d + (i - 1)) = s[i]
  BY <1>1, RingPuts
<1>3. n <= Len(s) /\ Len(s) \in Nat
  BY RingParts, P25TxAssumption
<1>4. \A i \in 1 .. n : s[i] \in FrameBytesOf(w) /\ (i >= 2 => s[i] \in Follows(w))
  BY <1>3
<1>5. \A b \in Follows(w) : b \notin Starts
  BY ByteKinds
<1> HIDE DEF q2
<1>6. ASSUME NEW j \in 0 .. d + n - 1
      PROVE  /\ CellAt(q2, j) \in FrameBytesOf(w)
             /\ CellAt(q2, j) \in Starts => j + 1 < d + n /\ CellAt(q2, j + 1) \in Follows(w)
  <2>1. CASE j < d
    <3>1. j \in 0 .. d - 1 /\ j + 1 \in Nat
      BY <1>1, <2>1
    <3>2. /\ CellAt(q, j) \in FrameBytesOf(w)
          /\ CellAt(q, j) \in Starts => j + 1 < d /\ CellAt(q, j + 1) \in Follows(w)
      BY <1>1, <3>1 DEF ProperData
    <3>3. j + 1 < d => j + 1 \in 0 .. d - 1 /\ j + 1 < d + n
      BY <1>1, <3>1
    <3>4. QED
      BY <1>2, <3>1, <3>2, <3>3
  <2>2. CASE j >= d
    <3>1. PICK i \in 1 .. n : j = d + (i - 1)
      <4>1. (j - d) + 1 \in 1 .. n /\ j = d + (((j - d) + 1) - 1)
        BY <1>1, <2>2
      <4>2. QED
        BY <4>1
    <3>2. CellAt(q2, j) = s[i] /\ s[i] \in FrameBytesOf(w)
      BY <1>2, <1>4, <3>1
    <3>3. ASSUME s[i] \in Starts PROVE j + 1 < d + n /\ CellAt(q2, j + 1) \in Follows(w)
      <4>1. ~(i >= 2)
        BY <1>4, <1>5, <3>3
      <4>2. i = 1 /\ j = d
        BY <1>1, <3>1, <4>1
      <4>3. 2 \in 1 .. n /\ d + (2 - 1) = j + 1 /\ j + 1 < d + n
        BY <1>1, <4>2
      <4>4. CellAt(q2, j + 1) = s[2] /\ s[2] \in Follows(w)
        BY <1>2, <1>4, <4>3
      <4>5. QED
        BY <4>3, <4>4
    <3>4. QED
      BY <3>2, <3>3
  <2>3. QED
    BY <1>1, <2>1, <2>2
<1>7. QED
  BY <1>2, <1>6 DEF ProperData, q2

\* Nor does taking bytes that are there.
LEMMA ProperTake ==
  ASSUME NEW w \in Nat, NEW q \in Fifos(w), ProperData(q, w), NEW n \in Nat, n <= GetData(q)
  PROVE  ProperData(GetAll(q, n), w)
<1> DEFINE q2 == GetAll(q, n)
<1>1. PICK d \in 0 .. FifoLen : d = GetData(q)
  BY RingParts
<1>2. FifoLen \in Nat /\ n <= d
  BY <1>1, P25TxAssumption
<1>3. /\ GetData(q2) = d - n
      /\ \A j \in 0 .. FifoLen - 1 - n : CellAt(q2, j) = CellAt(q, n + j)
  BY <1>1, RingTakes
<1> HIDE DEF q2
<1>4. ASSUME NEW j \in 0 .. d - n - 1
      PROVE  /\ CellAt(q2, j) \in FrameBytesOf(w)
             /\ CellAt(q2, j) \in Starts => j + 1 < d - n /\ CellAt(q2, j + 1) \in Follows(w)
  <2>1. n + j \in 0 .. d - 1 /\ j \in 0 .. FifoLen - 1 - n /\ j + 1 \in Nat /\ (n + j) + 1 = n + (j + 1)
    BY <1>1, <1>2
  <2>2. /\ CellAt(q, n + j) \in FrameBytesOf(w)
        /\ CellAt(q, n + j) \in Starts =>
             (n + j) + 1 < d /\ CellAt(q, (n + j) + 1) \in Follows(w)
    BY <1>1, <2>1 DEF ProperData
  <2>3. (n + j) + 1 < d => j + 1 < d - n /\ j + 1 \in 0 .. FifoLen - 1 - n
    BY <1>1, <1>2, <2>1
  <2>4. QED
    BY <1>3, <2>1, <2>2, <2>3
<1>5. QED
  BY <1>3, <1>4 DEF ProperData, q2

\* What data there is in a ring filled to the brim is all its cells.
LEMMA BrimProper ==
  ASSUME NEW w \in Nat, NEW q \in Fifos(w), ProperData(q, w), GetData(q) = FifoLen
  PROVE  ProperRing(q, w)
<1>1. PICK t \in 0 .. FifoLen - 1 : t = q.m_tail
  BY DEF Fifos
<1>2. FifoLen \in Nat \ {0} /\ q.m_head = t
  <2>1. FifoLen \in Nat \ {0} /\ q.m_head = Place(t + FifoLen)
    BY <1>1, RingParts, P25TxAssumption
  <2>2. Place(t + FifoLen) = t
    BY <1>1, <2>1 DEF Place
  <2>3. QED
    BY <2>1, <2>2
<1>3. \A j \in 0 .. FifoLen - 1 : CellAt(q, j) = q.m_buffer[Place(t + j)]
  BY <1>1 DEF CellAt
<1>4. \A j \in 0 .. FifoLen - 1 :
        /\ CellAt(q, j) \in FrameBytesOf(w)
        /\ CellAt(q, j) \in Starts => j + 1 < FifoLen /\ CellAt(q, j + 1) \in Follows(w)
  BY DEF ProperData
<1>5. ASSUME NEW p \in 0 .. FifoLen - 1
      PROVE  /\ q.m_buffer[p] \in FrameBytesOf(w)
             /\ q.m_buffer[p] \in Starts => q.m_buffer[Place(p + 1)] \in Follows(w)
  <2> DEFINE j == IF p >= t THEN p - t ELSE p + FifoLen - t
  <2>1. j \in 0 .. FifoLen - 1 /\ Place(t + j) = p
    BY <1>1, <1>2 DEF Place
  <2>2. j + 1 < FifoLen => Place(t + (j + 1)) = Place(p + 1) /\ j + 1 \in 0 .. FifoLen - 1
    BY <1>1, <1>2 DEF Place
  <2> HIDE DEF j
  <2>3. QED
    BY <1>3, <1>4, <2>1, <2>2
<1>6. q.m_buffer[Place(q.m_head + (FifoLen - 1))] \notin Starts
  <2>1. FifoLen - 1 \in 0 .. FifoLen - 1 /\ ~((FifoLen - 1) + 1 < FifoLen)
    BY <1>2
  <2>2. CellAt(q, FifoLen - 1) \notin Starts
    BY <1>4, <2>1
  <2>3. QED
    BY <1>2, <1>3, <2>1, <2>2
<1>7. QED
  BY <1>5, <1>6 DEF ProperRing

\* How far a cell is from the one at h, the cell after it, and the one before it.
FromHead(p, h) == Place(p + (FifoLen - h))
After(p) == Place(p + 1)
Before(p) == Place(p + (FifoLen - 1))

LEMMA HeadPlaces ==
  ASSUME NEW h \in 0 .. FifoLen - 1, NEW p \in 0 .. FifoLen - 1, NEW a, NEW r, NEW b,
         a = FromHead(p, h), r = After(p), b = FromHead(r, h)
  PROVE  /\ a \in 0 .. FifoLen - 1 /\ b \in Int /\ r \in 0 .. FifoLen - 1
         /\ ~(a < FifoLen - 1) => b < 1 /\ b >= 0
         /\ a < FifoLen - 1 => b = a + 1
         /\ a = FifoLen - 1 => p = Before(h)
         /\ \A n \in 1 .. FifoLen : p = Before(Place(h + n)) => a = n - 1
         /\ Before(h) \in 0 .. FifoLen - 1
         /\ \A n \in 0 .. FifoLen : Place(h + n) \in 0 .. FifoLen - 1
<1> FifoLen \in Nat \ {0}
  BY P25TxAssumption
<1>1. a = (IF p < h THEN p + (FifoLen - h) ELSE p - h)
  BY DEF Place, FromHead, After, Before
<1>2. r = (IF p + 1 < FifoLen THEN p + 1 ELSE 0)
  BY DEF Place, FromHead, After, Before
<1>3. a \in 0 .. FifoLen - 1 /\ r \in 0 .. FifoLen - 1
  BY <1>1, <1>2
<1>4. b = (IF r < h THEN r + (FifoLen - h) ELSE r - h)
  BY <1>3 DEF Place, FromHead, After, Before
<1>5. (IF r < h THEN r + (FifoLen - h) ELSE r - h) = (IF a = FifoLen - 1 THEN 0 ELSE a + 1)
  <2>1. CASE p + 1 < FifoLen
    BY <1>1, <1>2, <2>1
  <2>2. CASE p + 1 = FifoLen
    BY <1>1, <1>2, <2>2
  <2>3. QED
    BY <2>1, <2>2
<1>6. Before(h) = (IF h = 0 THEN FifoLen - 1 ELSE h - 1)
  BY DEF Place, FromHead, After, Before
<1>7. a = FifoLen - 1 => p = Before(h)
  BY <1>1, <1>6
<1>8. ASSUME NEW n \in 1 .. FifoLen, p = Before(Place(h + n)) PROVE a = n - 1
  <2>0. PICK k : k = Place(h + n)
    OBVIOUS
  <2>1. k \in 0 .. FifoLen - 1 /\ k = (IF h + n < FifoLen THEN h + n ELSE h + n - FifoLen)
    BY <2>0 DEF Place, FromHead, After, Before
  <2>2. p = (IF k = 0 THEN FifoLen - 1 ELSE k - 1)
    BY <1>8, <2>0, <2>1 DEF Place, FromHead, After, Before
  <2>3. CASE h + n < FifoLen
    BY <1>1, <2>1, <2>2, <2>3
  <2>4. CASE h + n = FifoLen
    BY <1>1, <2>1, <2>2, <2>4
  <2>5. CASE h + n > FifoLen
    BY <1>1, <2>1, <2>2, <2>5
  <2>6. QED
    BY <2>3, <2>4, <2>5
<1>9. \A n \in 0 .. FifoLen : Place(h + n) \in 0 .. FifoLen - 1
  BY DEF Place, FromHead, After, Before
<1>10. Before(h) \in 0 .. FifoLen - 1
  BY <1>6
<1>11. QED
  BY <1>3, <1>4, <1>5, <1>7, <1>8, <1>9, <1>10

\* A ring once filled to the brim stays proper, with what is put,
LEMMA RingPut ==
  ASSUME NEW w \in Nat, NEW q \in Fifos(w), ProperRing(q, w), NEW s \in Seq(FrameBytesOf(w)),
         \A i \in 2 .. Len(s) : s[i] \in Follows(w),
         NEW n \in Nat, n >= 2, n = (IF Len(s) < GetSpace(q) THEN Len(s) ELSE GetSpace(q))
  PROVE  ProperRing(PutAll(q, s), w)
<1> DEFINE q2 == PutAll(q, s)
<1>1. PICK h \in 0 .. FifoLen - 1 : h = q.m_head
  BY DEF Fifos
<1>2. FifoLen \in Nat \ {0} /\ n \in 0 .. FifoLen /\ n <= Len(s) /\ Len(s) \in Nat
  BY RingParts, P25TxAssumption
<1>3. /\ q2.m_head = Place(h + n)
      /\ \A p \in 0 .. FifoLen - 1 :
           q2.m_buffer[p] = IF FromHead(p, h) < n
                            THEN s[FromHead(p, h) + 1] ELSE q.m_buffer[p]
  BY <1>1, RingPuts DEF FromHead
<1>4. /\ \A i \in 1 .. n : s[i] \in FrameBytesOf(w) /\ (i >= 2 => s[i] \in Follows(w))
      /\ \A b \in Follows(w) : b \notin Starts
  BY <1>2, ByteKinds
<1>5. /\ \A p \in 0 .. FifoLen - 1 :
           /\ q.m_buffer[p] \in FrameBytesOf(w)
           /\ q.m_buffer[p] \in Starts => q.m_buffer[After(p)] \in Follows(w)
      /\ q.m_buffer[Before(h)] \notin Starts
  BY <1>1 DEF ProperRing, After, Before
<1> HIDE DEF q2
<1>6. ASSUME NEW p \in 0 .. FifoLen - 1
      PROVE  /\ q2.m_buffer[p] \in FrameBytesOf(w)
             /\ q2.m_buffer[p] \in Starts => q2.m_buffer[After(p)] \in Follows(w)
             /\ p = Before(q2.m_head) => q2.m_buffer[p] \notin Starts
  <2>0. PICK a, r : a = FromHead(p, h) /\ r = After(p)
    OBVIOUS
  <2>10. PICK b : b = FromHead(r, h)
    OBVIOUS
  <2>11. b \in Int /\ (~(a < FifoLen - 1) => b < 1 /\ b >= 0)
    BY <1>2, <2>0, <2>10, HeadPlaces
  <2>12. a < FifoLen - 1 => b = a + 1
    BY <1>2, <2>0, <2>10, HeadPlaces
  <2>1. a \in 0 .. FifoLen - 1
    BY <2>0, <2>10, HeadPlaces
  <2>2. r = After(p) /\ r \in 0 .. FifoLen - 1
    BY <2>0, <2>10, HeadPlaces
  <2>3. b = (IF a = FifoLen - 1 THEN 0 ELSE a + 1)
    BY <1>2, <2>1, <2>11, <2>12
  <2>4. a = FifoLen - 1 => p = Before(h)
    BY <2>0, <2>10, HeadPlaces
  <2>5. p = Before(Place(h + n)) => a = n - 1
    <3>1. n \in 1 .. FifoLen
      BY <1>2
    <3>2. \A m \in 1 .. FifoLen : p = Before(Place(h + m)) => a = m - 1
      BY <2>0, <2>10, HeadPlaces
    <3>3. QED
      BY <3>1, <3>2
  <2>6. /\ q2.m_buffer[p] = (IF a < n THEN s[a + 1] ELSE q.m_buffer[p])
        /\ q2.m_buffer[r] = (IF b < n THEN s[b + 1] ELSE q.m_buffer[r])
    BY <1>3, <2>0, <2>2, <2>10
  <2>7. CASE a < n
    <3>1. a + 1 \in 1 .. n /\ q2.m_buffer[p] = s[a + 1]
      BY <1>2, <2>1, <2>6, <2>7
    <3>2. s[a + 1] \in FrameBytesOf(w) /\ (a + 1 >= 2 => s[a + 1] \notin Starts)
      BY <1>4, <3>1
    <3>3. ASSUME s[a + 1] \in Starts PROVE q2.m_buffer[r] \in Follows(w)
      <4>1. a = 0
        BY <2>1, <3>2, <3>3
      <4>2. b = 1 /\ 1 < n /\ 2 \in 1 .. n
        BY <1>2, <2>3, <4>1
      <4>3. q2.m_buffer[r] = s[2]
        BY <2>6, <4>2
      <4>4. QED
        BY <1>4, <4>2, <4>3
    <3>4. p = Before(q2.m_head) => a + 1 >= 2
      <4>1. a = n - 1 => a + 1 >= 2
        BY <1>2, <2>1
      <4>2. QED
        BY <1>3, <2>5, <4>1
    <3>5. QED
      BY <2>2, <3>1, <3>2, <3>3, <3>4
  <2>8. CASE ~(a < n)
    <3>1. q2.m_buffer[p] = q.m_buffer[p]
      BY <2>6, <2>8
    <3>2. ASSUME q.m_buffer[p] \in Starts PROVE q2.m_buffer[r] \in Follows(w)
      <4>1. a # FifoLen - 1
        BY <1>5, <2>4, <3>2
      <4>2. ~(b < n)
        BY <1>2, <2>1, <2>3, <2>8, <4>1
      <4>3. QED
        BY <1>5, <2>2, <2>6, <3>2, <4>2
    <3>3. p # Before(q2.m_head)
      BY <1>2, <1>3, <2>1, <2>5, <2>8
    <3>4. QED
      BY <1>5, <2>2, <3>1, <3>2, <3>3
  <2>9. QED
    BY <2>7, <2>8
<1>7. Before(q2.m_head) \in 0 .. FifoLen - 1
  <2>1. h \in 0 .. FifoLen - 1
    BY <1>1
  <2>2. PICK k \in 0 .. FifoLen - 1 : k = Place(h + n)
    <3>1. 0 \in 0 .. FifoLen - 1
      BY <1>2
    <3>2. \A m \in 0 .. FifoLen : Place(h + m) \in 0 .. FifoLen - 1
      BY <2>1, <3>1, HeadPlaces
    <3>3. QED
      BY <1>2, <3>2
  <2>3. Before(k) \in 0 .. FifoLen - 1
    BY HeadPlaces
  <2>4. QED
    BY <1>3, <2>2, <2>3
<1>8. QED
  BY <1>6, <1>7 DEF ProperRing, q2, After, Before

\* and with what is taken, past the head or not.
LEMMA RingTake ==
  ASSUME NEW w \in Nat, NEW q \in Fifos(w), ProperRing(q, w), NEW n \in Nat
  PROVE  ProperRing(GetAll(q, n), w)
  BY RingTakes DEF ProperRing

\* An accepted frame more changes nothing about the bytes there are.
LEMMA MoreFrames ==
  ASSUME NEW w \in Nat
  PROVE  /\ FrameBytesOf(w) \subseteq FrameBytesOf(w + 1) /\ FramesUpTo(w) \subseteq FramesUpTo(w + 1)
         /\ Fifos(w) \subseteq Fifos(w + 1)
         /\ \A q : ProperData(q, w) => ProperData(q, w + 1)
         /\ \A q : ProperRing(q, w) => ProperRing(q, w + 1)
<1>1. Follows(w) \subseteq Follows(w + 1)
  BY ByteKinds
<1>2. FrameBytesOf(w) \subseteq FrameBytesOf(w + 1)
  BY <1>1 DEF FrameBytesOf
<1>3. FramesUpTo(w) \subseteq FramesUpTo(w + 1)
  BY DEF FramesUpTo
<1>4. Fifos(w) \subseteq Fifos(w + 1)
  <2>1. [0 .. FifoLen - 1 -> {NoByte} \cup FrameBytesOf(w)]
          \subseteq [0 .. FifoLen - 1 -> {NoByte} \cup FrameBytesOf(w + 1)]
    BY <1>2
  <2>2. QED
    BY <2>1 DEF Fifos
<1>5. ASSUME NEW q, ProperData(q, w) PROVE ProperData(q, w + 1)
  BY <1>1, <1>2, <1>5 DEF ProperData
<1>6. ASSUME NEW q, ProperRing(q, w) PROVE ProperRing(q, w + 1)
  BY <1>1, <1>2, <1>6 DEF ProperRing
<1>7. QED
  BY <1>2, <1>3, <1>4, <1>5, <1>6

-----------------------------------------------------------------------------
(* P25: the transmitter *)

\* What there is of the transmitter: bytes of frames accepted, and nothing else.
P25Types ==
  /\ m_modemState \in {"IDLE", "P25", "DMR"} /\ m_tx \in BOOLEAN
  /\ m_poLeft \in Nat /\ m_tailCnt \in 0 .. TxHang
  /\ credit \in 0 .. 255 /\ ops \in 0 .. MaxOps
  /\ written \in Nat /\ last \in 0 .. written
  /\ m_fifo \in Fifos(written)
  /\ accepted \in Seq(FramesUpTo(written)) /\ burst \in Seq(FrameBytesOf(written))
  /\ tight \in BOOLEAN /\ overdrawn \in BOOLEAN /\ lost \in BOOLEAN

\* While all frames had room the ring holds them one behind the other.  After one was
\* cut short at the head nothing is known of the data but that no byte of it can make
\* get() read a length that is none.
P25Frames ==
  /\ ~tight => (\E off : FramesIn(off, m_fifo, accepted)) /\ ProperData(m_fifo, written)
  /\ tight => ProperRing(m_fifo, written)

P25Inv == P25Types /\ P25Frames

\* The bytes n calls of get() return are cells of the ring, and those of the data while
\* there are so many.
LEMMA BytesPeeked ==
  ASSUME NEW w \in Nat, NEW q \in Fifos(w), NEW n \in Nat
  PROVE  /\ DOMAIN PeekAll(q, n) = 1 .. n
         /\ \A i \in 1 .. n : \E p \in 0 .. FifoLen - 1 : PeekAll(q, n)[i] = q.m_buffer[p]
         /\ n <= FifoLen => \A i \in 1 .. n : PeekAll(q, n)[i] = CellAt(q, i - 1)
<1>1. /\ FifoLen \in Nat \ {0} /\ q.m_tail \in 0 .. FifoLen - 1 /\ q.m_length = FifoLen
  BY P25TxAssumption DEF Fifos
<1>2. ASSUME NEW i \in 1 .. n
      PROVE  /\ \E p \in 0 .. FifoLen - 1 : PeekAll(q, n)[i] = q.m_buffer[p]
             /\ n <= FifoLen => PeekAll(q, n)[i] = CellAt(q, i - 1)
  <2>1. PeekAll(q, n)[i] = q.m_buffer[(q.m_tail + i - 1) % FifoLen]
    BY <1>1 DEF PeekAll
  <2>2. PICK k \in Nat : k = q.m_tail + i - 1 /\ k = q.m_tail + (i - 1)
    BY <1>1
  <2>3. k % FifoLen \in 0 .. FifoLen - 1 /\ (k < 2 * FifoLen => k % FifoLen = Place(k))
    BY <2>2, PlaceIs
  <2>4. n <= FifoLen => k < 2 * FifoLen
    BY <1>1, <2>2
  <2>5. QED
    BY <2>1, <2>2, <2>3, <2>4 DEF CellAt
<1>3. QED
  BY <1>2 DEF PeekAll

\* The first byte and the second.
LEMMA FirstBytes ==
  ASSUME NEW w \in Nat, NEW q \in Fifos(w)
  PROVE  /\ Peek(q) = CellAt(q, 0) /\ Peek(Get(q)) = CellAt(q, 1)
         /\ Peek(q) = q.m_buffer[q.m_tail] /\ Peek(Get(q)) = q.m_buffer[Place(q.m_tail + 1)]
         /\ q.m_tail \in 0 .. FifoLen - 1
<1>1. FifoLen \in Nat \ {0} /\ q.m_tail \in 0 .. FifoLen - 1 /\ q.m_length = FifoLen
  BY P25TxAssumption DEF Fifos
<1>2. Place(q.m_tail + 0) = q.m_tail
  BY <1>1 DEF Place
<1>3. (q.m_tail + 1) % FifoLen = Place(q.m_tail + 1)
  <2>1. q.m_tail + 1 \in Nat /\ q.m_tail + 1 < 2 * FifoLen
    BY <1>1
  <2>2. QED
    BY <2>1, PlaceIs
<1>4. Get(q).m_tail = Place(q.m_tail + 1) /\ Get(q).m_buffer = q.m_buffer
  BY <1>1, <1>3 DEF Get, Fifos
<1>5. QED
  BY <1>1, <1>2, <1>4 DEF Peek, CellAt

\* While all frames had room, createData() takes off the first of them, and all of it.
LEMMA FrameTaken ==
  ASSUME NEW w \in Nat, NEW q \in Fifos(w), NEW acc \in Seq(FramesUpTo(w)), NEW off,
         FramesIn(off, q, acc), ProperData(q, w), GetData(q) > 0,
         NEW size, size = SizeAhead(q), NEW body, body = GetAll(q, HeaderTaken(q))
  PROVE  /\ acc # <<>> /\ Tail(acc) \in Seq(FramesUpTo(w)) /\ size \in Nat \ {0}
         /\ PeekAll(body, size) = Payload(Head(acc))
         /\ PeekAll(body, size) \in Seq(FrameBytesOf(w))
         /\ GetAll(body, size) \in Fifos(w)
         /\ \E o : FramesIn(o, GetAll(body, size), Tail(acc))
         /\ ProperData(GetAll(body, size), w)
<1>1. PICK d \in 0 .. FifoLen : d = GetData(q)
  BY RingParts
<1>2. FifoLen \in Nat \ {0} /\ d > 0 /\ d \in Nat
  BY <1>1, P25TxAssumption
<1>3. acc # <<>>
  <2>1. Len(<<>>) = 0 /\ 0 + 1 = 1
    OBVIOUS
  <2>2. acc = <<>> => off[1] = 0 /\ off[1] = d
    BY <1>1, <2>1 DEF FramesIn
  <2>3. QED
    BY <1>2, <2>2
<1>4. /\ acc[1] \in FramesUpTo(w) /\ 1 \in 1 .. Len(acc) /\ 2 \in 1 .. Len(acc) + 1
      /\ Head(acc) = acc[1] /\ Tail(acc) \in Seq(FramesUpTo(w))
  BY <1>3
<1> DEFINE frame == acc[1]
<1>5. PICK h, m : /\ h = Len(Header(frame[2])) /\ m = frame[2]
                  /\ h \in Nat /\ h >= 2 /\ h <= 3 /\ m \in Nat /\ m >= 1
  <2>1. Len(Header(frame[2])) \in {2, 3} /\ frame[2] \in Nat \ {0}
    BY <1>4, WireIs
  <2>2. \A x \in {2, 3} : x \in Nat /\ x >= 2 /\ x <= 3
    OBVIOUS
  <2>3. \A x \in Nat \ {0} : x \in Nat /\ x >= 1
    OBVIOUS
  <2>4. QED
    BY <2>1, <2>2, <2>3, Zenon
<1>17. h \in Nat /\ h >= 2 /\ h <= 3 /\ m \in Nat /\ m >= 1
  BY <1>5
<1>6. /\ Len(Wire(frame)) = h + m
      /\ Wire(frame)[1] = (IF h = 2 THEN <<"short">> ELSE <<"long">>)
      /\ Wire(frame)[2][2] = m
      /\ \A i \in 1 .. m : Wire(frame)[h + i] = <<"data", frame[1], i>>
      /\ \A i \in 1 .. m : Wire(frame)[h + i] \in Follows(w)
  <2>1. /\ Len(Wire(frame)) = h + m
        /\ Wire(frame)[1] = (IF h = 2 THEN <<"short">> ELSE <<"long">>)
        /\ Wire(frame)[2][2] = m
        /\ \A i \in 1 .. m : Wire(frame)[h + i] = <<"data", frame[1], i>>
    BY <1>4, <1>5, WireIs
  <2>2. \A i \in 2 .. h + m : Wire(frame)[i] \in Follows(w)
    BY <1>4, <2>1, WireIs
  <2>3. \A i \in 1 .. m : h + i \in 2 .. h + m
    BY <1>17
  <2>4. QED
    BY <2>1, <2>2, <2>3
<1>7. /\ h + m <= d
      /\ \A i \in 1 .. h + m : CellAt(q, i - 1) = Wire(frame)[i]
  <2>1. /\ off[1] = 0 /\ off[2] \in 0 .. d
        /\ off[1 + 1] = off[1] + Len(Wire(frame))
        /\ \A i \in 1 .. Len(Wire(frame)) : CellAt(q, off[1] + (i - 1)) = Wire(frame)[i]
    BY <1>1, <1>4 DEF FramesIn
  <2>2. 1 + 1 = 2 /\ \A i \in 1 .. h + m : 0 + (i - 1) = i - 1
    BY <1>17
  <2>3. off[2] = 0 + (h + m)
    BY <1>6, <2>1, <2>2
  <2>4. 0 + (h + m) = h + m
    BY <1>17
  <2>5. h + m \in 0 .. d
    BY <2>1, <2>3, <2>4
  <2>6. \A i \in 1 .. h + m : CellAt(q, i - 1) = Wire(frame)[i]
    BY <1>6, <2>1, <2>2
  <2>7. QED
    BY <1>2, <2>5, <2>6
<1> HIDE DEF frame
<1>8. HeaderTaken(q) = h /\ size = m
  <2>1. 1 \in 1 .. h + m /\ 2 \in 1 .. h + m /\ 1 - 1 = 0 /\ 2 - 1 = 1
    BY <1>17
  <2>2. CellAt(q, 0) = Wire(frame)[1] /\ CellAt(q, 1) = Wire(frame)[2]
    BY <1>7, <2>1
  <2>3. Peek(q) = (IF h = 2 THEN <<"short">> ELSE <<"long">>) /\ Peek(Get(q))[2] = m
    BY <1>6, <2>2, FirstBytes
  <2>4. <<"short">> # <<"long">>
    OBVIOUS
  <2>5. HeaderTaken(q) = h
    BY <1>17, <2>3, <2>4 DEF HeaderTaken
  <2>6. HeaderTaken(q) # 1
    BY <1>17, <2>5
  <2>7. QED
    BY <2>3, <2>5, <2>6 DEF SizeAhead
<1>9. /\ body \in Fifos(w) /\ GetData(body) = d - h /\ body = GetAll(q, h)
      /\ \A j \in 0 .. FifoLen - 1 - h : CellAt(body, j) = CellAt(q, h + j)
  <2>1. h \in Nat /\ h <= d /\ body = GetAll(q, h)
    BY <1>2, <1>17, <1>7, <1>8
  <2>2. QED
    BY <1>1, <2>1, RingTakes
<1>10. /\ GetAll(body, m) \in Fifos(w) /\ GetData(GetAll(body, m)) = d - h - m
       /\ \A j \in 0 .. FifoLen - 1 - m : CellAt(GetAll(body, m), j) = CellAt(body, m + j)
  <2>1. m \in Nat /\ m <= GetData(body)
    BY <1>2, <1>17, <1>7, <1>9
  <2>2. GetData(GetAll(body, m)) = GetData(body) - m
    BY <1>9, <2>1, RingTakes
  <2>3. /\ GetAll(body, m) \in Fifos(w)
        /\ \A j \in 0 .. FifoLen - 1 - m : CellAt(GetAll(body, m), j) = CellAt(body, m + j)
    BY <1>9, <2>1, RingTakes
  <2>4. QED
    BY <1>9, <2>2, <2>3
<1>11. PeekAll(body, m) = [i \in 1 .. m |-> <<"data", frame[1], i>>]
  <2>1. m \in Nat /\ m <= FifoLen
    BY <1>1, <1>2, <1>17, <1>7
  <2>2. ASSUME NEW i \in 1 .. m PROVE PeekAll(body, m)[i] = <<"data", frame[1], i>>
    <3>1. PeekAll(body, m)[i] = CellAt(body, i - 1)
      BY <1>9, <2>1, BytesPeeked
    <3>2. /\ i - 1 \in 0 .. FifoLen - 1 - h /\ h + (i - 1) = (h + i) - 1
          /\ h + i \in 1 .. h + m
      BY <1>1, <1>2, <1>17, <1>7
    <3>3. CellAt(body, i - 1) = Wire(frame)[h + i]
      BY <1>7, <1>9, <3>2
    <3>4. QED
      BY <1>6, <3>1, <3>3
  <2>3. PeekAll(body, m) = [i \in 1 .. m |-> body.m_buffer[(body.m_tail + i - 1) % body.m_length]]
    BY DEF PeekAll
  <2>4. QED
    BY <2>2, <2>3
<1>12. Payload(Head(acc)) = [i \in 1 .. m |-> <<"data", frame[1], i>>]
  BY <1>4, <1>5 DEF Payload, frame
<1>13. PeekAll(body, m) \in Seq(FrameBytesOf(w))
  <2>1. \A i \in 1 .. m : <<"data", frame[1], i>> \in FrameBytesOf(w)
    BY <1>6 DEF FrameBytesOf
  <2>2. [i \in 1 .. m |-> <<"data", frame[1], i>>] \in [1 .. m -> FrameBytesOf(w)] /\ m \in Nat
    BY <1>17, <2>1
  <2>3. QED
    BY <1>11, <2>2
<1>14. \E o : FramesIn(o, GetAll(body, m), Tail(acc))
  <2>1. PICK n \in Nat : n = h + m
    BY <1>17
  <2>2. n = Len(Wire(acc[1])) /\ GetData(GetAll(body, m)) = GetData(q) - n
    <3>1. n = Len(Wire(acc[1]))
      BY <1>6, <2>1 DEF frame
    <3>2. d - h - m = d - n
      BY <1>2, <1>17, <2>1
    <3>3. QED
      BY <1>1, <1>10, <3>1, <3>2
  <2>3. ASSUME NEW j \in 0 .. GetData(q) - n - 1
        PROVE  CellAt(GetAll(body, m), j) = CellAt(q, n + j)
    <3>1. /\ j \in 0 .. FifoLen - 1 - m /\ m + j \in 0 .. FifoLen - 1 - h
          /\ h + (m + j) = n + j
      <4>1. FifoLen \in Nat /\ d <= FifoLen /\ j \in 0 .. d - n - 1
        BY <1>1, <1>2
      <4>2. QED
        BY <1>2, <1>17, <2>1, <4>1
    <3>2. QED
      BY <1>9, <1>10, <3>1
  <2>4. QED
    BY <1>3, <2>1, <2>2, <2>3, FramesTaken
<1>15. ProperData(GetAll(body, m), w)
  <2>1. h \in Nat /\ h <= GetData(q) /\ m \in Nat /\ m <= GetData(body)
    BY <1>1, <1>2, <1>17, <1>7, <1>9
  <2>2. ProperData(body, w)
    BY <1>9, <2>1, ProperTake
  <2>3. QED
    BY <1>9, <2>1, <2>2, ProperTake
<1>16. QED
  BY <1>3, <1>4, <1>8, <1>17, <1>10, <1>11, <1>12, <1>13, <1>14, <1>15

\* Once one was cut short it takes bytes of frames, as many as one of them says.
LEMMA BytesTaken ==
  ASSUME NEW w \in Nat, NEW q \in Fifos(w), ProperRing(q, w),
         NEW size, size = SizeAhead(q), NEW body, body = GetAll(q, HeaderTaken(q))
  PROVE  /\ size \in Nat /\ PeekAll(body, size) \in Seq(FrameBytesOf(w))
         /\ GetAll(body, size) \in Fifos(w) /\ ProperRing(GetAll(body, size), w)
<1>1. HeaderTaken(q) \in {1, 2, 3} /\ (HeaderTaken(q) # 1 => Peek(q) \in Starts)
  <2>1. CASE Peek(q) = <<"short">>
    BY <2>1 DEF HeaderTaken, Starts
  <2>2. CASE Peek(q) = <<"long">>
    <3>1. Peek(q) # <<"short">>
      BY <2>2
    <3>2. QED
      BY <2>2, <3>1 DEF HeaderTaken, Starts
  <2>3. CASE Peek(q) # <<"short">> /\ Peek(q) # <<"long">>
    BY <2>3 DEF HeaderTaken
  <2>4. QED
    BY <2>1, <2>2, <2>3
<1>2. size \in Nat
  <2>1. CASE HeaderTaken(q) = 1
    BY <2>1 DEF SizeAhead
  <2>2. CASE HeaderTaken(q) # 1
    <3>1. Peek(Get(q)) \in Follows(w)
      BY <1>1, <2>2, FirstBytes DEF ProperRing
    <3>2. Peek(Get(q))[2] \in Nat
      BY <3>1, ByteKinds
    <3>3. QED
      BY <2>2, <3>2 DEF SizeAhead
  <2>3. QED
    BY <2>1, <2>2
<1>3. body \in Fifos(w) /\ ProperRing(body, w)
  BY <1>1, RingTakes, RingTake
<1>4. GetAll(body, size) \in Fifos(w) /\ ProperRing(GetAll(body, size), w)
  BY <1>2, <1>3, RingTakes, RingTake
<1>5. PeekAll(body, size) \in Seq(FrameBytesOf(w))
  <2>1. ASSUME NEW i \in 1 .. size PROVE PeekAll(body, size)[i] \in FrameBytesOf(w)
    <3>1. PICK p \in 0 .. FifoLen - 1 : PeekAll(body, size)[i] = body.m_buffer[p]
      BY <1>2, <1>3, BytesPeeked
    <3>2. body.m_buffer[p] \in FrameBytesOf(w)
      BY <1>3 DEF ProperRing
    <3>3. QED
      BY <3>1, <3>2
  <2>2. PeekAll(body, size) \in [1 .. size -> FrameBytesOf(w)]
    BY <2>1 DEF PeekAll
  <2>3. QED
    BY <1>2, <2>2
<1>6. QED
  BY <1>2, <1>4, <1>5

\* What is not the ring or the air of it.
LEMMA P25Steps ==
  ASSUME P25Inv,
         GetStatus \/ (\E mode \in {"IDLE", "P25", "DMR"} : SetMode(mode))
           \/ TailSilence \/ BeginPreamble \/ SendBytes \/ OtherEngine \/ TxOff
  PROVE  P25Inv' /\ FrameWhole
<1> USE P25TxAssumption DEF P25Types
<1>1. P25Types
  BY DEF P25Inv
<1>2. UNCHANGED <<queueVars, burst, last>>
  BY DEF GetStatus, SetMode, TailSilence, BeginPreamble, SendBytes, OtherEngine, TxOff, airVars
<1>3. CASE GetStatus
  <2>1. GetSpace(m_fifo) \in Nat
    BY <1>1, RingParts
  <2>2. credit' \in 0 .. 255
    BY <1>3, <2>1, CreditFits DEF GetStatus, FrameSpace
  <2>3. UNCHANGED <<m_modemState, m_tx, m_poLeft, m_tailCnt, ops, overdrawn>>
    BY <1>3 DEF GetStatus, airVars
  <2>4. P25Types'
    BY <1>1, <1>2, <2>2, <2>3 DEF queueVars
  <2>5. QED
    BY <2>3, <2>4, <1>1, <1>2 DEF P25Inv, P25Frames, queueVars, FrameWhole, FrameBegins
<1>4. ASSUME NEW mode \in {"IDLE", "P25", "DMR"}, SetMode(mode) PROVE P25Inv' /\ FrameWhole
  <2>1. P25Types'
    BY <1>1, <1>2, <1>4 DEF SetMode, Command, airVars, queueVars
  <2>2. m_poLeft' = m_poLeft
    BY <1>4 DEF SetMode, airVars
  <2>3. QED
    BY <1>1, <1>2, <2>1, <2>2 DEF P25Inv, P25Frames, queueVars, FrameWhole, FrameBegins
<1>5. CASE TailSilence
  <2>1. P25Types'
    BY <1>1, <1>2, <1>5 DEF TailSilence, hostVars, queueVars
  <2>2. m_poLeft' = m_poLeft
    BY <1>5 DEF TailSilence
  <2>3. QED
    BY <1>1, <1>2, <2>1, <2>2 DEF P25Inv, P25Frames, queueVars, FrameWhole, FrameBegins
<1>6. CASE BeginPreamble
  <2>1. P25Types'
    BY <1>1, <1>2, <1>6 DEF BeginPreamble, hostVars, queueVars
  <2>2. ~m_tx
    BY <1>6 DEF BeginPreamble
  <2>3. QED
    BY <1>1, <1>2, <2>1, <2>2 DEF P25Inv, P25Frames, queueVars, FrameWhole, FrameBegins
<1>7. CASE SendBytes
  <2>1. m_poLeft # 0
    BY <1>1, <1>7 DEF SendBytes
  <2>2. P25Types'
    BY <1>1, <1>2, <1>7 DEF SendBytes, hostVars, queueVars
  <2>3. QED
    BY <1>1, <1>2, <2>1, <2>2 DEF P25Inv, P25Frames, queueVars, FrameWhole, FrameBegins
<1>8. CASE OtherEngine \/ TxOff
  <2>1. m_tx' \in BOOLEAN /\ UNCHANGED <<m_modemState, m_poLeft, m_tailCnt, hostVars>>
    BY <1>8 DEF OtherEngine, TxOff, airVars
  <2>2. P25Types'
    BY <1>1, <1>2, <2>1 DEF hostVars, queueVars
  <2>3. QED
    BY <1>1, <1>2, <2>1, <2>2 DEF P25Inv, P25Frames, queueVars, FrameWhole, FrameBegins
<1>9. QED
  BY <1>3, <1>4, <1>5, <1>6, <1>7, <1>8

\* The queue emptied, whole or because a frame did not fit.
LEMMA P25Emptied ==
  ASSUME P25Inv, m_fifo' = Reset(m_fifo), accepted' = <<>>, tight' = FALSE,
         UNCHANGED <<m_modemState, m_tx, airVars, written>>,
         Command, credit' \in 0 .. 255, lost' \in BOOLEAN, overdrawn' \in BOOLEAN
  PROVE  P25Inv' /\ FrameWhole
<1>1. P25Types
  BY DEF P25Inv
<1>2. /\ Reset(m_fifo) \in Fifos(written)
      /\ \E off : FramesIn(off, Reset(m_fifo), <<>>)
      /\ ProperData(Reset(m_fifo), written)
  BY <1>1, RingEmptied DEF P25Types
<1>3. m_poLeft' = m_poLeft
  BY DEF airVars
<1>4. P25Types'
  <2>1. <<>> \in Seq(FramesUpTo(written))
    OBVIOUS
  <2>2. /\ accepted' \in Seq(FramesUpTo(written')) /\ burst' \in Seq(FrameBytesOf(written'))
        /\ m_fifo' \in Fifos(written')
    BY <1>1, <1>2, <2>1 DEF P25Types, airVars
  <2>3. m_tx' \in BOOLEAN /\ tight' \in BOOLEAN
    BY <1>1 DEF P25Types
  <2>4. /\ m_modemState' \in {"IDLE", "P25", "DMR"} /\ m_poLeft' \in Nat /\ m_tailCnt' \in 0 .. TxHang
        /\ written' \in Nat /\ last' \in 0 .. written'
    BY <1>1 DEF P25Types, airVars
  <2>5. ops' \in 0 .. MaxOps
    BY <1>1, P25TxAssumption DEF P25Types, Command
  <2>6. QED
    BY <2>2, <2>3, <2>4, <2>5 DEF P25Types
<1>5. P25Frames'
  BY <1>2 DEF P25Frames
<1>6. QED
  BY <1>1, <1>3, <1>4, <1>5 DEF P25Inv, FrameWhole, FrameBegins, P25Types

\* A frame accepted, and put whole or cut short.
LEMMA P25Queued ==
  ASSUME P25Inv, NEW size \in FrameSizes, NEW long \in BOOLEAN, DataQueued(size, long)
  PROVE  P25Inv' /\ FrameWhole
<1>1. P25Types
  BY DEF P25Inv
<1> DEFINE w == written'
           frame == <<w, size>>
           s == Wire(frame)
<1>2. /\ written \in Nat /\ w = written + 1 /\ w \in Nat /\ w >= 1
      /\ size \in Nat \ {0} /\ frame[1] = w /\ frame[2] = size
  BY <1>1, P25TxAssumption DEF P25Types, DataQueued
<1>3. /\ frame \in FramesUpTo(w) /\ m_fifo \in Fifos(w) /\ accepted \in Seq(FramesUpTo(w))
      /\ burst \in Seq(FrameBytesOf(w))
  <2>1. frame \in FramesUpTo(w)
    BY <1>2 DEF FramesUpTo
  <2>2. /\ FrameBytesOf(written) \subseteq FrameBytesOf(w) /\ FramesUpTo(written) \subseteq FramesUpTo(w)
        /\ Fifos(written) \subseteq Fifos(w)
    BY <1>2, MoreFrames
  <2>3. QED
    BY <1>1, <2>1, <2>2 DEF P25Types
<1>4. /\ ~tight => (\E off : FramesIn(off, m_fifo, accepted)) /\ ProperData(m_fifo, w)
      /\ tight => ProperRing(m_fifo, w)
  BY <1>2, MoreFrames DEF P25Inv, P25Frames
<1>5. /\ s \in Seq(FrameBytesOf(w)) /\ Len(s) = Len(Header(size)) + size
      /\ Len(Header(size)) \in {2, 3}
      /\ \A i \in 2 .. Len(s) : s[i] \in Follows(w)
  BY <1>2, <1>3, WireIs
<1>6. /\ m_fifo' = PutAll(m_fifo, s) /\ accepted' = Append(accepted, frame)
      /\ tight' = (tight \/ GetSpace(m_fifo) < Len(s))
      /\ GetSpace(m_fifo) >= size + 1
  <2>1. s = Header(size) \o Payload(frame)
    BY <1>2 DEF Wire
  <2>2. QED
    BY <1>5, <2>1 DEF DataQueued
<1> HIDE DEF s, frame, w
<1>7. GetSpace(m_fifo) \in 0 .. FifoLen /\ GetData(m_fifo) \in 0 .. FifoLen
      /\ GetSpace(m_fifo) + GetData(m_fifo) = FifoLen
  BY <1>2, <1>3, RingParts
<1>8. FifoLen \in Nat
  BY P25TxAssumption
<1>9. Len(s) \in Nat /\ Len(s) >= 3
  <2>1. \A h \in {2, 3} : h \in Nat /\ h >= 2
    OBVIOUS
  <2>2. PICK h : h = Len(Header(size)) /\ h \in Nat /\ h >= 2
    BY <1>5, <2>1
  <2>3. QED
    BY <1>2, <1>5, <2>2
<1>10. PICK n : /\ n = (IF Len(s) < GetSpace(m_fifo) THEN Len(s) ELSE GetSpace(m_fifo))
                /\ n \in Nat /\ n >= 2
  BY <1>2, <1>6, <1>7, <1>8, <1>9
<1>11. /\ m_fifo' \in Fifos(w) /\ GetData(m_fifo') = GetData(m_fifo) + n
  BY <1>2, <1>3, <1>5, <1>6, <1>10, RingPuts
<1>12. P25Types'
  <2>1. accepted' \in Seq(FramesUpTo(w))
    BY <1>3, <1>6
  <2>2. last \in 0 .. w
    BY <1>1, <1>2 DEF P25Types
  <2>3. tight' \in BOOLEAN
    BY <1>6
  <2>4. m_modemState' \in {"IDLE", "P25", "DMR"}
    BY <1>1 DEF P25Types, DataQueued
  <2>5. credit' \in 0 .. 255 /\ overdrawn' \in BOOLEAN
    BY <1>1 DEF P25Types, DataQueued, Spend
  <2>6. ops' \in 0 .. MaxOps
    BY <1>1, P25TxAssumption DEF P25Types, DataQueued, Command
  <2>7. UNCHANGED <<m_tx, m_poLeft, m_tailCnt, burst, last, lost>>
    BY DEF DataQueued, airVars
  <2>8. QED
    BY <1>1, <1>2, <1>3, <1>11, <2>1, <2>2, <2>3, <2>4, <2>5, <2>6, <2>7 DEF P25Types, w
<1>13. ~tight => ProperData(m_fifo', w)
  BY <1>2, <1>3, <1>4, <1>5, <1>6, <1>10, ProperPut
<1>14. tight => ProperRing(m_fifo', w)
  BY <1>2, <1>3, <1>4, <1>5, <1>6, <1>10, RingPut
<1>15. ~tight' => (\E off : FramesIn(off, m_fifo', accepted')) /\ ProperData(m_fifo', w)
  <2>1. SUFFICES ASSUME ~tight' PROVE (\E off : FramesIn(off, m_fifo', accepted')) /\ ProperData(m_fifo', w)
    OBVIOUS
  <2>2. ~tight /\ ~(GetSpace(m_fifo) < Len(s))
    BY <1>6, <2>1
  <2>3. Len(Wire(frame)) <= GetSpace(m_fifo)
    BY <1>7, <1>8, <1>9, <2>2 DEF s
  <2>4. PICK off : FramesIn(off, m_fifo, accepted)
    BY <1>4, <2>2
  <2>5. \E o : FramesIn(o, PutAll(m_fifo, Wire(frame)), Append(accepted, frame))
    BY <1>2, <1>3, <2>3, <2>4, FramesPut
  <2>6. QED
    BY <1>6, <1>13, <2>2, <2>5 DEF s
<1>16. tight' => ProperRing(m_fifo', w)
  <2>1. CASE tight
    BY <1>14, <2>1
  <2>2. CASE ~tight /\ tight'
    <3>1. GetSpace(m_fifo) < Len(s)
      BY <1>6, <2>2
    <3>2. n = GetSpace(m_fifo)
      BY <1>7, <1>8, <1>9, <1>10, <3>1
    <3>3. GetData(m_fifo') = FifoLen
      BY <1>7, <1>8, <1>11, <3>2
    <3>4. QED
      BY <1>2, <1>11, <1>13, <2>2, <3>3, BrimProper
  <2>3. QED
    BY <2>1, <2>2
<1>17. P25Frames'
  BY <1>15, <1>16 DEF P25Frames, w
<1>18. m_poLeft' = m_poLeft
  BY DEF DataQueued, airVars
<1>19. QED
  BY <1>1, <1>12, <1>17, <1>18 DEF P25Inv, FrameWhole, FrameBegins, P25Types

\* A frame begun: while all frames had room, it is the one that waited longest.
LEMMA P25Begun ==
  ASSUME P25Inv, BeginFrame
  PROVE  P25Inv' /\ FrameWhole
<1>1. P25Types
  BY DEF P25Inv
<1>2. PICK w, size, body : w = written /\ size = SizeAhead(m_fifo) /\ body = GetAll(m_fifo, HeaderTaken(m_fifo))
  OBVIOUS
<1>3. /\ m_fifo' = GetAll(body, size) /\ m_poLeft' = size /\ burst' = PeekAll(body, size)
      /\ last' = (IF size > 0 /\ burst'[1][1] = "data" THEN burst'[1][2] ELSE last)
      /\ accepted' = (IF accepted # <<>> /\ size > 0 THEN Tail(accepted) ELSE accepted)
      /\ UNCHANGED <<m_modemState, m_tx, m_tailCnt, written, tight, lost, credit, ops, overdrawn>>
  BY <1>2 DEF BeginFrame, hostVars
<1>4. /\ w \in Nat /\ m_fifo \in Fifos(w) /\ accepted \in Seq(FramesUpTo(w))
      /\ last \in 0 .. w
  BY <1>1, <1>2 DEF P25Types
<1>5. ASSUME ~tight
      PROVE  /\ accepted # <<>> /\ Tail(accepted) \in Seq(FramesUpTo(w)) /\ size \in Nat \ {0}
             /\ PeekAll(body, size) = Payload(Head(accepted))
             /\ PeekAll(body, size) \in Seq(FrameBytesOf(w))
             /\ GetAll(body, size) \in Fifos(w)
             /\ \E o : FramesIn(o, GetAll(body, size), Tail(accepted))
             /\ ProperData(GetAll(body, size), w)
  <2>1. PICK off : FramesIn(off, m_fifo, accepted)
    BY <1>5 DEF P25Inv, P25Frames
  <2>2. ProperData(m_fifo, w) /\ GetData(m_fifo) > 0
    BY <1>2, <1>5 DEF P25Inv, P25Frames, BeginFrame
  <2>3. QED
    BY <1>2, <1>4, <2>1, <2>2, FrameTaken
<1>6. ASSUME tight
      PROVE  /\ size \in Nat /\ PeekAll(body, size) \in Seq(FrameBytesOf(w))
             /\ GetAll(body, size) \in Fifos(w) /\ ProperRing(GetAll(body, size), w)
  <2>1. ProperRing(m_fifo, w)
    BY <1>2, <1>6 DEF P25Inv, P25Frames
  <2>2. QED
    BY <1>2, <1>4, <2>1, BytesTaken
<1>7. /\ size \in Nat /\ burst' \in Seq(FrameBytesOf(w)) /\ m_fifo' \in Fifos(w)
  BY <1>1, <1>3, <1>5, <1>6 DEF P25Types
<1>8. last' \in 0 .. w
  <2>1. CASE size > 0 /\ burst'[1][1] = "data"
    <3>1. DOMAIN burst' = 1 .. size
      BY <1>3 DEF PeekAll
    <3>2. burst'[1] \in FrameBytesOf(w)
      <4>1. 1 \in 1 .. size
        BY <1>7, <2>1
      <4>2. QED
        BY <1>7, <3>1, <4>1
    <3>3. burst'[1] \notin Starts
      <4>1. \A b \in Starts : b[1] # "data"
        BY DEF Starts
      <4>2. QED
        BY <2>1, <4>1
    <3>4. burst'[1] \in Follows(w)
      BY <3>2, <3>3 DEF FrameBytesOf
    <3>5. burst'[1][2] \in 1 .. w
      BY <1>4, <2>1, <3>4, ByteKinds
    <3>6. QED
      BY <1>3, <1>4, <2>1, <3>5
  <2>2. CASE ~(size > 0 /\ burst'[1][1] = "data")
    BY <1>3, <1>4, <2>2
  <2>3. QED
    BY <2>1, <2>2
<1>9. accepted' \in Seq(FramesUpTo(w)) /\ (~tight => accepted' = Tail(accepted))
  <2>1. CASE accepted # <<>> /\ size > 0
    BY <1>3, <1>4, <2>1
  <2>2. CASE ~(accepted # <<>> /\ size > 0)
    <3>1. tight
      BY <1>1, <1>5, <2>2 DEF P25Types
    <3>2. QED
      BY <1>3, <1>4, <2>2, <3>1
  <2>3. QED
    BY <2>1, <2>2
<1>10. P25Types'
  BY <1>1, <1>2, <1>3, <1>7, <1>8, <1>9 DEF P25Types
<1>11. P25Frames'
  BY <1>2, <1>3, <1>5, <1>6, <1>9 DEF P25Frames
<1>12. FrameWhole
  BY <1>3, <1>5 DEF FrameWhole
<1>13. QED
  BY <1>10, <1>11, <1>12 DEF P25Inv

\* The transmitter keeps its invariant, and sends the frames accepted.
LEMMA P25Keeps ==
  ASSUME P25Inv, Next
  PROVE  P25Inv' /\ FrameWhole
<1>1. ASSUME NEW size \in FrameSizes, NEW long \in BOOLEAN, DataRefused(size, long)
      PROVE  P25Inv' /\ FrameWhole
  <2>1. /\ m_fifo' = Reset(m_fifo) /\ accepted' = <<>> /\ tight' = FALSE
        /\ UNCHANGED <<m_modemState, m_tx, airVars, written>> /\ Command
        /\ lost' = (lost \/ accepted # <<>>)
    BY <1>1 DEF DataRefused
  <2>2. credit' \in 0 .. 255 /\ overdrawn' \in BOOLEAN
    BY <1>1 DEF DataRefused, Spend, P25Inv, P25Types
  <2>3. QED
    BY <2>1, <2>2, P25Emptied
<1>2. CASE Clear
  <2>1. /\ m_fifo' = Reset(m_fifo) /\ accepted' = <<>> /\ tight' = FALSE
        /\ UNCHANGED <<m_modemState, m_tx, airVars, written>> /\ Command
        /\ UNCHANGED <<lost, credit, overdrawn>>
    BY <1>2 DEF Clear
  <2>2. credit' \in 0 .. 255 /\ overdrawn' \in BOOLEAN /\ lost' \in BOOLEAN
    BY <2>1 DEF P25Inv, P25Types
  <2>3. QED
    BY <2>1, <2>2, P25Emptied
<1>3. QED
  BY <1>1, <1>2, P25Steps, P25Queued, P25Begun DEF Next, HostStep, Process

LEMMA P25Starts == Init => P25Inv
<1> SUFFICES ASSUME Init PROVE P25Inv
  OBVIOUS
<1>1. /\ m_modemState = "IDLE" /\ m_tx = FALSE /\ m_poLeft = 0 /\ m_tailCnt = 0
      /\ credit = 0 /\ ops = 0 /\ written = 0 /\ accepted = <<>> /\ burst = <<>> /\ last = 0
      /\ tight = FALSE /\ overdrawn = FALSE /\ lost = FALSE /\ m_fifo = NewRing(FifoLen)
  BY DEF Init
<1>2. FifoLen \in Nat \ {0} /\ TxHang \in Nat /\ MaxOps \in Nat /\ 0 \in 0 .. FifoLen - 1
  BY P25TxAssumption
<1>3. m_fifo \in Fifos(0)
  <2>1. m_fifo \in [m_length : {FifoLen}, m_buffer : [0 .. FifoLen - 1 -> {NoByte} \cup FrameBytesOf(0)],
                    m_head : 0 .. FifoLen - 1, m_tail : 0 .. FifoLen - 1, m_full : BOOLEAN]
    BY <1>1, <1>2 DEF NewRing
  <2>2. m_fifo.m_full = FALSE
    BY <1>1 DEF NewRing
  <2>3. QED
    BY <2>1, <2>2 DEF Fifos
<1>4. GetData(m_fifo) = 0
  BY <1>1 DEF NewRing, GetData
<1>5. FramesIn([k \in 1 .. 1 |-> 0], m_fifo, <<>>) /\ ProperData(m_fifo, 0)
  BY <1>4 DEF FramesIn, ProperData
<1>6. P25Types
  <2>1. <<>> \in Seq(FramesUpTo(0)) /\ <<>> \in Seq(FrameBytesOf(0))
    OBVIOUS
  <2>2. accepted \in Seq(FramesUpTo(written)) /\ burst \in Seq(FrameBytesOf(written))
        /\ m_fifo \in Fifos(written)
    BY <1>1, <1>3, <2>1
  <2>3. m_tx \in BOOLEAN /\ tight \in BOOLEAN /\ overdrawn \in BOOLEAN /\ lost \in BOOLEAN
    BY <1>1
  <2>4. /\ m_modemState \in {"IDLE", "P25", "DMR"} /\ m_poLeft \in Nat /\ m_tailCnt \in 0 .. TxHang
        /\ credit \in 0 .. 255 /\ ops \in 0 .. MaxOps /\ written \in Nat /\ last \in 0 .. written
    BY <1>1, <1>2
  <2>5. QED
    BY <2>2, <2>3, <2>4 DEF P25Types
<1>7. P25Frames
  BY <1>1, <1>5 DEF P25Frames
<1>8. QED
  BY <1>6, <1>7 DEF P25Inv

-----------------------------------------------------------------------------
(* The station identifier *)

CwInv == W!TypeOK /\ m_poPtr \in Nat

LEMMA CwStarts == W!Init => CwInv
<1>1. /\ DotLength \in Nat \ {0} /\ MaxCwOps \in Nat /\ BufferBits \in Nat
  BY ConstantsFit DEF W!CwIdTxAssumption
<1>2. QED
  BY <1>1 DEF W!Init, CwInv, W!TypeOK

LEMMA CwKeeps ==
  ASSUME CwInv, W!Next
  PROVE  CwInv'
<1>1. /\ Messages \subseteq Nat /\ Lead \in Nat \ {0} /\ Trail \in Nat /\ MaxBits \in Nat
      /\ BufferBits \in Nat /\ MaxBits + Trail <= BufferBits /\ DotLength \in Nat \ {0}
      /\ MaxCwOps \in Nat
  BY ConstantsFit DEF W!CwIdTxAssumption
<1>2. /\ m_modemState \in {"IDLE", "voice"} /\ m_n \in 0 .. DotLength - 1 /\ ops \in 0 .. MaxCwOps
      /\ m_poLeft \in 0 .. BufferBits /\ m_poPtr \in Nat
      /\ m_poLeft > 0 => m_poPtr < m_poLeft
      /\ m_poLeft = 0 => m_poPtr = 0 /\ m_n = 0
  BY DEF CwInv, W!TypeOK
<1>3. ASSUME NEW bits \in Messages, W!Write(bits) PROVE CwInv'
  <2>1. W!Length(bits) \in 0 .. BufferBits
    BY <1>1 DEF W!Length
  <2>2. QED
    BY <1>1, <1>2, <1>3, <2>1 DEF W!Write, W!Command, CwInv, W!TypeOK
<1>4. CASE W!Leave
  BY <1>1, <1>2, <1>4 DEF W!Leave, W!Command, CwInv, W!TypeOK
<1>5. CASE W!Return
  BY <1>1, <1>2, <1>5 DEF W!Return, W!Command, CwInv, W!TypeOK
<1>6. CASE W!Cycle
  <2>1. PICK bit \in Nat : /\ bit = (IF m_n + 1 >= DotLength THEN m_poPtr + 1 ELSE m_poPtr)
                           /\ bit = m_poPtr \/ m_n + 1 >= DotLength
    BY <1>2
  <2>2. /\ m_n' = (IF m_n + 1 >= DotLength THEN 0 ELSE m_n + 1)
        /\ m_poPtr' = (IF bit >= m_poLeft THEN 0 ELSE bit)
        /\ m_poLeft' = (IF bit >= m_poLeft THEN 0 ELSE m_poLeft)
        /\ m_poLeft > 0 /\ m_modemState' = m_modemState /\ ops' = ops
    BY <1>6, <2>1 DEF W!Cycle, W!Ends
  <2>3. CASE bit >= m_poLeft
    BY <1>1, <1>2, <2>1, <2>2, <2>3 DEF CwInv, W!TypeOK
  <2>4. CASE ~(bit >= m_poLeft)
    BY <1>1, <1>2, <2>1, <2>2, <2>4 DEF CwInv, W!TypeOK
  <2>5. QED
    BY <2>3, <2>4
<1>7. QED
  BY <1>3, <1>4, <1>5, <1>6 DEF W!Next

-----------------------------------------------------------------------------
(* Whatever transmitter a behaviour is of *)

PartsInv ==
  /\ part \in {"P25", "NXDN", "DMO", "calibration", "CW", "filter"}
  /\ part = "P25" => P25Inv
  /\ part = "NXDN" => FixedInv(FrameBytes, TxHang)
  /\ part = "DMO" => FixedInv(FrameBytes + 1, 0)
  /\ part = "calibration" => CalInv
  /\ part = "CW" => CwInv

\* What a step of a transmitter must not do.
StepOK ==
  CASE part = "P25" -> FrameWhole
    [] part \in {"NXDN", "DMO"} -> N!FrameLed
    [] part = "calibration" -> K!CallWhole
    [] OTHER -> TRUE

LEMMA PartsStart == AllInit => PartsInv
<1> SUFFICES ASSUME AllInit PROVE PartsInv
  OBVIOUS
<1>1. /\ FrameBytes \in Nat /\ FrameBytes + 1 \in Nat /\ TxHang \in Nat /\ 0 \in Nat
  BY FixedConstants
<1>2. FixedInv(FrameBytes, TxHang) /\ FixedInv(FrameBytes + 1, 0)
  BY <1>1, FixedStarts DEF AllInit
<1>3. P25Inv /\ CalInv /\ CwInv
  BY P25Starts, CalStarts, CwStarts DEF AllInit
<1>4. QED
  BY <1>2, <1>3 DEF AllInit, PartsInv

LEMMA PartsKept ==
  ASSUME PartsInv, AllNext
  PROVE  PartsInv' /\ StepOK
<1>1. /\ FrameBytes \in Nat /\ FrameBytes + 1 \in Nat /\ TxHang \in Nat /\ 0 \in Nat
      /\ FrameBytes >= FrameBytes /\ FrameBytes + 1 >= FrameBytes
  BY FixedConstants
<1>2. CASE part = "P25"
  <2>1. P25Inv /\ Next /\ part' = "P25"
    BY <1>2 DEF PartsInv, AllNext, FiltersStay
  <2>2. P25Inv' /\ FrameWhole
    BY <2>1, P25Keeps
  <2>3. QED
    BY <1>2, <2>1, <2>2 DEF PartsInv, StepOK
<1>3. CASE part = "NXDN"
  <2>1. FixedInv(FrameBytes, TxHang) /\ N!Next /\ part' = "NXDN"
    BY <1>3 DEF PartsInv, AllNext, FiltersStay
  <2>2. FixedInv(FrameBytes, TxHang)' /\ N!FrameLed
    BY <1>1, <2>1, NxdnSteps, FixedKeeps
  <2>3. QED
    BY <1>3, <2>1, <2>2 DEF PartsInv, StepOK
<1>4. CASE part = "DMO"
  <2>1. FixedInv(FrameBytes + 1, 0) /\ D!Next /\ part' = "DMO"
    BY <1>4 DEF PartsInv, AllNext, FiltersStay
  <2>2. FixedInv(FrameBytes + 1, 0)' /\ N!FrameLed
    BY <1>1, <2>1, DirectModeSteps, FixedKeeps
  <2>3. QED
    BY <1>4, <2>1, <2>2 DEF PartsInv, StepOK
<1>5. CASE part = "calibration"
  <2>1. CalInv /\ K!Next /\ part' = "calibration"
    BY <1>5 DEF PartsInv, AllNext, FiltersStay
  <2>2. CalInv' /\ K!CallWhole
    BY <2>1, CalKeeps
  <2>3. QED
    BY <1>5, <2>1, <2>2 DEF PartsInv, StepOK
<1>6. CASE part = "CW"
  <2>1. CwInv /\ W!Next /\ part' = "CW"
    BY <1>6 DEF PartsInv, AllNext, FiltersStay
  <2>2. CwInv'
    BY <2>1, CwKeeps
  <2>3. QED
    BY <1>6, <2>1, <2>2 DEF PartsInv, StepOK
<1>7. CASE part = "filter"
  <2>1. part' = "filter"
    BY <1>7 DEF AllNext, FiltersStay
  <2>2. QED
    BY <1>7, <2>1 DEF PartsInv, StepOK
<1>8. QED
  BY <1>2, <1>3, <1>4, <1>5, <1>6, <1>7 DEF PartsInv

LEMMA PartsStutter ==
  ASSUME PartsInv, UNCHANGED allVars
  PROVE  PartsInv'
<1>1. /\ UNCHANGED <<part, fixedVars, calVars, cwVars>>
      /\ UNCHANGED <<m_modemState, m_tx, m_poLeft, m_tailCnt, burst, last>>
      /\ UNCHANGED <<m_fifo, accepted, written, tight, lost, credit, ops, overdrawn>>
  BY DEF allVars, vars, airVars, queueVars, hostVars
<1>2. P25Inv => P25Inv'
  BY <1>1 DEF P25Inv, P25Types, P25Frames
<1>3. ASSUME NEW unit, NEW hang, FixedInv(unit, hang) PROVE FixedInv(unit, hang)'
  BY <1>1, <1>3 DEF FixedInv, FixedTypes, FixedCredit, FixedOrder, FixedLed, N!GetSpace, fixedVars
<1>4. CalInv => CalInv'
  <2>1. CalTypes => CalTypes'
    BY <1>1 DEF CalTypes, calVars
  <2>2. CalWait => CalWait'
    BY <1>1 DEF CalWait, Slack, calVars
  <2>3. CalRound => CalRound'
    <3>1. UNCHANGED <<protocol, m_state, m_audioSeq, m_modemState, lastTwo, undisturbed>>
      BY <1>1 DEF calVars
    <3>2. /\ CalRoundDmr => CalRoundDmr'
          /\ CalRoundP25 => CalRoundP25'
          /\ CalRoundNxdn => CalRoundNxdn'
      BY <3>1 DEF CalRoundDmr, CalRoundP25, CalRoundNxdn, K!Before, K!CallModes
    <3>3. K!Before(lastTwo[2])' = K!Before(lastTwo[2])
      BY <3>1 DEF K!Before
    <3>4. QED
      BY <3>1, <3>2, <3>3 DEF CalRound
  <2>4. QED
    BY <2>1, <2>2, <2>3 DEF CalInv
<1>5. CwInv => CwInv'
  BY <1>1 DEF CwInv, W!TypeOK, cwVars
<1>6. QED
  BY <1>1, <1>2, <1>3, <1>4, <1>5 DEF PartsInv

\* Every transmitter keeps its own invariant: credit and room, the order of the frames and
\* the preamble before them, the room left for a call of the calibration, the bytes of the
\* P25 queue.
THEOREM TransmittersInvariant == AllSpec => []PartsInv
<1>1. PartsInv /\ [AllNext]_allVars => PartsInv'
  BY PartsKept, PartsStutter
<1>2. QED
  BY <1>1, PartsStart, PTL DEF AllSpec

\* The state of every transmitter keeps its shape; the bit of the identifier that is read
\* is one that was written, and what the queue of P25TX holds is bytes of frames.
THEOREM TransmittersTyped == AllSpec => []TypesOK
<1>1. PartsInv => TypesOK
  <2> SUFFICES ASSUME PartsInv PROVE TypesOK
    OBVIOUS
  <2>1. ASSUME P25Inv PROVE TypeOK
    <3>1. P25Types
      BY <2>1 DEF P25Inv
    <3>2. /\ m_fifo.m_length = FifoLen /\ m_fifo.m_full \in BOOLEAN
          /\ m_fifo.m_head \in 0 .. FifoLen - 1 /\ m_fifo.m_tail \in 0 .. FifoLen - 1
          /\ DOMAIN m_fifo.m_buffer = 0 .. FifoLen - 1
      BY <3>1 DEF P25Types, Fifos
    <3>3. accepted \in Seq(Nat \X Nat)
      <4>1. FramesUpTo(written) \subseteq Nat \X Nat
        BY <3>1 DEF FramesUpTo, P25Types
      <4>2. QED
        BY <3>1, <4>1 DEF P25Types
    <3>4. ASSUME NEW i \in 1 .. Len(burst)
          PROVE  burst[i][1] \in {"short", "long", "len", "msb", "lsb", "data"}
      <4>1. burst[i] \in FrameBytesOf(written)
        BY <3>1 DEF P25Types
      <4>2. QED
        BY <3>1, <4>1, ByteKinds DEF FrameBytesOf, P25Types
    <3>5. QED
      BY <3>1, <3>2, <3>3, <3>4 DEF TypeOK, P25Types
  <2>2. ASSUME part = "NXDN" PROVE N!TypeOK
    <3>1. FixedInv(FrameBytes, TxHang) /\ FrameBytes \in Nat /\ TxHang \in Nat
      BY <2>2, FixedConstants DEF PartsInv
    <3>2. N!GetSpace \in Nat
      BY <3>1, SpaceIsNat
    <3>3. QED
      BY <3>1, <3>2 DEF FixedInv, FixedTypes, N!TypeOK, Sizes
  <2>3. ASSUME part = "DMO" PROVE D!TypeOK
    <3>1. FixedInv(FrameBytes + 1, 0) /\ FrameBytes + 1 \in Nat /\ 0 \in Nat
      BY <2>3, FixedConstants DEF PartsInv
    <3>2. N!GetSpace \in Nat /\ D!GetSpace = N!GetSpace
      BY <3>1, SpaceIsNat DEF N!GetSpace, D!GetSpace
    <3>3. QED
      BY <3>1, <3>2 DEF FixedInv, FixedTypes, D!TypeOK, Sizes
  <2>4. ASSUME part = "calibration" PROVE K!TypeOK
    BY <2>4, CalTypesAre DEF PartsInv, CalInv
  <2>5. ASSUME part = "CW" PROVE W!TypeOK
    BY <2>5 DEF PartsInv, CwInv
  <2>6. QED
    BY <2>1, <2>2, <2>3, <2>4, <2>5 DEF PartsInv, TypesOK
<1>2. QED
  BY <1>1, TransmittersInvariant, PTL

\* A host that keeps to the credit of the last status has no frame refused by NXDNTX or
\* DMRDMOTX, whatever the lengths of their queues and frames and however it clears them.
THEOREM CreditKept == AllSpec => []CreditIsKept
<1>1. PartsInv => CreditIsKept
  BY DEF PartsInv, FixedInv, FixedCredit, CreditIsKept, N!CreditIsKept
<1>2. QED
  BY <1>1, TransmittersInvariant, PTL

\* P25TX::createData() begins the frame that waited longest, with every byte of it, as long
\* as each had room for its framing; NXDNTX and DMRDMOTX send theirs in order after a
\* preamble; a test call of CalDMR, CalP25 and CalNXDN is whole.
THEOREM FramesGoOutWhole == AllSpec => FramesArrive
<1>1. PartsInv /\ [AllNext]_allVars => [StepOK]_allVars
  BY PartsKept
<1>2. AllSpec => [][StepOK]_allVars
  BY <1>1, TransmittersInvariant, PTL DEF AllSpec
<1>3. QED
  BY <1>2 DEF FramesArrive, StepOK
-----------------------------------------------------------------------------
(* P25: how long the data of the ring is *)

LEMMA LeastNumber ==
  ASSUME NEW numbers \in SUBSET Nat, numbers # {}
  PROVE  \E x \in numbers : \A y \in numbers : x <= y
<1>1. PICK x \in numbers : \A y \in numbers : ~(<<y, x>> \in OpToRel(<, Nat))
  BY WFMin, NatLessThanWellFounded
<1>2. ASSUME NEW y \in numbers PROVE x <= y
  <2>1. x \in Nat /\ y \in Nat
    OBVIOUS
  <2>2. y < x => <<y, x>> \in OpToRel(<, Nat)
    BY <2>1 DEF OpToRel
  <2>3. ~(y < x)
    BY <1>1, <2>2
  <2>4. QED
    BY <2>1, <2>3
<1>3. QED
  BY <1>2

\* Two that begin alike and go on alike are alike.
LEMMA SameRuns ==
  ASSUME NEW n \in Nat, NEW f, NEW g, f[0] = g[0], \A i \in 1 .. n : f[i - 1] = g[i - 1] => f[i] = g[i]
  PROVE  f[n] = g[n]
<1> DEFINE Bad == {i \in 0 .. n : f[i] # g[i]}
<1>1. SUFFICES ASSUME Bad # {} PROVE FALSE
  OBVIOUS
<1>2. Bad \in SUBSET Nat
  OBVIOUS
<1>3. PICK i \in Bad : \A k \in Bad : i <= k
  BY <1>1, <1>2, LeastNumber
<1>4. i \in 1 .. n /\ i - 1 \in 0 .. n /\ ~(i <= i - 1)
  BY <1>3
<1>5. f[i - 1] = g[i - 1]
  BY <1>3, <1>4
<1>6. QED
  BY <1>3, <1>4, <1>5

\* A count that begins at zero and goes on by these steps; there is one.
Counts(count, step, length) == count[0] = 0 /\ \A n \in 1 .. length : count[n] = count[n - 1] + step[n]

LEMMA OneCount ==
  ASSUME NEW length \in Nat, NEW step, NEW f, NEW g, Counts(f, step, length), Counts(g, step, length)
  PROVE  f[length] = g[length]
<1>1. f[0] = g[0]
  BY Zenon DEF Counts
<1>2. \A n \in 1 .. length : f[n - 1] = g[n - 1] => f[n] = g[n]
  BY Zenon DEF Counts
<1>3. QED
  BY <1>1, <1>2, SameRuns, Zenon

\* Whatever sums the frames up, one after the other, gives the bytes of them all.
AddsUp(sum, frames, length) ==
  sum = [n \in 0 .. length |-> IF n = 0 THEN 0 ELSE sum[n - 1] + (Len(Header(frames[n][2])) + frames[n][2])]

LEMMA BytesAddUp ==
  ASSUME NEW frames, NEW length \in Nat, length = Len(frames), NEW sum, AddsUp(sum, frames, length)
  PROVE  BytesOf(frames) = sum[length]
<1> DEFINE step == [n \in 1 .. length |-> Len(Header(frames[n][2])) + frames[n][2]]
           bytes == CHOOSE b : AddsUp(b, frames, length)
<1>1. BytesOf(frames) = bytes[length]
  BY Zenon DEF BytesOf, AddsUp
<1>2. AddsUp(sum, frames, length)
  OBVIOUS
<1>3. AddsUp(bytes, frames, length)
  BY <1>2, Zenon
<1>4. ASSUME NEW b, AddsUp(b, frames, length)
      PROVE  Counts(b, step, length)
  <2>1. 0 \in 0 .. length /\ \A n \in 1 .. length : n \in 0 .. length /\ n # 0
    OBVIOUS
  <2>2. QED
    BY <1>4, <2>1, Zenon DEF Counts, AddsUp
<1> HIDE DEF step, bytes
<1>5. Counts(sum, step, length) /\ Counts(bytes, step, length)
  BY <1>2, <1>3, <1>4, Zenon
<1>6. bytes[length] = sum[length]
  BY <1>5, OneCount, Zenon
<1>7. QED
  BY <1>1, <1>6, Zenon

\* The offsets of the frames in the ring are such a sum, and the last is where the data ends.
LEMMA OffsetsAddUp ==
  ASSUME NEW w \in Nat, NEW acc \in Seq(FramesUpTo(w)), NEW q, NEW off, FramesIn(off, q, acc)
  PROVE  GetData(q) = BytesOf(acc)
<1>1. PICK length \in Nat : length = Len(acc)
  OBVIOUS
<1> DEFINE sum == [n \in 0 .. length |-> off[n + 1]]
<1>2. off[1] = 0 /\ off[length + 1] = GetData(q) /\ \A k \in 1 .. length : off[k + 1] = off[k] + Len(Wire(acc[k]))
  BY <1>1, Zenon DEF FramesIn
<1>3. \A n \in 1 .. length : Len(Wire(acc[n])) = Len(Header(acc[n][2])) + acc[n][2]
  <2>1. ASSUME NEW n \in 1 .. length PROVE acc[n] \in FramesUpTo(w)
    BY <1>1
  <2>2. QED
    BY <2>1, WireIs, Zenon
<1>4. \A n \in 0 .. length : sum[n] = IF n = 0 THEN 0 ELSE sum[n - 1] + (Len(Header(acc[n][2])) + acc[n][2])
  <2>1. sum[0] = 0
    BY <1>2
  <2>2. ASSUME NEW n \in 1 .. length PROVE sum[n] = sum[n - 1] + (Len(Header(acc[n][2])) + acc[n][2])
    <3>1. sum[n] = off[n + 1] /\ sum[n - 1] = off[n]
      <4>1. n \in 0 .. length /\ n - 1 \in 0 .. length /\ (n - 1) + 1 = n
        OBVIOUS
      <4>2. QED
        BY <4>1, Zenon
    <3>2. QED
      BY <1>2, <1>3, <3>1, Zenon
  <2>3. \A n \in 0 .. length : n = 0 \/ n \in 1 .. length
    OBVIOUS
  <2>4. \A n \in 1 .. length : n # 0
    OBVIOUS
  <2> HIDE DEF sum
  <2>5. QED
    BY <2>1, <2>2, <2>3, <2>4, Zenon
<1>5. sum = [n \in 0 .. length |-> sum[n]]
  BY Zenon
<1> HIDE DEF sum
<1>6. AddsUp(sum, acc, length)
  BY <1>4, <1>5, Zenon DEF AddsUp
<1>7. BytesOf(acc) = sum[length]
  BY <1>1, <1>6, BytesAddUp, Zenon
<1>8. sum[length] = off[length + 1]
  <2>1. length \in 0 .. length
    OBVIOUS
  <2>2. QED
    BY <2>1, Zenon DEF sum
<1>9. QED
  BY <1>2, <1>7, <1>8, Zenon

\* Of the other parts the P25 queue stays the empty one.
EmptyElsewhere == part # "P25" => m_fifo = NewRing(FifoLen) /\ accepted = <<>>

LEMMA EmptyStays == AllSpec => []EmptyElsewhere
<1>1. AllInit => EmptyElsewhere
  BY Zenon DEF AllInit, Init, EmptyElsewhere
<1>2. EmptyElsewhere /\ [AllNext]_allVars => EmptyElsewhere'
  <2> SUFFICES ASSUME EmptyElsewhere, [AllNext]_allVars PROVE EmptyElsewhere'
    OBVIOUS
  <2>1. part' = part /\ (part = "P25" \/ UNCHANGED <<m_fifo, accepted>>)
    BY Zenon DEF AllNext, allVars, FiltersStay, p25Vars, vars, queueVars
  <2>2. QED
    BY <2>1, Zenon DEF EmptyElsewhere
<1>3. QED
  BY <1>1, <1>2, PTL DEF AllSpec

\* P25TX: as long as every frame had room for its framing, what m_fifo holds is the frames
\* accepted and not begun, with their framing and without a byte more: whether
\* getData() is zero says whether any is left, as process() takes it.
THEOREM P25RingAccounts == AllSpec => []RingAccounts
<1>1. PartsInv /\ EmptyElsewhere => RingAccounts
  <2> SUFFICES ASSUME PartsInv, EmptyElsewhere, ~tight PROVE GetData(m_fifo) = BytesOf(accepted)
    BY Zenon DEF RingAccounts
  <2>1. CASE part = "P25"
    <3>1. PICK off : FramesIn(off, m_fifo, accepted)
      BY <2>1, Zenon DEF PartsInv, P25Inv, P25Frames
    <3>2. accepted \in Seq(FramesUpTo(written)) /\ written \in Nat
      BY <2>1, Zenon DEF PartsInv, P25Inv, P25Types
    <3>3. QED
      BY <3>1, <3>2, OffsetsAddUp, Zenon
  <2>2. CASE part # "P25"
    <3>1. m_fifo = NewRing(FifoLen) /\ accepted = <<>>
      BY <2>2, Zenon DEF EmptyElsewhere
    <3>2. <<>> \in Seq(FramesUpTo(0)) /\ 0 \in Nat
      OBVIOUS
    <3>3. PICK off : FramesIn(off, NewRing(FifoLen), <<>>)
      <4>1. GetData(NewRing(FifoLen)) = 0
        BY DEF NewRing, GetData
      <4>2. FramesIn([k \in 1 .. 1 |-> 0], NewRing(FifoLen), <<>>)
        BY <4>1 DEF FramesIn
      <4>3. QED
        BY <4>2, Zenon
    <3>4. QED
      BY <3>1, <3>2, <3>3, OffsetsAddUp, Zenon
  <2>3. QED
    BY <2>1, <2>2, Zenon
<1>2. QED
  BY <1>1, TransmittersInvariant, EmptyStays, PTL

-----------------------------------------------------------------------------
(***************************************************************************)
(* Filters.  What a block begins with is what its outputs need of the      *)
(* samples before it, and each loop of a block has a closed form: the      *)
(* array with the samples taken, and the sums of the outputs so far.       *)
(***************************************************************************)

\* n products, of the coefficients from the first and the cells from at.
Products(s, at, n) == [k \in 1 .. n |-> <<k - 1, s[at + k - 1]>>]

LEMMA TwoMore ==
  ASSUME NEW room \in Nat, NEW s \in [0 .. room - 1 -> Nat], NEW at \in Nat, NEW n \in Nat, at + n + 1 < room
  PROVE  /\ Products(s, at, n) \in Seq(Nat \X Nat)
         /\ Products(s, at, n) \o <<<<n, s[at + n]>>, <<n + 1, s[at + n + 1]>>>> = Products(s, at, n + 2)
<1> DEFINE sum == Products(s, at, n)
           two == <<<<n, s[at + n]>>, <<n + 1, s[at + n + 1]>>>>
           all == Products(s, at, n + 2)
<1>1. s[at + n] \in Nat /\ s[at + n + 1] \in Nat
  OBVIOUS
<1>2. two \in Seq(Nat \X Nat) /\ Len(two) = 2 /\ two[1] = <<n, s[at + n]>> /\ two[2] = <<n + 1, s[at + n + 1]>>
  BY <1>1
<1>3. \A k \in 1 .. n + 2 : at + k - 1 \in 0 .. room - 1 /\ s[at + k - 1] \in Nat
  OBVIOUS
<1>4. sum \in Seq(Nat \X Nat) /\ Len(sum) = n
  BY <1>3 DEF Products
<1>5. all \in Seq(Nat \X Nat) /\ Len(all) = n + 2
  BY <1>3 DEF Products
<1>6. ASSUME NEW k \in 1 .. n + 2
      PROVE  all[k] = <<k - 1, s[at + k - 1]>> /\ (k \in 1 .. n => sum[k] = <<k - 1, s[at + k - 1]>>)
  BY DEF Products
<1> HIDE DEF sum, two, all
<1>7. sum \o two \in Seq(Nat \X Nat) /\ Len(sum \o two) = n + 2
      /\ \A k \in 1 .. n + 2 : (sum \o two)[k] = IF k <= n THEN sum[k] ELSE two[k - n]
  <2>1. /\ sum \o two \in Seq(Nat \X Nat) /\ Len(sum \o two) = Len(sum) + Len(two)
        /\ \A k \in 1 .. Len(sum) + Len(two) :
             (sum \o two)[k] = IF k <= Len(sum) THEN sum[k] ELSE two[k - Len(sum)]
    <3>1. sum \in Seq(Nat \X Nat) /\ two \in Seq(Nat \X Nat)
      BY <1>2, <1>4
    <3>2. QED
      BY <3>1, ConcatProperties
  <2>2. QED
    BY <1>2, <1>4, <2>1, Zenon
<1>8. ASSUME NEW k \in 1 .. n + 2 PROVE (sum \o two)[k] = all[k]
  <2>1. CASE k <= n
    <3>1. k \in 1 .. n
      BY <2>1
    <3>2. QED
      BY <1>6, <1>7, <2>1, <3>1, Zenon
  <2>2. CASE k = n + 1
    <3>1. k - n = 1 /\ k - 1 = n /\ at + k - 1 = at + n /\ ~(k <= n)
      BY <2>2
    <3>2. (sum \o two)[k] = two[1] /\ all[k] = <<n, s[at + n]>>
      BY <1>6, <1>7, <3>1, Zenon
    <3>3. QED
      BY <1>2, <3>2
  <2>3. CASE k = n + 2
    <3>1. k - n = 2 /\ k - 1 = n + 1 /\ at + k - 1 = at + n + 1 /\ ~(k <= n)
      BY <2>3
    <3>2. (sum \o two)[k] = two[2] /\ all[k] = <<n + 1, s[at + n + 1]>>
      BY <1>6, <1>7, <3>1, Zenon
    <3>3. QED
      BY <1>2, <3>2
  <2>4. k <= n \/ k = n + 1 \/ k = n + 2
    OBVIOUS
  <2>5. QED
    BY <2>1, <2>2, <2>3, <2>4, Zenon
<1>9. sum \o two = all
  BY <1>5, <1>7, <1>8, SeqEqual
<1>10. QED
  BY <1>4, <1>9 DEF sum, two, all

\* The two registers and the four sums when n taps of four outputs are taken.
Registers(s, p, n) ==
  [s |-> s, x0 |-> <<s[p + n], s[p + n + 1]>>, x2 |-> <<s[p + n + 2], s[p + n + 3]>>,
   acc |-> <<Products(s, p, n), Products(s, p + 1, n), Products(s, p + 2, n), Products(s, p + 3, n)>>,
   wild |-> FALSE]

LEMMA Loaded ==
  ASSUME NEW room \in Nat, NEW s \in [0 .. room - 1 -> Nat], NEW i \in Nat, i + 1 < room
  PROVE  F!Load(s, i) = <<s[i], s[i + 1]>> /\ s[i] # F!Outside /\ s[i + 1] # F!Outside
<1>1. i \in DOMAIN s /\ i + 1 \in DOMAIN s /\ s[i] \in Nat /\ s[i + 1] \in Nat
  OBVIOUS
<1>2. F!Cell(s, i) = s[i] /\ F!Cell(s, i + 1) = s[i + 1]
  BY <1>1, Zenon DEF F!Cell
<1>3. QED
  BY <1>1, <1>2 DEF F!Load, F!Outside

LEMMA FourProducts ==
  ASSUME NEW room \in Nat, NEW s \in [0 .. room - 1 -> Nat], NEW at \in Nat, NEW n \in Nat, at + n + 3 < room
  PROVE  Products(s, at, n) \o <<<<n, s[at + n]>>, <<n + 1, s[at + n + 1]>>>>
           \o <<<<n + 2, s[at + n + 2]>>, <<(n + 2) + 1, s[at + n + 3]>>>> = Products(s, at, n + 4)
<1>1. Products(s, at, n) \o <<<<n, s[at + n]>>, <<n + 1, s[at + n + 1]>>>> = Products(s, at, n + 2)
  <2>1. at + n + 1 < room
    OBVIOUS
  <2>2. QED
    BY <2>1, TwoMore, Zenon
<1>2. n + 2 \in Nat /\ at + (n + 2) + 1 < room
  OBVIOUS
<1>3. Products(s, at, n + 2) \o <<<<n + 2, s[at + (n + 2)]>>, <<(n + 2) + 1, s[at + (n + 2) + 1]>>>>
        = Products(s, at, (n + 2) + 2)
  BY <1>2, TwoMore
<1>4. at + (n + 2) = at + n + 2 /\ at + (n + 2) + 1 = at + n + 3 /\ (n + 2) + 2 = n + 4
  OBVIOUS
<1>5. QED
  BY <1>1, <1>3, <1>4, Zenon

LEMMA FourTapsMore ==
  ASSUME NEW room \in Nat, NEW s \in [0 .. room - 1 -> Nat], NEW p \in Nat, NEW n \in Nat, p + n + 7 < room
  PROVE  F!FourTaps(Registers(s, p, n), p + n + 4, n) = Registers(s, p, n + 4)
<1> DEFINE r == Registers(s, p, n)
           x0 == <<s[p + n + 4], s[p + n + 5]>>
           x2 == <<s[p + n + 6], s[p + n + 7]>>
           acc == r.acc
           next == << acc[1] \o F!Smlad(r.x0, n) \o F!Smlad(r.x2, n + 2),
                      acc[2] \o F!Smladx(F!Pkhbt(r.x2, r.x0), n) \o F!Smladx(F!Pkhbt(x0, r.x2), n + 2),
                      acc[3] \o F!Smlad(r.x2, n) \o F!Smlad(x0, n + 2),
                      acc[4] \o F!Smladx(F!Pkhbt(x0, r.x2), n) \o F!Smladx(F!Pkhbt(x2, x0), n + 2) >>
<1>1. /\ F!Load(s, p + n + 4) = x0 /\ x0[1] # F!Outside /\ x0[2] # F!Outside
      /\ F!Load(s, (p + n + 4) + 2) = x2 /\ x2[1] # F!Outside /\ x2[2] # F!Outside
  <2>1. /\ p + n + 4 \in Nat /\ (p + n + 4) + 1 = p + n + 5 /\ p + n + 6 \in Nat
        /\ (p + n + 4) + 2 = p + n + 6 /\ (p + n + 6) + 1 = p + n + 7
        /\ p + n + 5 < room /\ p + n + 7 < room
    OBVIOUS
  <2>2. F!Load(s, p + n + 4) = x0 /\ s[p + n + 4] # F!Outside /\ s[p + n + 5] # F!Outside
    BY <2>1, Loaded
  <2>3. F!Load(s, p + n + 6) = x2 /\ s[p + n + 6] # F!Outside /\ s[p + n + 7] # F!Outside
    BY <2>1, Loaded
  <2>4. QED
    BY <2>1, <2>2, <2>3
<1>2. /\ r.s = s /\ r.x0 = <<s[p + n], s[p + n + 1]>> /\ r.x2 = <<s[p + n + 2], s[p + n + 3]>>
      /\ r.wild = FALSE
      /\ r.acc = <<Products(s, p, n), Products(s, p + 1, n), Products(s, p + 2, n), Products(s, p + 3, n)>>
  BY DEF Registers
<1>3. acc[1] \o F!Smlad(r.x0, n) \o F!Smlad(r.x2, n + 2) = Products(s, p, n + 4)
  <2>1. p \in Nat /\ p + n + 3 < room
    OBVIOUS
  <2>2. Products(s, p, n) \o <<<<n, s[p + n]>>, <<n + 1, s[p + n + 1]>>>>
           \o <<<<n + 2, s[p + n + 2]>>, <<(n + 2) + 1, s[p + n + 3]>>>> = Products(s, p, n + 4)
    BY <2>1, FourProducts, Zenon
  <2>3. /\ F!Smlad(r.x0, n) = <<<<n, s[p + n]>>, <<n + 1, s[p + n + 1]>>>>
        /\ F!Smlad(r.x2, n + 2) = <<<<n + 2, s[p + n + 2]>>, <<(n + 2) + 1, s[p + n + 3]>>>>
    BY <1>2 DEF F!Smlad
  <2>4. acc[1] = Products(s, p, n)
    BY <1>2
  <2>5. QED
    BY <2>2, <2>3, <2>4, Zenon
<1>4. acc[2] \o F!Smladx(F!Pkhbt(r.x2, r.x0), n) \o F!Smladx(F!Pkhbt(x0, r.x2), n + 2) = Products(s, p + 1, n + 4)
  <2>1. p + 1 \in Nat /\ p + 1 + n + 3 < room
    OBVIOUS
  <2>2. Products(s, p + 1, n) \o <<<<n, s[p + 1 + n]>>, <<n + 1, s[p + 1 + n + 1]>>>>
           \o <<<<n + 2, s[p + 1 + n + 2]>>, <<(n + 2) + 1, s[p + 1 + n + 3]>>>> = Products(s, p + 1, n + 4)
    BY <2>1, FourProducts, Zenon
  <2>3. /\ F!Smladx(F!Pkhbt(r.x2, r.x0), n) = <<<<n, s[p + 1 + n]>>, <<n + 1, s[p + 1 + n + 1]>>>>
        /\ F!Smladx(F!Pkhbt(x0, r.x2), n + 2) = <<<<n + 2, s[p + 1 + n + 2]>>, <<(n + 2) + 1, s[p + 1 + n + 3]>>>>
    BY <1>2 DEF F!Smladx, F!Pkhbt
  <2>4. acc[2] = Products(s, p + 1, n)
    BY <1>2
  <2>5. QED
    BY <2>2, <2>3, <2>4, Zenon
<1>5. acc[3] \o F!Smlad(r.x2, n) \o F!Smlad(x0, n + 2) = Products(s, p + 2, n + 4)
  <2>1. p + 2 \in Nat /\ p + 2 + n + 3 < room
    OBVIOUS
  <2>2. Products(s, p + 2, n) \o <<<<n, s[p + 2 + n]>>, <<n + 1, s[p + 2 + n + 1]>>>>
           \o <<<<n + 2, s[p + 2 + n + 2]>>, <<(n + 2) + 1, s[p + 2 + n + 3]>>>> = Products(s, p + 2, n + 4)
    BY <2>1, FourProducts, Zenon
  <2>3. /\ F!Smlad(r.x2, n) = <<<<n, s[p + 2 + n]>>, <<n + 1, s[p + 2 + n + 1]>>>>
        /\ F!Smlad(x0, n + 2) = <<<<n + 2, s[p + 2 + n + 2]>>, <<(n + 2) + 1, s[p + 2 + n + 3]>>>>
    <3>1. x0[1] = s[p + 2 + n + 2] /\ x0[2] = s[p + 2 + n + 3]
      OBVIOUS
    <3>2. p + 2 + n = p + n + 2 /\ p + 2 + n + 1 = p + n + 3
      OBVIOUS
    <3> HIDE DEF r
    <3>3. r.x2[1] = s[p + n + 2] /\ r.x2[2] = s[p + n + 3]
      BY <1>2
    <3>4. QED
      BY <3>1, <3>2, <3>3, Zenon DEF F!Smlad
  <2>4. acc[3] = Products(s, p + 2, n)
    BY <1>2
  <2>5. QED
    BY <2>2, <2>3, <2>4, Zenon
<1>6. acc[4] \o F!Smladx(F!Pkhbt(x0, r.x2), n) \o F!Smladx(F!Pkhbt(x2, x0), n + 2) = Products(s, p + 3, n + 4)
  <2>1. p + 3 \in Nat /\ p + 3 + n + 3 < room
    OBVIOUS
  <2>2. Products(s, p + 3, n) \o <<<<n, s[p + 3 + n]>>, <<n + 1, s[p + 3 + n + 1]>>>>
           \o <<<<n + 2, s[p + 3 + n + 2]>>, <<(n + 2) + 1, s[p + 3 + n + 3]>>>> = Products(s, p + 3, n + 4)
    BY <2>1, FourProducts, Zenon
  <2>3. /\ F!Smladx(F!Pkhbt(x0, r.x2), n) = <<<<n, s[p + 3 + n]>>, <<n + 1, s[p + 3 + n + 1]>>>>
        /\ F!Smladx(F!Pkhbt(x2, x0), n + 2) = <<<<n + 2, s[p + 3 + n + 2]>>, <<(n + 2) + 1, s[p + 3 + n + 3]>>>>
    BY <1>2 DEF F!Smladx, F!Pkhbt
  <2>4. acc[4] = Products(s, p + 3, n)
    BY <1>2
  <2>5. QED
    BY <2>2, <2>3, <2>4, Zenon
<1>7. next = <<Products(s, p, n + 4), Products(s, p + 1, n + 4), Products(s, p + 2, n + 4), Products(s, p + 3, n + 4)>>
  BY <1>3, <1>4, <1>5, <1>6, Zenon
<1>8. F!FourTaps(r, p + n + 4, n) = [s |-> s, x0 |-> x0, x2 |-> x2, acc |-> next, wild |-> FALSE]
  <2>1. F!Load(s, p + n + 4) = x0 /\ F!Load(s, (p + n + 4) + 2) = x2
    BY <1>1, Zenon
  <2>2. (r.wild \/ F!Outside \in {x0[1], x0[2], x2[1], x2[2]}) = FALSE
    BY <1>1, <1>2, Zenon
  <2>3. r.s = s
    BY <1>2, Zenon
  <2> HIDE DEF r, x0, x2
  <2>4. QED
    BY <2>1, <2>2, <2>3, Zenon DEF F!FourTaps
<1>9. /\ p + (n + 4) = p + n + 4 /\ p + (n + 4) + 1 = p + n + 5
      /\ p + (n + 4) + 2 = p + n + 6 /\ p + (n + 4) + 3 = p + n + 7
  OBVIOUS
<1>10. QED
  BY <1>7, <1>8, <1>9, Zenon DEF Registers

\* The sums of four outputs, and no load from outside.
FourSums(s, p, taps) ==
  <<Products(s, p, taps), Products(s, p + 1, taps), Products(s, p + 2, taps), Products(s, p + 3, taps)>>

SumsDone(r, s, p, taps) == r.acc = FourSums(s, p, taps) /\ r.wild = FALSE

LEMMA LastTapsMore ==
  ASSUME NEW room \in Nat, NEW s \in [0 .. room - 1 -> Nat], NEW p \in Nat, NEW n \in Nat, p + n + 5 < room
  PROVE  SumsDone(F!LastTaps(Registers(s, p, n), p + n + 4, n), s, p, n + 2)
<1> DEFINE r == Registers(s, p, n)
           x0 == <<s[p + n + 4], s[p + n + 5]>>
           acc == r.acc
           next == << acc[1] \o F!Smlad(r.x0, n), acc[2] \o F!Smladx(F!Pkhbt(r.x2, r.x0), n),
                      acc[3] \o F!Smlad(r.x2, n), acc[4] \o F!Smladx(F!Pkhbt(x0, r.x2), n) >>
<1>1. F!Load(s, p + n + 4) = x0 /\ x0[1] # F!Outside /\ x0[2] # F!Outside
  <2>1. p + n + 4 \in Nat /\ (p + n + 4) + 1 = p + n + 5 /\ (p + n + 4) + 1 < room
    OBVIOUS
  <2>2. QED
    BY <2>1, Loaded
<1>2. /\ r.s = s /\ r.x0 = <<s[p + n], s[p + n + 1]>> /\ r.x2 = <<s[p + n + 2], s[p + n + 3]>>
      /\ r.wild = FALSE
      /\ r.acc = <<Products(s, p, n), Products(s, p + 1, n), Products(s, p + 2, n), Products(s, p + 3, n)>>
  BY DEF Registers
<1>3. acc[1] \o F!Smlad(r.x0, n) = Products(s, p, n + 2)
  <2>1. p \in Nat /\ p + n + 1 < room
    OBVIOUS
  <2>2. Products(s, p, n) \o <<<<n, s[p + n]>>, <<n + 1, s[p + n + 1]>>>> = Products(s, p, n + 2)
    BY <2>1, TwoMore, Zenon
  <2>3. F!Smlad(r.x0, n) = <<<<n, s[p + n]>>, <<n + 1, s[p + n + 1]>>>> /\ acc[1] = Products(s, p, n)
    BY <1>2 DEF F!Smlad
  <2>4. QED
    BY <2>2, <2>3, Zenon
<1>4. acc[2] \o F!Smladx(F!Pkhbt(r.x2, r.x0), n) = Products(s, p + 1, n + 2)
  <2>1. p + 1 \in Nat /\ p + 1 + n + 1 < room
    OBVIOUS
  <2>2. Products(s, p + 1, n) \o <<<<n, s[p + 1 + n]>>, <<n + 1, s[p + 1 + n + 1]>>>> = Products(s, p + 1, n + 2)
    BY <2>1, TwoMore, Zenon
  <2>3. /\ F!Smladx(F!Pkhbt(r.x2, r.x0), n) = <<<<n, s[p + 1 + n]>>, <<n + 1, s[p + 1 + n + 1]>>>>
        /\ acc[2] = Products(s, p + 1, n)
    BY <1>2 DEF F!Smladx, F!Pkhbt
  <2>4. QED
    BY <2>2, <2>3, Zenon
<1>5. acc[3] \o F!Smlad(r.x2, n) = Products(s, p + 2, n + 2)
  <2>1. p + 2 \in Nat /\ p + 2 + n + 1 < room
    OBVIOUS
  <2>2. Products(s, p + 2, n) \o <<<<n, s[p + 2 + n]>>, <<n + 1, s[p + 2 + n + 1]>>>> = Products(s, p + 2, n + 2)
    BY <2>1, TwoMore, Zenon
  <2>3. F!Smlad(r.x2, n) = <<<<n, s[p + 2 + n]>>, <<n + 1, s[p + 2 + n + 1]>>>> /\ acc[3] = Products(s, p + 2, n)
    <3>1. p + 2 + n = p + n + 2 /\ p + 2 + n + 1 = p + n + 3
      OBVIOUS
    <3> HIDE DEF r
    <3>2. r.x2[1] = s[p + n + 2] /\ r.x2[2] = s[p + n + 3] /\ acc[3] = Products(s, p + 2, n)
      BY <1>2
    <3>3. QED
      BY <3>1, <3>2, Zenon DEF F!Smlad
  <2>4. QED
    BY <2>2, <2>3, Zenon
<1>6. acc[4] \o F!Smladx(F!Pkhbt(x0, r.x2), n) = Products(s, p + 3, n + 2)
  <2>1. p + 3 \in Nat /\ p + 3 + n + 1 < room
    OBVIOUS
  <2>2. Products(s, p + 3, n) \o <<<<n, s[p + 3 + n]>>, <<n + 1, s[p + 3 + n + 1]>>>> = Products(s, p + 3, n + 2)
    BY <2>1, TwoMore, Zenon
  <2>3. /\ F!Smladx(F!Pkhbt(x0, r.x2), n) = <<<<n, s[p + 3 + n]>>, <<n + 1, s[p + 3 + n + 1]>>>>
        /\ acc[4] = Products(s, p + 3, n)
    BY <1>2 DEF F!Smladx, F!Pkhbt
  <2>4. QED
    BY <2>2, <2>3, Zenon
<1>7. next = <<Products(s, p, n + 2), Products(s, p + 1, n + 2), Products(s, p + 2, n + 2), Products(s, p + 3, n + 2)>>
  BY <1>3, <1>4, <1>5, <1>6, Zenon
<1>8. F!LastTaps(r, p + n + 4, n) = [acc |-> next, wild |-> FALSE]
  <2>1. F!Load(s, p + n + 4) = x0 /\ r.s = s
    BY <1>1, <1>2, Zenon
  <2>2. (r.wild \/ F!Outside \in {x0[1], x0[2]}) = FALSE
    BY <1>1, <1>2, Zenon
  <2> HIDE DEF r, x0
  <2>3. QED
    BY <2>1, <2>2, Zenon DEF F!LastTaps
<1> HIDE DEF next, r
<1>9. F!LastTaps(r, p + n + 4, n).acc = next /\ F!LastTaps(r, p + n + 4, n).wild = FALSE
  BY <1>8
<1>10. QED
  BY <1>7, <1>9, Zenon DEF r, SumsDone, FourSums

LEMMA NoProducts ==
  ASSUME NEW s, NEW at
  PROVE  Products(s, at, 0) = <<>>
<1>1. Products(s, at, 0) = [k \in 1 .. 0 |-> <<k - 1, s[at + k - 1]>>]
  BY DEF Products
<1>2. QED
  BY <1>1

\* Before the first taps.
FirstRegisters(s, p, wild0) ==
  [s |-> s, x0 |-> F!Load(s, p), x2 |-> F!Load(s, p + 2), acc |-> << <<>>, <<>>, <<>>, <<>> >>,
   wild |-> wild0 \/ F!Outside \in {F!Load(s, p)[1], F!Load(s, p)[2], F!Load(s, p + 2)[1], F!Load(s, p + 2)[2]}]

LEMMA FirstAre ==
  ASSUME NEW room \in Nat, NEW s \in [0 .. room - 1 -> Nat], NEW p \in Nat, p + 3 < room
  PROVE  FirstRegisters(s, p, FALSE) = Registers(s, p, 0)
<1> DEFINE x0 == F!Load(s, p)
           x2 == F!Load(s, p + 2)
<1>1. /\ x0 = <<s[p], s[p + 1]>> /\ x2 = <<s[p + 2], s[p + 3]>>
      /\ ~(F!Outside \in {x0[1], x0[2], x2[1], x2[2]})
  <2>1. p + 1 < room /\ p + 2 \in Nat /\ (p + 2) + 1 < room /\ (p + 2) + 1 = p + 3
    OBVIOUS
  <2>2. /\ F!Load(s, p) = <<s[p], s[p + 1]>> /\ s[p] # F!Outside /\ s[p + 1] # F!Outside
        /\ F!Load(s, p + 2) = <<s[p + 2], s[p + 3]>> /\ s[p + 2] # F!Outside /\ s[p + 3] # F!Outside
    BY <2>1, Loaded
  <2>3. QED
    BY <2>2
<1>2. p + 0 = p /\ p + 0 + 1 = p + 1 /\ p + 0 + 2 = p + 2 /\ p + 0 + 3 = p + 3
  OBVIOUS
<1>3. (FALSE \/ F!Outside \in {x0[1], x0[2], x2[1], x2[2]}) = FALSE
  BY <1>1, Zenon
<1>4. QED
  BY <1>1, <1>2, <1>3, NoProducts, Zenon DEF Registers, FirstRegisters

\* The groups of four taps, one after the other.
Fours(f, s, p, first, taps) ==
  f = [g \in 0 .. taps \div 4 |-> IF g = 0 THEN first ELSE F!FourTaps(f[g - 1], p + 4 * g, 4 * (g - 1))]

AllTaps(f, p, taps) ==
  IF taps % 4 # 0 THEN F!LastTaps(f[taps \div 4], p + 4 * (taps \div 4) + 4, 4 * (taps \div 4)) ELSE f[taps \div 4]

LEMMA FoursMore ==
  ASSUME NEW room \in Nat, NEW s \in [0 .. room - 1 -> Nat], NEW p \in Nat,
         NEW taps \in Nat \ {0}, taps % 2 = 0, p + taps + 3 < room
  PROVE  LET first == Registers(s, p, 0) IN
         /\ \E f : Fours(f, s, p, first, taps)
         /\ \A f : Fours(f, s, p, first, taps) =>
              SumsDone(AllTaps(f, p, taps), s, p, taps)
<1> DEFINE first == Registers(s, p, 0)
           c == 4 * (taps \div 4)
           closed == [g \in 0 .. taps \div 4 |-> Registers(s, p, 4 * g)]
<1>1. taps \div 4 \in Nat
  OBVIOUS
<1>2. ASSUME NEW g \in 1 .. taps \div 4
      PROVE  F!FourTaps(Registers(s, p, 4 * (g - 1)), p + 4 * g, 4 * (g - 1)) = Registers(s, p, 4 * g)
  <2>1. PICK n \in Nat : n = 4 * (g - 1)
    OBVIOUS
  <2>2. p + n + 7 < room
    BY <2>1
  <2>3. p + 4 * g = p + n + 4 /\ 4 * g = n + 4
    BY <2>1
  <2>4. F!FourTaps(Registers(s, p, n), p + n + 4, n) = Registers(s, p, n + 4)
    BY <2>1, <2>2, FourTapsMore
  <2>5. QED
    BY <2>1, <2>3, <2>4, Zenon
<1>3. closed[0] = first /\ \A g \in 1 .. taps \div 4 : closed[g] = Registers(s, p, 4 * g) /\ closed[g - 1] = Registers(s, p, 4 * (g - 1))
  <2>1. /\ 0 \in 0 .. taps \div 4 /\ 4 * 0 = 0
        /\ \A g \in 1 .. taps \div 4 : g \in 0 .. taps \div 4 /\ g - 1 \in 0 .. taps \div 4
    BY <1>1
  <2>2. QED
    BY <2>1, Zenon
<1> HIDE DEF first
<1>4. Fours(closed, s, p, first, taps)
  <2>1. \A g \in 0 .. taps \div 4 : g = 0 \/ g \in 1 .. taps \div 4
    OBVIOUS
  <2>2. ASSUME NEW g \in 0 .. taps \div 4
        PROVE  closed[g] = IF g = 0 THEN first ELSE F!FourTaps(closed[g - 1], p + 4 * g, 4 * (g - 1))
    BY <1>2, <1>3, <2>1, Zenon
  <2>3. closed = [g \in 0 .. taps \div 4 |-> closed[g]]
    BY Zenon
  <2> HIDE DEF closed
  <2>4. QED
    BY <2>2, <2>3, Zenon DEF Fours
<1>5. ASSUME NEW f, Fours(f, s, p, first, taps)
      PROVE  f[0] = first /\ \A g \in 1 .. taps \div 4 : f[g] = F!FourTaps(f[g - 1], p + 4 * g, 4 * (g - 1))
  <2>1. 0 \in 0 .. taps \div 4 /\ \A g \in 1 .. taps \div 4 : g \in 0 .. taps \div 4 /\ g # 0
    BY <1>1
  <2>2. QED
    BY <1>5, <2>1, Zenon DEF Fours
<1>6. closed[taps \div 4] = Registers(s, p, c)
  <2>1. taps \div 4 \in 0 .. taps \div 4
    BY <1>1
  <2>2. QED
    BY <2>1, Zenon
<1> HIDE DEF closed
<1>7. ASSUME NEW f, Fours(f, s, p, first, taps)
      PROVE  SumsDone(AllTaps(f, p, taps), s, p, taps)
  <2>1. f[0] = closed[0] /\ \A g \in 1 .. taps \div 4 : f[g - 1] = closed[g - 1] => f[g] = closed[g]
    BY <1>4, <1>5, <1>7, Zenon
  <2>2. f[taps \div 4] = Registers(s, p, c)
    BY <1>1, <1>6, <2>1, SameRuns, Zenon
  <2> DEFINE all == AllTaps(f, p, taps)
  <2>3. CASE taps % 4 = 0
    <3>1. c = taps
      BY <2>3
    <3>2. all = Registers(s, p, taps)
      BY <2>2, <2>3, <3>1, Zenon DEF AllTaps
    <3> HIDE DEF all
    <3>3. all.acc = FourSums(s, p, taps) /\ all.wild = FALSE
      BY <3>2 DEF Registers, FourSums
    <3>4. QED
      BY <3>3, Zenon DEF all, SumsDone
  <2>4. CASE taps % 4 # 0
    <3>1. PICK n \in Nat : n = c
      BY <1>1
    <3>2. taps = n + 2
      BY <2>4, <3>1
    <3>5. p + n + 5 < room
      BY <2>4, <3>1
    <3>3. all = F!LastTaps(Registers(s, p, n), p + n + 4, n)
      BY <2>2, <2>4, <3>1, Zenon DEF AllTaps
    <3>4. SumsDone(F!LastTaps(Registers(s, p, n), p + n + 4, n), s, p, n + 2)
      BY <3>1, <3>5, LastTapsMore, Zenon
    <3>6. QED
      BY <3>2, <3>3, <3>4, Zenon
  <2>5. QED
    BY <2>3, <2>4, Zenon
<1>8. QED
  BY <1>4, <1>7, Zenon DEF first

\* A block as far as it is filtered, with no load from outside.
Filtered(s, p, number, outputs) == [s |-> s, p |-> p, came |-> number, sums |-> outputs, wild |-> FALSE]

\* With the next four samples, numbered from the next.
FourIn(s, at, number) == [i \in DOMAIN s |-> IF i \in at .. at + 3 THEN number + 1 + (i - at) ELSE s[i]]

LEMMA FourOutputsAre ==
  ASSUME NEW room \in Nat, NEW b, b.p \in Nat, b.wild = FALSE,
         NEW taps \in Nat \ {0}, taps % 2 = 0, b.p + taps + 3 < room,
         FourIn(b.s, b.p + taps - 1, b.came) \in [0 .. room - 1 -> Nat]
  PROVE  F!FourOutputs(b, taps) =
           Filtered(FourIn(b.s, b.p + taps - 1, b.came), b.p + 4, b.came + 4,
                    b.sums \o FourSums(FourIn(b.s, b.p + taps - 1, b.came), b.p, taps))
<1> DEFINE s == FourIn(b.s, b.p + taps - 1, b.came)
           first == FirstRegisters(s, b.p, b.wild)
           fours == CHOOSE f : Fours(f, s, b.p, first, taps)
           all == AllTaps(fours, b.p, taps)
<1>1. F!FourOutputs(b, taps) = [s |-> s, p |-> b.p + 4, came |-> b.came + 4, sums |-> b.sums \o all.acc, wild |-> all.wild]
  BY Zenon DEF F!FourOutputs, FourIn, FirstRegisters, Fours, AllTaps
<1>2. b.p + 3 < room
  <2>1. \A p \in Nat : p + taps + 3 < room => p + 3 < room
    OBVIOUS
  <2>2. QED
    BY <2>1, Zenon
<1> HIDE DEF s
<1>3. s \in [0 .. room - 1 -> Nat]
  BY Zenon DEF s
<1>4. first = Registers(s, b.p, 0)
  BY <1>2, <1>3, FirstAre, Zenon
<1> DEFINE zero == Registers(s, b.p, 0)
<1> HIDE DEF first, zero
<1>5. /\ \E f : Fours(f, s, b.p, zero, taps)
      /\ \A f : Fours(f, s, b.p, zero, taps) =>
              SumsDone(AllTaps(f, b.p, taps), s, b.p, taps)
  BY <1>3, FoursMore, Zenon DEF zero
<1>6. first = zero
  BY <1>4, Zenon DEF zero
<1>7. Fours(fours, s, b.p, first, taps)
  BY <1>5, <1>6, Zenon
<1> HIDE DEF fours
<1>8. all.acc = FourSums(s, b.p, taps) /\ all.wild = FALSE
  BY <1>5, <1>6, <1>7, Zenon DEF SumsDone
<1>9. QED
  BY <1>1, <1>8, Zenon DEF s, Filtered

\* An array with the next n samples, numbered from the next.
Came(s, at, number, n) == [i \in DOMAIN s |-> IF i \in at .. at + n - 1 THEN number + 1 + (i - at) ELSE s[i]]

CameIs(a, room, s, at, number, n) ==
  /\ a \in [0 .. room - 1 -> Nat]
  /\ \A i \in 0 .. room - 1 : a[i] = IF i \in at .. at + n - 1 THEN number + 1 + (i - at) ELSE s[i]

LEMMA CameTypes ==
  ASSUME NEW room \in Nat, NEW s \in [0 .. room - 1 -> Nat], NEW at \in Nat, NEW number \in Nat, NEW n \in Nat
  PROVE  CameIs(Came(s, at, number, n), room, s, at, number, n)
<1>1. DOMAIN s = 0 .. room - 1
  OBVIOUS
<1>2. Came(s, at, number, n) = [i \in 0 .. room - 1 |-> IF i \in at .. at + n - 1 THEN number + 1 + (i - at) ELSE s[i]]
  BY <1>1, Zenon DEF Came
<1>3. \A i \in 0 .. room - 1 : (IF i \in at .. at + n - 1 THEN number + 1 + (i - at) ELSE s[i]) \in Nat
  OBVIOUS
<1>4. QED
  BY <1>2, <1>3 DEF CameIs

LEMMA FourCame ==
  ASSUME NEW room \in Nat, NEW s \in [0 .. room - 1 -> Nat], NEW at \in Nat, NEW number \in Nat, NEW n \in Nat
  PROVE  FourIn(Came(s, at, number, n), at + n, number + n) = Came(s, at, number, n + 4)
<1> DEFINE a == Came(s, at, number, n)
           b == Came(s, at, number, n + 4)
           c == Came(a, at + n, number + n, 4)
<1>1. CameIs(a, room, s, at, number, n) /\ CameIs(b, room, s, at, number, n + 4)
  BY CameTypes
<1> HIDE DEF a, b
<1>2. CameIs(c, room, a, at + n, number + n, 4)
  <2>1. at + n \in Nat /\ number + n \in Nat /\ a \in [0 .. room - 1 -> Nat]
    BY <1>1 DEF CameIs
  <2>2. QED
    BY <2>1, CameTypes
<1>3. (at + n) + 4 - 1 = (at + n) + 3
  OBVIOUS
<1>4. FourIn(a, at + n, number + n) = c
  BY <1>3, Zenon DEF FourIn, Came
<1> HIDE DEF c
<1>5. \A i \in 0 .. room - 1 : c[i] = b[i]
  BY <1>1, <1>2 DEF CameIs
<1>6. c = b
  BY <1>1, <1>2, <1>5 DEF CameIs
<1>7. QED
  BY <1>4, <1>6, Zenon DEF a, b

OneMore(s, at, number, n) == F!Into(Came(s, at, number, n), at + n, number + n + 1) = Came(s, at, number, n + 1)

LEMMA OneCame ==
  ASSUME NEW room \in Nat, NEW s \in [0 .. room - 1 -> Nat], NEW at \in Nat, NEW number \in Nat, NEW n \in Nat,
         at + n < room
  PROVE  OneMore(s, at, number, n)
<1> DEFINE a == Came(s, at, number, n)
           b == Came(s, at, number, n + 1)
           c == F!Into(a, at + n, number + n + 1)
<1>1. CameIs(a, room, s, at, number, n) /\ CameIs(b, room, s, at, number, n + 1)
  BY CameTypes
<1> HIDE DEF a, b
<1>2. /\ c \in [0 .. room - 1 -> Nat]
      /\ \A i \in 0 .. room - 1 : c[i] = IF i = at + n THEN number + n + 1 ELSE a[i]
  BY <1>1 DEF F!Into, CameIs
<1> HIDE DEF c
<1>3. ASSUME NEW i \in 0 .. room - 1 PROVE c[i] = b[i]
  <2>1. CASE i = at + n
    <3>1. c[i] = number + n + 1 /\ b[i] = number + 1 + (i - at)
      BY <1>1, <1>2, <2>1 DEF CameIs
    <3>2. QED
      BY <2>1, <3>1
  <2>2. CASE i # at + n
    <3>1. c[i] = a[i] /\ (i \in at .. at + n - 1 <=> i \in at .. at + (n + 1) - 1)
      BY <1>2, <2>2
    <3>2. QED
      BY <1>1, <3>1, Zenon DEF CameIs
  <2>3. QED
    BY <2>1, <2>2
<1>4. c = b
  BY <1>1, <1>2, <1>3 DEF CameIs
<1>5. QED
  BY <1>4, Zenon DEF OneMore, a, b, c

\* What is kept before sample number + 1 comes: the samples that reach back with it.
Kept(s, number, reach) == \A i \in 0 .. reach - 2 : s[i] = F!Sample(number - reach + 2 + i)

LEMMA CameAre ==
  ASSUME NEW room \in Nat, NEW s \in [0 .. room - 1 -> Nat], NEW reach \in Nat \ {0}, NEW number \in Nat,
         NEW n \in Nat, reach - 1 + n <= room, Kept(s, number, reach)
  PROVE  \A i \in 0 .. reach - 2 + n : Came(s, reach - 1, number, n)[i] = F!Sample(number - reach + 2 + i)
<1> DEFINE a == Came(s, reach - 1, number, n)
<1>1. CameIs(a, room, s, reach - 1, number, n)
  BY CameTypes
<1> HIDE DEF a
<1>2. ASSUME NEW i \in 0 .. reach - 2 + n PROVE a[i] = F!Sample(number - reach + 2 + i)
  <2>1. i \in 0 .. room - 1
    OBVIOUS
  <2>2. CASE i >= reach - 1
    <3>1. a[i] = number - reach + 2 + i /\ ~(number - reach + 2 + i < 1)
      BY <1>1, <2>1, <2>2 DEF CameIs
    <3>2. QED
      BY <3>1, Zenon DEF F!Sample
  <2>3. CASE i < reach - 1
    <3>1. i \in 0 .. reach - 2 /\ ~(i \in reach - 1 .. (reach - 1) + n - 1)
      BY <2>3
    <3>2. QED
      BY <1>1, <2>1, <3>1, Zenon DEF Kept, CameIs
  <2>4. QED
    BY <2>2, <2>3
<1>3. QED
  BY <1>2, Zenon DEF a

\* arm_fir_fast_q15(): output n of the whole signal, and the outputs of a block.
FirSum(n, taps) == [k \in 1 .. taps |-> <<k - 1, F!Sample(n - taps + k)>>]
FirSums(number, taps, n) == [m \in 1 .. n |-> FirSum(number + m, taps)]

LEMMA ProductsAreSum ==
  ASSUME NEW room \in Nat, NEW s \in [0 .. room - 1 -> Nat], NEW taps \in Nat \ {0}, NEW number \in Nat,
         NEW n \in Nat, taps - 1 + n <= room, Kept(s, number, taps), NEW at \in Nat, at < n
  PROVE  Products(Came(s, taps - 1, number, n), at, taps) = FirSum(number + (at + 1), taps)
<1> DEFINE a == Came(s, taps - 1, number, n)
<1>1. \A i \in 0 .. taps - 2 + n : a[i] = F!Sample(number - taps + 2 + i)
  BY CameAre
<1> HIDE DEF a
<1>2. ASSUME NEW k \in 1 .. taps PROVE a[at + k - 1] = F!Sample((number + (at + 1)) - taps + k)
  <2>1. at + k - 1 \in 0 .. taps - 2 + n /\ number - taps + 2 + (at + k - 1) = (number + (at + 1)) - taps + k
    OBVIOUS
  <2>2. QED
    BY <1>1, <2>1, Zenon
<1>3. ASSUME NEW k \in 1 .. taps
      PROVE  <<k - 1, a[at + k - 1]>> = <<k - 1, F!Sample((number + (at + 1)) - taps + k)>>
  BY <1>2, Zenon
<1>4. Products(a, at, taps) = FirSum(number + (at + 1), taps)
  BY <1>3, Zenon DEF Products, FirSum
<1>5. QED
  BY <1>4, Zenon DEF a

FirAfter(s, number, taps, n) ==
  Filtered(Came(s, taps - 1, number, n), n, number + n, FirSums(number, taps, n))

\* Outputs one after the other.
LEMMA MoreOutputs ==
  ASSUME NEW a, NEW n \in Nat, NEW m \in Nat, a = [i \in 1 .. n + m |-> a[i]]
  PROVE  [i \in 1 .. n |-> a[i]] \o [i \in 1 .. m |-> a[n + i]] = a
<1> DEFINE S == {a[i] : i \in 1 .. n + m}
           b == [i \in 1 .. n |-> a[i]]
           c == [i \in 1 .. m |-> a[n + i]]
<1>1. \A i \in 1 .. n + m : a[i] \in S
  OBVIOUS
<1> HIDE DEF S
<1>2. b \in Seq(S) /\ Len(b) = n /\ c \in Seq(S) /\ Len(c) = m /\ a \in Seq(S) /\ Len(a) = n + m
  <2>1. \A i \in 1 .. n : i \in 1 .. n + m
    OBVIOUS
  <2>2. b \in [1 .. n -> S]
    BY <1>1, <2>1, Zenon
  <2>3. \A i \in 1 .. m : n + i \in 1 .. n + m
    OBVIOUS
  <2>4. c \in [1 .. m -> S]
    BY <1>1, <2>3, Zenon
  <2>5. a \in [1 .. n + m -> S]
    BY <1>1, Zenon
  <2> HIDE DEF b, c
  <2>6. QED
    BY <2>2, <2>4, <2>5
<1>3. (\A i \in 1 .. n : b[i] = a[i]) /\ \A i \in 1 .. m : c[i] = a[n + i]
  BY Zenon
<1> HIDE DEF b, c
<1>4. b \in Seq(S) /\ c \in Seq(S)
  BY <1>2
<1>5. /\ b \o c \in Seq(S) /\ Len(b \o c) = Len(b) + Len(c)
      /\ \A i \in 1 .. Len(b) + Len(c) : (b \o c)[i] = IF i <= Len(b) THEN b[i] ELSE c[i - Len(b)]
  BY <1>4, ConcatProperties
<1>6. ASSUME NEW i \in 1 .. n + m PROVE (b \o c)[i] = a[i]
  <2>1. (b \o c)[i] = IF i <= n THEN b[i] ELSE c[i - n]
    BY <1>2, <1>5, Zenon
  <2>2. CASE i <= n
    <3>1. i \in 1 .. n
      BY <2>2
    <3>2. QED
      BY <1>3, <2>1, <2>2, <3>1, Zenon
  <2>3. CASE ~(i <= n)
    <3>1. i - n \in 1 .. m /\ n + (i - n) = i
      BY <2>3
    <3>2. QED
      BY <1>3, <2>1, <2>3, <3>1, Zenon
  <2>4. QED
    BY <2>2, <2>3
<1>7. b \o c = a
  BY <1>2, <1>5, <1>6, SeqEqual
<1>8. QED
  BY <1>7 DEF b, c

LEMMA FourSumsMore ==
  ASSUME NEW number, NEW taps, NEW n \in Nat
  PROVE  FirSums(number, taps, n) \o
           <<FirSum(number + (n + 1), taps), FirSum(number + (n + 2), taps),
             FirSum(number + (n + 3), taps), FirSum(number + (n + 4), taps)>> = FirSums(number, taps, n + 4)
<1> DEFINE a == FirSums(number, taps, n + 4)
<1>1. \A m \in 1 .. n + 4 : a[m] = FirSum(number + m, taps)
  BY Zenon DEF FirSums
<1>2. a = [m \in 1 .. n + 4 |-> a[m]]
  BY Zenon DEF FirSums
<1> HIDE DEF a
<1>3. [m \in 1 .. n |-> a[m]] \o [m \in 1 .. 4 |-> a[n + m]] = a
  BY <1>2, MoreOutputs
<1>4. [m \in 1 .. n |-> a[m]] = FirSums(number, taps, n)
  <2>1. \A m \in 1 .. n : a[m] = FirSum(number + m, taps)
    BY <1>1
  <2>2. QED
    BY <2>1, Zenon DEF FirSums
<1>5. [m \in 1 .. 4 |-> a[n + m]] = <<a[n + 1], a[n + 2], a[n + 3], a[n + 4]>>
  OBVIOUS
<1>6. /\ a[n + 1] = FirSum(number + (n + 1), taps) /\ a[n + 2] = FirSum(number + (n + 2), taps)
      /\ a[n + 3] = FirSum(number + (n + 3), taps) /\ a[n + 4] = FirSum(number + (n + 4), taps)
  <2>1. n + 1 \in 1 .. n + 4 /\ n + 2 \in 1 .. n + 4 /\ n + 3 \in 1 .. n + 4 /\ n + 4 \in 1 .. n + 4
    OBVIOUS
  <2>2. QED
    BY <1>1, <2>1, Zenon
<1>7. QED
  BY <1>3, <1>4, <1>5, <1>6, Zenon DEF a

\* One output more.
LEMMA OutputMore ==
  ASSUME NEW a, NEW n \in Nat, a = [i \in 1 .. n + 1 |-> a[i]]
  PROVE  Append([i \in 1 .. n |-> a[i]], a[n + 1]) = a
<1> DEFINE S == {a[m] : m \in 1 .. n + 1}
           b == [i \in 1 .. n |-> a[i]]
           x == a[n + 1]
<1>1. \A m \in 1 .. n + 1 : a[m] \in S
  OBVIOUS
<1>2. \A m \in 1 .. n : m \in 1 .. n + 1
  OBVIOUS
<1>3. n + 1 \in 1 .. n + 1
  OBVIOUS
<1> HIDE DEF S
<1>4. b \in [1 .. n -> S] /\ (\A m \in 1 .. n : b[m] = a[m]) /\ x \in S
  BY <1>1, <1>2, <1>3, Zenon
<1>5. a \in [1 .. n + 1 -> S]
  BY <1>1, Zenon
<1> HIDE DEF b
<1>6. b \in Seq(S) /\ Len(b) = n /\ a \in Seq(S) /\ Len(a) = n + 1
  BY <1>4, <1>5
<1>7. Append(b, x) \in Seq(S) /\ Len(Append(b, x)) = n + 1
  BY <1>4, <1>6
<1>8. ASSUME NEW m \in 1 .. n + 1 PROVE Append(b, x)[m] = a[m]
  <2>1. x = a[n + 1]
    OBVIOUS
  <2> HIDE DEF x
  <2>2. QED
    BY <1>4, <1>6, <2>1
<1>9. QED
  BY <1>6, <1>7, <1>8, SeqEqual DEF b

LEMMA OneSumMore ==
  ASSUME NEW number, NEW taps, NEW n \in Nat
  PROVE  Append(FirSums(number, taps, n), FirSum(number + (n + 1), taps)) = FirSums(number, taps, n + 1)
<1> DEFINE a == FirSums(number, taps, n + 1)
<1>1. n + 1 \in 1 .. n + 1 /\ \A m \in 1 .. n : m \in 1 .. n + 1
  OBVIOUS
<1>2. a = [m \in 1 .. n + 1 |-> a[m]] /\ \A m \in 1 .. n + 1 : a[m] = FirSum(number + m, taps)
  BY Zenon DEF FirSums
<1> HIDE DEF a
<1>3. FirSums(number, taps, n) = [m \in 1 .. n |-> a[m]] /\ a[n + 1] = FirSum(number + (n + 1), taps)
  BY <1>1, <1>2, Zenon DEF FirSums
<1>4. Append([m \in 1 .. n |-> a[m]], a[n + 1]) = a
  BY <1>2, OutputMore, Zenon
<1>5. QED
  BY <1>3, <1>4, Zenon DEF a

LEMMA FourAfter ==
  ASSUME NEW room \in Nat, NEW s \in [0 .. room - 1 -> Nat], NEW taps \in Nat \ {0}, taps % 2 = 0,
         NEW number \in Nat, NEW n \in Nat, taps + (n + 4) <= room, Kept(s, number, taps)
  PROVE  F!FourOutputs(FirAfter(s, number, taps, n), taps) = FirAfter(s, number, taps, n + 4)
<1> DEFINE b == FirAfter(s, number, taps, n)
           a == Came(s, taps - 1, number, n + 4)
<1>1. /\ b.s = Came(s, taps - 1, number, n) /\ b.p = n /\ b.came = number + n
      /\ b.sums = FirSums(number, taps, n) /\ b.wild = FALSE
  BY Zenon DEF FirAfter, Filtered
<1>2. taps - 1 \in Nat /\ n + taps - 1 = (taps - 1) + n /\ n + taps + 3 < room /\ taps - 1 + (n + 4) <= room
  OBVIOUS
<1>3. FourIn(b.s, n + taps - 1, b.came) = a
  <2>1. FourIn(Came(s, taps - 1, number, n), (taps - 1) + n, number + n) = a
    <3>1. taps - 1 \in Nat
      OBVIOUS
    <3>2. QED
      BY <3>1, FourCame, Zenon
  <2>2. QED
    BY <1>1, <1>2, <2>1, Zenon
<1>4. a \in [0 .. room - 1 -> Nat]
  <2>1. n + 4 \in Nat
    OBVIOUS
  <2>2. CameIs(a, room, s, taps - 1, number, n + 4)
    BY <1>2, <2>1, CameTypes, Zenon
  <2>3. QED
    BY <2>2, Zenon DEF CameIs
<1> HIDE DEF b
<1>5. F!FourOutputs(b, taps) = Filtered(a, n + 4, b.came + 4, b.sums \o FourSums(a, n, taps))
  <2>1. FourIn(b.s, n + taps - 1, b.came) \in [0 .. room - 1 -> Nat]
    BY <1>3, <1>4, Zenon
  <2>2. F!FourOutputs(b, taps) =
           Filtered(FourIn(b.s, n + taps - 1, b.came), n + 4, b.came + 4,
                    b.sums \o FourSums(FourIn(b.s, n + taps - 1, b.came), n, taps))
    <3>1. b.p = n /\ b.wild = FALSE
      BY <1>1, Zenon
    <3>2. n + taps + 3 < room
      OBVIOUS
    <3>3. b.p \in Nat /\ b.p + taps + 3 < room /\ FourIn(b.s, b.p + taps - 1, b.came) \in [0 .. room - 1 -> Nat]
      BY <2>1, <3>1, <3>2, Zenon
    <3>4. F!FourOutputs(b, taps) =
            Filtered(FourIn(b.s, b.p + taps - 1, b.came), b.p + 4, b.came + 4,
                     b.sums \o FourSums(FourIn(b.s, b.p + taps - 1, b.came), b.p, taps))
      BY <3>1, <3>3, FourOutputsAre, Zenon
    <3>5. QED
      BY <3>1, <3>4, Zenon
  <2>3. QED
    BY <1>3, <2>2, Zenon
<1>6. ASSUME NEW at \in Nat, at < n + 4
      PROVE  Products(a, at, taps) = FirSum(number + (at + 1), taps)
  <2>1. n + 4 \in Nat
    OBVIOUS
  <2>2. QED
    BY <1>2, <1>6, <2>1, ProductsAreSum, SMTT(30)
<1> HIDE DEF a
<1>7. FourSums(a, n, taps) =
        <<FirSum(number + (n + 1), taps), FirSum(number + (n + 2), taps),
          FirSum(number + (n + 3), taps), FirSum(number + (n + 4), taps)>>
  <2>1. /\ n + 1 \in Nat /\ n + 2 \in Nat /\ n + 3 \in Nat
        /\ n < n + 4 /\ n + 1 < n + 4 /\ n + 2 < n + 4 /\ n + 3 < n + 4
        /\ (n + 1) + 1 = n + 2 /\ (n + 2) + 1 = n + 3 /\ (n + 3) + 1 = n + 4
    OBVIOUS
  <2>2. QED
    BY <1>6, <2>1, Zenon DEF FourSums
<1>8. b.sums \o FourSums(a, n, taps) = FirSums(number, taps, n + 4)
  BY <1>1, <1>7, FourSumsMore, Zenon
<1>9. b.came + 4 = number + (n + 4)
  BY <1>1
<1>10. QED
  BY <1>5, <1>8, <1>9, Zenon DEF FirAfter, a, b

LEMMA OneAfter ==
  ASSUME NEW room \in Nat, NEW s \in [0 .. room - 1 -> Nat], NEW taps \in Nat \ {0}, taps % 2 = 0,
         NEW number \in Nat, NEW n \in Nat, taps + n <= room, Kept(s, number, taps)
  PROVE  F!OneOutput(FirAfter(s, number, taps, n), taps) = FirAfter(s, number, taps, n + 1)
<1> DEFINE b == FirAfter(s, number, taps, n)
           a == Came(s, taps - 1, number, n + 1)
           sum == [k \in 1 .. 2 * (taps \div 2) |-> <<k - 1, F!Cell(a, n + k - 1)>>]
<1>1. /\ b.s = Came(s, taps - 1, number, n) /\ b.p = n /\ b.came = number + n
      /\ b.sums = FirSums(number, taps, n) /\ b.wild = FALSE
  BY Zenon DEF FirAfter, Filtered
<1>2. taps - 1 \in Nat /\ n + taps - 1 = (taps - 1) + n /\ (taps - 1) + n < room /\ taps - 1 + (n + 1) <= room
  OBVIOUS
<1>3. F!Into(b.s, n + taps - 1, b.came + 1) = a
  <2>1. F!Into(Came(s, taps - 1, number, n), (taps - 1) + n, number + n + 1) = a
    <3>1. taps - 1 \in Nat
      OBVIOUS
    <3>2. (taps - 1) + n < room
      OBVIOUS
    <3>3. OneMore(s, taps - 1, number, n)
      BY <3>1, <3>2, OneCame, Zenon
    <3>4. QED
      BY <3>3, Zenon DEF OneMore
  <2>2. QED
    BY <1>1, <1>2, <2>1, Zenon
<1>4. a \in [0 .. room - 1 -> Nat]
  <2>1. n + 1 \in Nat
    OBVIOUS
  <2>2. CameIs(a, room, s, taps - 1, number, n + 1)
    BY <1>2, <2>1, CameTypes, Zenon
  <2>3. QED
    BY <2>2, Zenon DEF CameIs
<1>5. Products(a, n, taps) = FirSum(number + (n + 1), taps)
  <2>1. n + 1 \in Nat /\ n < n + 1
    OBVIOUS
  <2>2. QED
    BY <1>2, <2>1, ProductsAreSum, SMTT(30)
<1> HIDE DEF a, b
<1>6. sum = Products(a, n, taps)
  <2>1. 2 * (taps \div 2) = taps
    OBVIOUS
  <2>2. ASSUME NEW k \in 1 .. taps PROVE F!Cell(a, n + k - 1) = a[n + k - 1]
    <3>1. n + k - 1 \in DOMAIN a
      BY <1>2, <1>4
    <3>2. QED
      BY <3>1, Zenon DEF F!Cell
  <2>3. sum = [k \in 1 .. taps |-> <<k - 1, F!Cell(a, n + k - 1)>>]
    BY <2>1, Zenon
  <2>4. QED
    BY <2>2, <2>3, Zenon DEF Products
<1>7. F!OneOutput(b, taps) =
        [s |-> a, p |-> n + 1, came |-> b.came + 1, sums |-> Append(b.sums, sum), wild |-> b.wild]
  BY <1>1, <1>3, Zenon DEF F!OneOutput
<1>8. Append(b.sums, sum) = FirSums(number, taps, n + 1)
  <2>1. Append(FirSums(number, taps, n), FirSum(number + (n + 1), taps)) = FirSums(number, taps, n + 1)
    BY OneSumMore
  <2>2. QED
    BY <1>1, <1>5, <1>6, <2>1, Zenon
<1>9. b.came + 1 = number + (n + 1)
  BY <1>1
<1> HIDE DEF sum
<1>10. QED
  BY <1>1, <1>7, <1>8, <1>9, Zenon DEF FirAfter, Filtered, a, b

\* The outputs of a block by fours, and those left one by one.
ByFours(f, first, n, taps) == f = [i \in 0 .. n |-> IF i = 0 THEN first ELSE F!FourOutputs(f[i - 1], taps)]
ByOnes(f, first, n, taps) == f = [i \in 0 .. n |-> IF i = 0 THEN first ELSE F!OneOutput(f[i - 1], taps)]

FoursTo(first, n, taps, end) ==
  (\E f : ByFours(f, first, n, taps)) /\ \A f : ByFours(f, first, n, taps) => f[n] = end
OnesTo(first, n, taps, end) ==
  (\E f : ByOnes(f, first, n, taps)) /\ \A f : ByOnes(f, first, n, taps) => f[n] = end

LEMMA FoursAre ==
  ASSUME NEW room \in Nat, NEW s \in [0 .. room - 1 -> Nat], NEW taps \in Nat \ {0}, taps % 2 = 0,
         NEW number \in Nat, NEW n \in Nat, taps + 4 * n <= room, Kept(s, number, taps)
  PROVE  FoursTo(FirAfter(s, number, taps, 0), n, taps, FirAfter(s, number, taps, 4 * n))
<1> DEFINE first == FirAfter(s, number, taps, 0)
           closed == [i \in 0 .. n |-> FirAfter(s, number, taps, 4 * i)]
<1>1. ASSUME NEW i \in 1 .. n
      PROVE  F!FourOutputs(FirAfter(s, number, taps, 4 * (i - 1)), taps) = FirAfter(s, number, taps, 4 * i)
  <2>1. PICK k \in Nat : k = 4 * (i - 1)
    OBVIOUS
  <2>2. taps + (k + 4) <= room
    BY <2>1
  <2>3. 4 * i = k + 4
    BY <2>1
  <2>4. F!FourOutputs(FirAfter(s, number, taps, k), taps) = FirAfter(s, number, taps, k + 4)
    <3>1. \A j \in Nat : taps + (j + 4) <= room =>
            F!FourOutputs(FirAfter(s, number, taps, j), taps) = FirAfter(s, number, taps, j + 4)
      BY FourAfter
    <3>2. QED
      BY <2>1, <2>2, <3>1, Zenon
  <2>5. QED
    BY <2>1, <2>3, <2>4, Zenon
<1>2. closed[0] = first /\ \A i \in 1 .. n :
        closed[i] = FirAfter(s, number, taps, 4 * i) /\ closed[i - 1] = FirAfter(s, number, taps, 4 * (i - 1))
  <2>1. 0 \in 0 .. n /\ 4 * 0 = 0 /\ \A i \in 1 .. n : i \in 0 .. n /\ i - 1 \in 0 .. n
    OBVIOUS
  <2>2. QED
    BY <2>1, Zenon
<1>3. closed[n] = FirAfter(s, number, taps, 4 * n)
  OBVIOUS
<1> HIDE DEF first
<1>4. ByFours(closed, first, n, taps)
  <2>1. \A i \in 0 .. n : i = 0 \/ i \in 1 .. n
    OBVIOUS
  <2>2. ASSUME NEW i \in 0 .. n PROVE closed[i] = IF i = 0 THEN first ELSE F!FourOutputs(closed[i - 1], taps)
    BY <1>1, <1>2, <2>1, Zenon
  <2>3. closed = [i \in 0 .. n |-> closed[i]]
    BY Zenon
  <2> HIDE DEF closed
  <2>4. QED
    BY <2>2, <2>3, Zenon DEF ByFours
<1> HIDE DEF closed
<1>5. ASSUME NEW f, ByFours(f, first, n, taps)
      PROVE  f[0] = first /\ \A i \in 1 .. n : f[i] = F!FourOutputs(f[i - 1], taps)
  <2>1. 0 \in 0 .. n /\ \A i \in 1 .. n : i \in 0 .. n /\ i # 0
    OBVIOUS
  <2>2. QED
    BY <1>5, <2>1, Zenon DEF ByFours
<1>6. ASSUME NEW f, ByFours(f, first, n, taps) PROVE f[n] = FirAfter(s, number, taps, 4 * n)
  <2>1. f[0] = closed[0] /\ \A i \in 1 .. n : f[i - 1] = closed[i - 1] => f[i] = closed[i]
    BY <1>4, <1>5, <1>6, Zenon
  <2>2. QED
    BY <1>3, <2>1, SameRuns, Zenon
<1>7. QED
  BY <1>4, <1>6, Zenon DEF FoursTo, first

LEMMA OnesAre ==
  ASSUME NEW room \in Nat, NEW s \in [0 .. room - 1 -> Nat], NEW taps \in Nat \ {0}, taps % 2 = 0,
         NEW number \in Nat, NEW m \in Nat, NEW n \in Nat, taps + m + n <= room, Kept(s, number, taps)
  PROVE  OnesTo(FirAfter(s, number, taps, m), n, taps, FirAfter(s, number, taps, m + n))
<1> DEFINE first == FirAfter(s, number, taps, m)
           closed == [i \in 0 .. n |-> FirAfter(s, number, taps, m + i)]
<1>1. ASSUME NEW i \in 1 .. n
      PROVE  F!OneOutput(FirAfter(s, number, taps, m + (i - 1)), taps) = FirAfter(s, number, taps, m + i)
  <2>1. PICK k \in Nat : k = m + (i - 1)
    OBVIOUS
  <2>2. taps + k <= room
    BY <2>1
  <2>3. m + i = k + 1
    BY <2>1
  <2>4. F!OneOutput(FirAfter(s, number, taps, k), taps) = FirAfter(s, number, taps, k + 1)
    <3>1. \A j \in Nat : taps + j <= room =>
            F!OneOutput(FirAfter(s, number, taps, j), taps) = FirAfter(s, number, taps, j + 1)
      BY OneAfter
    <3>2. QED
      BY <2>1, <2>2, <3>1, Zenon
  <2>5. QED
    BY <2>1, <2>3, <2>4, Zenon
<1>2. closed[0] = first /\ \A i \in 1 .. n :
        closed[i] = FirAfter(s, number, taps, m + i) /\ closed[i - 1] = FirAfter(s, number, taps, m + (i - 1))
  <2>1. 0 \in 0 .. n /\ m + 0 = m /\ \A i \in 1 .. n : i \in 0 .. n /\ i - 1 \in 0 .. n
    OBVIOUS
  <2>2. QED
    BY <2>1, Zenon
<1>3. closed[n] = FirAfter(s, number, taps, m + n)
  OBVIOUS
<1> HIDE DEF first
<1>4. ByOnes(closed, first, n, taps)
  <2>1. \A i \in 0 .. n : i = 0 \/ i \in 1 .. n
    OBVIOUS
  <2>2. ASSUME NEW i \in 0 .. n PROVE closed[i] = IF i = 0 THEN first ELSE F!OneOutput(closed[i - 1], taps)
    BY <1>1, <1>2, <2>1, Zenon
  <2>3. closed = [i \in 0 .. n |-> closed[i]]
    BY Zenon
  <2> HIDE DEF closed
  <2>4. QED
    BY <2>2, <2>3, Zenon DEF ByOnes
<1> HIDE DEF closed
<1>5. ASSUME NEW f, ByOnes(f, first, n, taps)
      PROVE  f[0] = first /\ \A i \in 1 .. n : f[i] = F!OneOutput(f[i - 1], taps)
  <2>1. 0 \in 0 .. n /\ \A i \in 1 .. n : i \in 0 .. n /\ i # 0
    OBVIOUS
  <2>2. QED
    BY <1>5, <2>1, Zenon DEF ByOnes
<1>6. ASSUME NEW f, ByOnes(f, first, n, taps) PROVE f[n] = FirAfter(s, number, taps, m + n)
  <2>1. f[0] = closed[0] /\ \A i \in 1 .. n : f[i - 1] = closed[i - 1] => f[i] = closed[i]
    BY <1>4, <1>5, <1>6, Zenon
  <2>2. QED
    BY <1>3, <2>1, SameRuns, Zenon
<1>7. QED
  BY <1>4, <1>6, Zenon DEF OnesTo, first

\* What a filter keeps of a block is what it needs for the next.
LEMMA CarriedOn ==
  ASSUME NEW room \in Nat, NEW s \in [0 .. room - 1 -> Nat], NEW reach \in Nat \ {0}, NEW number \in Nat,
         NEW n \in Nat, reach - 1 + n <= room, Kept(s, number, reach)
  PROVE  /\ F!Carried(Came(s, reach - 1, number, n), n, reach - 1) \in [0 .. room - 1 -> Nat]
         /\ Kept(F!Carried(Came(s, reach - 1, number, n), n, reach - 1), number + n, reach)
<1> DEFINE a == Came(s, reach - 1, number, n)
           c == F!Carried(a, n, reach - 1)
<1>1. a \in [0 .. room - 1 -> Nat]
  <2>1. reach - 1 \in Nat
    OBVIOUS
  <2>2. CameIs(a, room, s, reach - 1, number, n)
    BY <2>1, CameTypes, Zenon
  <2>3. QED
    BY <2>2, Zenon DEF CameIs
<1>2. \A i \in 0 .. reach - 2 + n : a[i] = F!Sample(number - reach + 2 + i)
  BY CameAre, SMTT(30)
<1> HIDE DEF a
<1>3. ASSUME NEW i \in 0 .. room - 1
      PROVE  c[i] \in Nat /\ (i < reach - 1 => c[i] = a[n + i])
  <2>1. c[i] = IF i < reach - 1 THEN F!Cell(a, n + i) ELSE a[i]
    BY <1>1, Zenon DEF F!Carried
  <2>2. CASE i < reach - 1
    <3>1. n + i \in 0 .. room - 1
      BY <2>2
    <3>2. F!Cell(a, n + i) = a[n + i]
      BY <1>1, <3>1, Zenon DEF F!Cell
    <3>3. a[n + i] \in Nat
      BY <1>1, <3>1, Zenon
    <3>4. QED
      BY <2>1, <2>2, <3>2, <3>3, Zenon
  <2>3. CASE ~(i < reach - 1)
    BY <1>1, <2>1, <2>3, Zenon
  <2>4. QED
    BY <2>2, <2>3
<1>4. c = [i \in 0 .. room - 1 |-> c[i]]
  <2>1. DOMAIN a = 0 .. room - 1
    BY <1>1
  <2>2. QED
    BY <2>1, Zenon DEF F!Carried
<1> HIDE DEF c
<1>5. c \in [0 .. room - 1 -> Nat]
  BY <1>3, <1>4, Zenon
<1>6. ASSUME NEW i \in 0 .. reach - 2 PROVE c[i] = F!Sample((number + n) - reach + 2 + i)
  <2>1. i \in 0 .. room - 1 /\ i < reach - 1 /\ n + i \in 0 .. reach - 2 + n
    OBVIOUS
  <2>2. number - reach + 2 + (n + i) = (number + n) - reach + 2 + i
    OBVIOUS
  <2>3. QED
    BY <1>2, <1>3, <2>1, <2>2, Zenon
<1>7. Kept(c, number + n, reach)
  BY <1>6, Zenon DEF Kept
<1>8. QED
  BY <1>5, <1>7, Zenon DEF c, a

\* The sum of an output is the convolution, each product once.
LEMMA FirIsWhole ==
  ASSUME NEW n \in Nat, NEW taps \in Nat \ {0}
  PROVE  F!Has(FirSum(n, taps), F!Convolution(taps, n))
<1> DEFINE sum == FirSum(n, taps)
<1>1. DOMAIN sum = 1 .. taps /\ \A k \in 1 .. taps : sum[k] = <<k - 1, F!Sample(n - taps + k)>>
  BY Zenon DEF FirSum
<1> HIDE DEF sum
<1>2. ASSUME NEW k \in 1 .. taps PROVE k - 1 \in 0 .. taps - 1 /\ n - taps + 1 + (k - 1) = n - taps + k
  OBVIOUS
<1>3. ASSUME NEW k \in 0 .. taps - 1
      PROVE  k + 1 \in 1 .. taps /\ (k + 1) - 1 = k /\ n - taps + 1 + k = n - taps + (k + 1)
  OBVIOUS
<1>4. ASSUME NEW p \in F!ToSet(sum) PROVE p \in F!Convolution(taps, n)
  <2>1. PICK k \in 1 .. taps : p = <<k - 1, F!Sample(n - taps + k)>>
    BY <1>1, Zenon DEF F!ToSet
  <2>2. p = <<k - 1, F!Sample(n - taps + 1 + (k - 1))>>
    BY <1>2, <2>1, Zenon
  <2>3. QED
    BY <1>2, <2>2, Zenon DEF F!Convolution
<1>5. ASSUME NEW p \in F!Convolution(taps, n) PROVE p \in F!ToSet(sum)
  <2>1. PICK k \in 0 .. taps - 1 : p = <<k, F!Sample(n - taps + 1 + k)>>
    BY Zenon DEF F!Convolution
  <2>2. p = sum[k + 1]
    BY <1>1, <1>3, <2>1, Zenon
  <2>3. QED
    BY <1>1, <1>3, <2>2, Zenon DEF F!ToSet
<1>6. F!IsInjective(sum)
  <2>1. ASSUME NEW i \in 1 .. taps, NEW j \in 1 .. taps, sum[i] = sum[j] PROVE i = j
    <3>1. <<i - 1, F!Sample(n - taps + i)>> = <<j - 1, F!Sample(n - taps + j)>>
      BY <1>1, <2>1, Zenon
    <3>2. i - 1 = j - 1
      BY ONLY <3>1
    <3>3. QED
      BY <3>2
  <2>2. QED
    BY <1>1, <2>1, Zenon DEF F!IsInjective
<1>7. QED
  BY <1>4, <1>5, <1>6, Zenon DEF F!Has, sum

\* Outputs by fours, and then one by one, are those of the block.
FirRun(fours, ones, first, taps, size) ==
  /\ fours = CHOOSE f : ByFours(f, first, size \div 4, taps)
  /\ ones = CHOOSE f : ByOnes(f, fours[size \div 4], size % 4, taps)

FirReady(room, s, taps, number, size) ==
  /\ {room, number, size} \subseteq Nat /\ taps \in Nat \ {0} /\ taps % 2 = 0 /\ taps + size <= room
  /\ s \in [0 .. room - 1 -> Nat] /\ Kept(s, number, taps)

LEMMA FirRuns ==
  ASSUME NEW room, NEW s, NEW taps, NEW number, NEW size, FirReady(room, s, taps, number, size),
         NEW fours, NEW ones, FirRun(fours, ones, FirAfter(s, number, taps, 0), taps, size)
  PROVE  ones[size % 4] = FirAfter(s, number, taps, size)
<1> /\ room \in Nat /\ s \in [0 .. room - 1 -> Nat] /\ taps \in Nat \ {0} /\ taps % 2 = 0
    /\ number \in Nat /\ size \in Nat /\ taps + size <= room /\ Kept(s, number, taps)
  BY DEF FirReady
<1>1. PICK n \in Nat, m \in Nat : n = size \div 4 /\ m = size % 4 /\ 4 * n + m = size
  OBVIOUS
<1> DEFINE Done(k) == FirAfter(s, number, taps, k)
<1>2. FoursTo(Done(0), n, taps, Done(4 * n))
  <2>1. taps + 4 * n <= room
    BY <1>1
  <2>2. QED
    BY <2>1, FoursAre
<1>3. OnesTo(Done(4 * n), m, taps, Done(4 * n + m))
  <2>1. 4 * n \in Nat /\ taps + (4 * n) + m <= room
    BY <1>1
  <2>2. \A k \in Nat : taps + k + m <= room => OnesTo(Done(k), m, taps, Done(k + m))
    BY OnesAre
  <2>3. QED
    BY <2>1, <2>2, Zenon
<1> HIDE DEF Done
<1>4. fours[n] = Done(4 * n)
  <2>1. ByFours(fours, Done(0), n, taps)
    BY <1>1, <1>2, Zenon DEF FoursTo, FirRun, Done
  <2>2. QED
    BY <1>2, <2>1, Zenon DEF FoursTo
<1>5. ones[m] = Done(size)
  <2>1. ByOnes(ones, Done(4 * n), m, taps)
    BY <1>1, <1>3, <1>4, Zenon DEF OnesTo, FirRun
  <2>2. QED
    BY <1>1, <1>3, <2>1, Zenon DEF OnesTo
<1>6. QED
  BY <1>1, <1>5, Zenon DEF Done

\* Before the first output of a block.
LEMMA FirStart ==
  ASSUME NEW room \in Nat, NEW s \in [0 .. room - 1 -> Nat], NEW taps \in Nat \ {0}, NEW number \in Nat
  PROVE  FirAfter(s, number, taps, 0) = Filtered(s, 0, number, <<>>)
<1> DEFINE a == Came(s, taps - 1, number, 0)
<1>1. CameIs(a, room, s, taps - 1, number, 0)
  <2>1. taps - 1 \in Nat /\ 0 \in Nat
    OBVIOUS
  <2>2. QED
    BY <2>1, CameTypes, Zenon
<1> HIDE DEF a
<1>2. \A i \in 0 .. room - 1 : ~(i \in taps - 1 .. (taps - 1) + 0 - 1)
  OBVIOUS
<1>3. a \in [0 .. room - 1 -> Nat] /\ \A i \in 0 .. room - 1 : a[i] = s[i]
  BY <1>1, <1>2, Zenon DEF CameIs
<1>4. a = s
  BY <1>3
<1>5. FirSums(number, taps, 0) = <<>>
  <2>1. 1 .. 0 = {}
    OBVIOUS
  <2>2. QED
    BY <2>1 DEF FirSums
<1>6. number + 0 = number
  OBVIOUS
<1>7. QED
  BY <1>4, <1>5, <1>6, Zenon DEF FirAfter, Filtered, a

\* A block by fours and ones gives its outputs, and keeps the end of the array.
LEMMA FirBlock ==
  ASSUME NEW room, NEW size, FirReady(room, pState, filter.taps, came, size), wild = FALSE, F!FirFast(size)
  PROVE  /\ pState' = F!Carried(Came(pState, filter.taps - 1, came, size), size, filter.taps - 1)
         /\ sums' = FirSums(came, filter.taps, size) /\ wild' = FALSE
<1> DEFINE taps == filter.taps
           n == size \div 4
           m == size % 4
           fours == CHOOSE f : ByFours(f, F!Begin, n, taps)
           ones == CHOOSE f : ByOnes(f, fours[n], m, taps)
<1>1. /\ pState' = F!Carried(ones[m].s, ones[m].p, taps - 1)
      /\ sums' = ones[m].sums /\ wild' = ones[m].wild
  BY Zenon DEF F!FirFast, ByFours, ByOnes
<1>2. F!Begin = FirAfter(pState, came, taps, 0)
  <2>1. F!Begin = Filtered(pState, 0, came, <<>>)
    BY Zenon DEF F!Begin, Filtered
  <2>2. room \in Nat /\ pState \in [0 .. room - 1 -> Nat] /\ taps \in Nat \ {0} /\ came \in Nat
    BY Zenon DEF FirReady
  <2>3. QED
    BY <2>1, <2>2, FirStart, Zenon
<1>3. ones[m] = FirAfter(pState, came, taps, size)
  <2>1. FirRun(fours, ones, FirAfter(pState, came, taps, 0), taps, size)
    BY <1>2, Zenon DEF FirRun
  <2> HIDE DEF fours, ones
  <2>2. QED
    BY ONLY <2>1, FirRuns, FirReady(room, pState, filter.taps, came, size)
<1> DEFINE end == FirAfter(pState, came, taps, size)
<1>4. /\ end.s = Came(pState, taps - 1, came, size) /\ end.p = size
      /\ end.sums = FirSums(came, taps, size) /\ end.wild = FALSE
  BY Zenon DEF FirAfter, Filtered
<1> HIDE DEF fours, ones, end
<1>5. ones[m] = end
  BY <1>3, Zenon DEF end
<1>6. QED
  BY <1>1, <1>4, <1>5, Zenon

\* Numbers by whole multiples.
LEMMA Multiples ==
  ASSUME NEW L \in Nat \ {0}, NEW q \in Int, NEW r \in 0 .. L - 1
  PROVE  (q * L + r) \div L = q /\ (q * L + r) % L = r
  BY SMTT(20)

LEMMA FewerMultiples ==
  ASSUME NEW L \in Nat \ {0}, NEW x \in Int, NEW y \in Int, x * L < y * L
  PROVE  x < y
<1>1. ASSUME y <= x PROVE FALSE
  <2>1. y * L <= x * L
    BY <1>1, SMTT(20)
  <2>2. QED
    BY <2>1, SMTT(20)
<1>2. QED
  BY <1>1

LEMMA WholeMultiple ==
  ASSUME NEW L \in Nat \ {0}, NEW v \in Int, v % L = 0
  PROVE  \E x \in Int : v = x * L
<1>1. v \div L \in Int /\ v = L * (v \div L) + (v % L)
  BY SMTT(20)
<1>2. QED
  BY <1>1, SMTT(20)

\* arm_fir_interpolate_q15(): the sums of a sample, and how a block takes samples.
PhasesOf(L, P, s, p) == [o \in 1 .. L |-> [r \in 1 .. P |-> <<L - o + (r - 1) * L, F!Cell(s, p + r - 1)>>]]
SampleOf(b, L, P) ==
  [s |-> F!Into(b.s, b.p + P - 1, b.came + 1), p |-> b.p + 1, came |-> b.came + 1,
   sums |-> b.sums \o PhasesOf(L, P, F!Into(b.s, b.p + P - 1, b.came + 1), b.p), wild |-> b.wild]
BySamples(f, first, n, L, P) == f = [i \in 0 .. n |-> IF i = 0 THEN first ELSE SampleOf(f[i - 1], L, P)]

\* Output o of sample n, and the outputs of a block.
PhaseSum(n, o, L, P) == [r \in 1 .. P |-> <<L - o + (r - 1) * L, F!Sample(n - P + r)>>]
PhaseSums(number, n, L, P) ==
  [m \in 1 .. n * L |-> PhaseSum(number + 1 + ((m - 1) \div L), ((m - 1) % L) + 1, L, P)]
PhasesAfter(s, number, n, L, P) ==
  Filtered(Came(s, P - 1, number, n), n, number + n, PhaseSums(number, n, L, P))

LEMMA PhasesMore ==
  ASSUME NEW number \in Nat, NEW n \in Nat, NEW L \in Nat \ {0}, NEW P \in Nat \ {0}
  PROVE  PhaseSums(number, n, L, P) \o [o \in 1 .. L |-> PhaseSum(number + n + 1, o, L, P)]
           = PhaseSums(number, n + 1, L, P)
<1> DEFINE a == PhaseSums(number, n + 1, L, P)
<1>1. PICK u \in Nat : u = n * L
  BY SMTT(20)
<1>2. (n + 1) * L = u + L
  BY <1>1, SMTT(20)
<1>3. a = [m \in 1 .. u + L |-> PhaseSum(number + 1 + ((m - 1) \div L), ((m - 1) % L) + 1, L, P)]
  BY <1>2, Zenon DEF PhaseSums
<1>4. ASSUME NEW o \in 1 .. L
      PROVE  a[u + o] = PhaseSum(number + n + 1, o, L, P)
  <2>1. PICK r \in 0 .. L - 1 : r = o - 1
    OBVIOUS
  <2>2. (n * L + r) \div L = n /\ (n * L + r) % L = r
    BY Multiples
  <2>3. (u + o) - 1 = n * L + r /\ u + o \in 1 .. u + L
    BY <1>1, <2>1
  <2>4. ((u + o) - 1) \div L = n /\ ((u + o) - 1) % L = r
    BY <2>2, <2>3, Zenon
  <2>5. a[u + o] = PhaseSum(number + 1 + (((u + o) - 1) \div L), (((u + o) - 1) % L) + 1, L, P)
    BY <1>3, <2>3, Zenon
  <2>6. number + 1 + n = number + n + 1 /\ r + 1 = o
    BY <2>1
  <2>7. QED
    BY <2>4, <2>5, <2>6, Zenon
<1>5. ASSUME NEW m \in 1 .. u PROVE a[m] = PhaseSums(number, n, L, P)[m]
  <2>1. m \in 1 .. u + L
    OBVIOUS
  <2>2. QED
    BY <1>1, <1>3, <2>1, Zenon DEF PhaseSums
<1>6. PhaseSums(number, n, L, P) = [m \in 1 .. u |-> a[m]]
  <2>1. PhaseSums(number, n, L, P) = [m \in 1 .. u |-> PhaseSums(number, n, L, P)[m]]
    BY <1>1, Zenon DEF PhaseSums
  <2> HIDE DEF a
  <2>2. QED
    BY <1>5, <2>1, Zenon
<1>7. [o \in 1 .. L |-> PhaseSum(number + n + 1, o, L, P)] = [o \in 1 .. L |-> a[u + o]]
  <2> HIDE DEF a
  <2>1. QED
    BY <1>4, Zenon
<1>8. a = [i \in 1 .. u + L |-> a[i]]
  BY <1>3, Zenon
<1> HIDE DEF a
<1>9. [i \in 1 .. u |-> a[i]] \o [i \in 1 .. L |-> a[u + i]] = a
  BY <1>8, MoreOutputs
<1>10. QED
  BY <1>6, <1>7, <1>9, Zenon DEF a

\* A sample more gives its outputs.
LEMMA SampleAfter ==
  ASSUME NEW room \in Nat, NEW s \in [0 .. room - 1 -> Nat], NEW L \in Nat \ {0}, NEW P \in Nat \ {0},
         NEW number \in Nat, NEW n \in Nat, P + n <= room, Kept(s, number, P)
  PROVE  SampleOf(PhasesAfter(s, number, n, L, P), L, P) = PhasesAfter(s, number, n + 1, L, P)
<1> DEFINE b == PhasesAfter(s, number, n, L, P)
           a == Came(s, P - 1, number, n + 1)
<1>1. /\ b.s = Came(s, P - 1, number, n) /\ b.p = n /\ b.came = number + n
      /\ b.sums = PhaseSums(number, n, L, P) /\ b.wild = FALSE
  BY Zenon DEF PhasesAfter, Filtered
<1>2. P - 1 \in Nat /\ n + P - 1 = (P - 1) + n /\ (P - 1) + n < room /\ P - 1 + (n + 1) <= room
  OBVIOUS
<1>3. F!Into(b.s, n + P - 1, b.came + 1) = a
  <2>1. F!Into(Came(s, P - 1, number, n), (P - 1) + n, number + n + 1) = a
    <3>1. P - 1 \in Nat
      OBVIOUS
    <3>2. (P - 1) + n < room
      OBVIOUS
    <3>3. OneMore(s, P - 1, number, n)
      BY <3>1, <3>2, OneCame, Zenon
    <3>4. QED
      BY <3>3, Zenon DEF OneMore
  <2>2. QED
    BY <1>1, <1>2, <2>1, Zenon
<1>4. a \in [0 .. room - 1 -> Nat]
  <2>1. n + 1 \in Nat
    OBVIOUS
  <2>2. CameIs(a, room, s, P - 1, number, n + 1)
    BY <1>2, <2>1, CameTypes, Zenon
  <2>3. QED
    BY <2>2, Zenon DEF CameIs
<1>5. \A i \in 0 .. P - 2 + (n + 1) : a[i] = F!Sample(number - P + 2 + i)
  <2>1. \A k \in Nat : P - 1 + k <= room =>
          \A i \in 0 .. P - 2 + k : Came(s, P - 1, number, k)[i] = F!Sample(number - P + 2 + i)
    BY ONLY CameAre, room \in Nat, s \in [0 .. room - 1 -> Nat], number \in Nat, P \in Nat \ {0},
       Kept(s, number, P)
  <2>2. n + 1 \in Nat
    OBVIOUS
  <2>3. QED
    BY <1>2, <2>1, <2>2, Zenon
<1> HIDE DEF a, b
<1>6. PhasesOf(L, P, a, n) = [o \in 1 .. L |-> PhaseSum(number + n + 1, o, L, P)]
  <2>1. ASSUME NEW r \in 1 .. P PROVE F!Cell(a, n + r - 1) = F!Sample((number + n + 1) - P + r)
    <3>1. n + r - 1 \in DOMAIN a /\ n + r - 1 \in 0 .. P - 2 + (n + 1)
      BY <1>2, <1>4
    <3>2. number - P + 2 + (n + r - 1) = (number + n + 1) - P + r
      OBVIOUS
    <3>3. F!Cell(a, n + r - 1) = a[n + r - 1]
      BY <3>1, Zenon DEF F!Cell
    <3>4. QED
      BY <1>5, <3>1, <3>2, <3>3, Zenon
  <2>2. ASSUME NEW o \in 1 .. L
        PROVE  [r \in 1 .. P |-> <<L - o + (r - 1) * L, F!Cell(a, n + r - 1)>>] = PhaseSum(number + n + 1, o, L, P)
    BY <2>1, Zenon DEF PhaseSum
  <2>3. QED
    BY <2>2, Zenon DEF PhasesOf
<1>7. SampleOf(b, L, P) =
        [s |-> a, p |-> n + 1, came |-> b.came + 1, sums |-> b.sums \o PhasesOf(L, P, a, n), wild |-> b.wild]
  BY <1>1, <1>3, Zenon DEF SampleOf
<1>8. b.sums \o PhasesOf(L, P, a, n) = PhaseSums(number, n + 1, L, P)
  <2>1. PhaseSums(number, n, L, P) \o [o \in 1 .. L |-> PhaseSum(number + n + 1, o, L, P)]
          = PhaseSums(number, n + 1, L, P)
    BY PhasesMore
  <2>2. QED
    BY <1>1, <1>6, <2>1, Zenon
<1>9. b.came + 1 = number + (n + 1)
  BY <1>1
<1>10. QED
  BY <1>1, <1>7, <1>8, <1>9, Zenon DEF PhasesAfter, Filtered, a, b

SamplesTo(first, n, L, P, end) ==
  (\E f : BySamples(f, first, n, L, P)) /\ \A f : BySamples(f, first, n, L, P) => f[n] = end

LEMMA SamplesAre ==
  ASSUME NEW room \in Nat, NEW s \in [0 .. room - 1 -> Nat], NEW L \in Nat \ {0}, NEW P \in Nat \ {0},
         NEW number \in Nat, NEW n \in Nat, P - 1 + n <= room, Kept(s, number, P)
  PROVE  SamplesTo(PhasesAfter(s, number, 0, L, P), n, L, P, PhasesAfter(s, number, n, L, P))
<1> DEFINE first == PhasesAfter(s, number, 0, L, P)
           closed == [i \in 0 .. n |-> PhasesAfter(s, number, i, L, P)]
<1>1. ASSUME NEW i \in 1 .. n
      PROVE  SampleOf(PhasesAfter(s, number, i - 1, L, P), L, P) = PhasesAfter(s, number, i, L, P)
  <2>1. PICK k \in Nat : k = i - 1 /\ i = k + 1 /\ P + k <= room
    OBVIOUS
  <2>2. SampleOf(PhasesAfter(s, number, k, L, P), L, P) = PhasesAfter(s, number, k + 1, L, P)
    BY <2>1, SampleAfter
  <2>3. QED
    BY <2>1, <2>2, Zenon
<1>2. closed[0] = first /\ \A i \in 1 .. n :
        closed[i] = PhasesAfter(s, number, i, L, P) /\ closed[i - 1] = PhasesAfter(s, number, i - 1, L, P)
  <2>1. 0 \in 0 .. n /\ \A i \in 1 .. n : i \in 0 .. n /\ i - 1 \in 0 .. n
    OBVIOUS
  <2>2. QED
    BY <2>1, Zenon
<1>3. closed[n] = PhasesAfter(s, number, n, L, P)
  OBVIOUS
<1> HIDE DEF first
<1>4. BySamples(closed, first, n, L, P)
  <2>1. \A i \in 0 .. n : i = 0 \/ i \in 1 .. n
    OBVIOUS
  <2>2. ASSUME NEW i \in 0 .. n PROVE closed[i] = IF i = 0 THEN first ELSE SampleOf(closed[i - 1], L, P)
    BY <1>1, <1>2, <2>1, Zenon
  <2>3. closed = [i \in 0 .. n |-> closed[i]]
    BY Zenon
  <2> HIDE DEF closed
  <2>4. QED
    BY <2>2, <2>3, Zenon DEF BySamples
<1> HIDE DEF closed
<1>5. ASSUME NEW f, BySamples(f, first, n, L, P)
      PROVE  f[0] = first /\ \A i \in 1 .. n : f[i] = SampleOf(f[i - 1], L, P)
  <2>1. 0 \in 0 .. n /\ \A i \in 1 .. n : i \in 0 .. n /\ i # 0
    OBVIOUS
  <2>2. QED
    BY <1>5, <2>1, Zenon DEF BySamples
<1>6. ASSUME NEW f, BySamples(f, first, n, L, P) PROVE f[n] = PhasesAfter(s, number, n, L, P)
  <2>1. f[0] = closed[0] /\ \A i \in 1 .. n : f[i - 1] = closed[i - 1] => f[i] = closed[i]
    BY <1>4, <1>5, <1>6, Zenon
  <2>2. QED
    BY <1>3, <2>1, SameRuns, Zenon
<1>7. QED
  BY <1>4, <1>6, Zenon DEF SamplesTo, first

LEMMA PhasesStart ==
  ASSUME NEW room \in Nat, NEW s \in [0 .. room - 1 -> Nat], NEW L \in Nat \ {0}, NEW P \in Nat \ {0},
         NEW number \in Nat
  PROVE  PhasesAfter(s, number, 0, L, P) = Filtered(s, 0, number, <<>>)
<1> DEFINE a == Came(s, P - 1, number, 0)
<1>1. CameIs(a, room, s, P - 1, number, 0)
  <2>1. P - 1 \in Nat /\ 0 \in Nat
    OBVIOUS
  <2>2. QED
    BY <2>1, CameTypes, Zenon
<1> HIDE DEF a
<1>2. \A i \in 0 .. room - 1 : ~(i \in P - 1 .. (P - 1) + 0 - 1)
  OBVIOUS
<1>3. a \in [0 .. room - 1 -> Nat] /\ \A i \in 0 .. room - 1 : a[i] = s[i]
  BY <1>1, <1>2, Zenon DEF CameIs
<1>4. a = s
  BY <1>3
<1>5. PhaseSums(number, 0, L, P) = <<>>
  <2>1. 1 .. 0 * L = {}
    OBVIOUS
  <2>2. QED
    BY <2>1 DEF PhaseSums
<1>6. number + 0 = number
  OBVIOUS
<1>7. QED
  BY <1>4, <1>5, <1>6, Zenon DEF PhasesAfter, Filtered, a

\* A block of samples gives its outputs, and keeps the end of the array.
PhasesReady(room, s, L, P, number, size) ==
  /\ {room, number, size} \subseteq Nat /\ {L, P} \subseteq Nat \ {0} /\ P - 1 + size <= room
  /\ s \in [0 .. room - 1 -> Nat] /\ Kept(s, number, P)

LEMMA PhasesRun ==
  ASSUME NEW room, NEW s, NEW L, NEW P, NEW number, NEW size, PhasesReady(room, s, L, P, number, size),
         NEW f, f = CHOOSE g : BySamples(g, Filtered(s, 0, number, <<>>), size, L, P)
  PROVE  f[size] = PhasesAfter(s, number, size, L, P)
<1> /\ room \in Nat /\ s \in [0 .. room - 1 -> Nat] /\ L \in Nat \ {0} /\ P \in Nat \ {0}
    /\ number \in Nat /\ size \in Nat /\ P - 1 + size <= room /\ Kept(s, number, P)
  BY DEF PhasesReady
<1>1. SamplesTo(PhasesAfter(s, number, 0, L, P), size, L, P, PhasesAfter(s, number, size, L, P))
  BY SamplesAre
<1>2. PhasesAfter(s, number, 0, L, P) = Filtered(s, 0, number, <<>>)
  BY PhasesStart
<1>3. BySamples(f, PhasesAfter(s, number, 0, L, P), size, L, P)
  BY <1>1, <1>2, Zenon DEF SamplesTo
<1>4. QED
  BY <1>1, <1>3, Zenon DEF SamplesTo

LEMMA PhasesBlock ==
  ASSUME NEW room, NEW size, PhasesReady(room, pState, filter.L, filter.phase, came, size), wild = FALSE,
         F!Interpolate(size)
  PROVE  /\ pState' = F!Carried(Came(pState, filter.phase - 1, came, size), size, filter.phase - 1)
         /\ sums' = PhaseSums(came, size, filter.L, filter.phase) /\ wild' = FALSE
<1> DEFINE L == filter.L
           P == filter.phase
           f == CHOOSE g : BySamples(g, F!Begin, size, L, P)
<1>1. /\ pState' = F!Carried(f[size].s, f[size].p, P - 1)
      /\ sums' = f[size].sums /\ wild' = f[size].wild
  BY Zenon DEF F!Interpolate, F!SampleIn, F!Phases, BySamples, SampleOf, PhasesOf
<1>2. F!Begin = Filtered(pState, 0, came, <<>>)
  BY Zenon DEF F!Begin, Filtered
<1>3. f[size] = PhasesAfter(pState, came, size, L, P)
  <2>1. f = CHOOSE g : BySamples(g, Filtered(pState, 0, came, <<>>), size, L, P)
    BY <1>2, Zenon
  <2> HIDE DEF f
  <2>2. QED
    BY ONLY <2>1, PhasesRun, PhasesReady(room, pState, filter.L, filter.phase, came, size)
<1> DEFINE end == PhasesAfter(pState, came, size, L, P)
<1>4. /\ end.s = Came(pState, P - 1, came, size) /\ end.p = size
      /\ end.sums = PhaseSums(came, size, L, P) /\ end.wild = FALSE
  BY Zenon DEF PhasesAfter, Filtered
<1> HIDE DEF f, end
<1>5. f[size] = end
  BY <1>3, Zenon DEF end
<1>6. QED
  BY <1>1, <1>4, <1>5, Zenon

\* Which coefficients of an output meet a sample, and which sample it is: m output o of
\* sample q, from 0.
Meets(L, P, q, m, k, r) ==
  /\ k \in 0 .. L * P - 1 /\ (m - L * P + 1 + k) % L = 0
  /\ (m - L * P + 1 + k) \div L + 1 = q - P + r
IsTaken(L, P, o, k) == \E r \in 1 .. P : k = L - o + (r - 1) * L

LEMMA PhaseTerm ==
  ASSUME NEW L \in Nat \ {0}, NEW P \in Nat \ {0}, NEW q \in Nat, NEW o \in 1 .. L, NEW r \in 1 .. P,
         NEW m \in Int, m = (q - 1) * L + (o - 1), NEW k \in Int, k = L - o + (r - 1) * L
  PROVE  Meets(L, P, q, m, k, r)
<1>1. PICK x \in Int : x = (r - 1) * L
  BY SMTT(20)
<1>2. PICK y \in Int : y = (q - 1) * L
  BY SMTT(20)
<1>3. PICK t \in Int : t = L * P
  BY SMTT(20)
<1>4. x >= 0
  BY <1>1, SMTT(20)
<1>5. x + L <= t
  <2>1. r - 1 <= P - 1 /\ r - 1 \in Int /\ P - 1 \in Int
    OBVIOUS
  <2>2. (r - 1) * L <= (P - 1) * L
    BY <2>1, SMTT(20)
  <2>3. (P - 1) * L = L * P - L
    BY SMTT(20)
  <2>4. QED
    BY <1>1, <1>3, <2>2, <2>3
<1>6. k \in 0 .. t - 1
  BY <1>1, <1>4, <1>5
<1>7. m - t + 1 + k = y + L - t + x
  BY <1>1, <1>2
<1>8. y + L - t + x = (q - 1 - P + r) * L + 0
  BY <1>1, <1>2, <1>3, SMTT(20)
<1>9. ((q - 1 - P + r) * L + 0) \div L = q - 1 - P + r /\ ((q - 1 - P + r) * L + 0) % L = 0
  <2>1. q - 1 - P + r \in Int /\ 0 \in 0 .. L - 1
    OBVIOUS
  <2>2. QED
    BY <2>1, Multiples, Zenon
<1>10. (m - t + 1 + k) \div L = q - 1 - P + r /\ (m - t + 1 + k) % L = 0
  BY <1>7, <1>8, <1>9, Zenon
<1>11. q - 1 - P + r + 1 = q - P + r
  OBVIOUS
<1>12. QED
  BY <1>3, <1>6, <1>10, <1>11, Zenon DEF Meets

LEMMA PhaseTaken ==
  ASSUME NEW L \in Nat \ {0}, NEW P \in Nat \ {0}, NEW q \in Nat, NEW o \in 1 .. L,
         NEW m \in Int, m = (q - 1) * L + (o - 1), NEW k \in 0 .. L * P - 1, (m - L * P + 1 + k) % L = 0
  PROVE  IsTaken(L, P, o, k)
<1>1. PICK y \in Int : y = (q - 1) * L
  BY SMTT(20)
<1>2. PICK t \in Nat : t = L * P
  BY SMTT(20)
<1>3. PICK x \in Int : m - t + 1 + k = x * L
  <2>1. m - t + 1 + k \in Int /\ (m - t + 1 + k) % L = 0
    BY <1>2
  <2>2. QED
    BY <2>1, WholeMultiple, Zenon
<1>4. PICK r \in Int : r = x - (q - 1) + P
  OBVIOUS
<1>5. r * L = x * L - y + t
  BY <1>1, <1>2, <1>4, SMTT(20)
<1>6. r * L = k + o
  BY <1>1, <1>2, <1>3, <1>5
<1>7. 0 < r
  <2>1. 0 * L < r * L
    BY <1>6
  <2>2. QED
    BY <2>1, FewerMultiples
<1>8. r < P + 1
  <2>1. (P + 1) * L = t + L
    BY <1>2, SMTT(20)
  <2>2. r * L < (P + 1) * L
    BY <1>2, <1>6, <2>1
  <2>3. QED
    BY <2>2, FewerMultiples
<1>9. (r - 1) * L = r * L - L
  BY SMTT(20)
<1>10. r \in 1 .. P /\ k = L - o + (r - 1) * L
  BY <1>6, <1>7, <1>8, <1>9
<1>11. QED
  BY <1>10, Zenon DEF IsTaken

\* The sum of an output is the interpolation, each product once.
LEMMA PhaseIsWhole ==
  ASSUME NEW L \in Nat \ {0}, NEW P \in Nat \ {0}, NEW q \in Nat, NEW o \in 1 .. L,
         NEW m \in Int, m = (q - 1) * L + (o - 1)
  PROVE  F!Has(PhaseSum(q, o, L, P), F!Interpolation(L, L * P, m))
<1> DEFINE sum == PhaseSum(q, o, L, P)
           Coefficient(r) == L - o + (r - 1) * L
<1>1. DOMAIN sum = 1 .. P /\ \A r \in 1 .. P : sum[r] = <<Coefficient(r), F!Sample(q - P + r)>>
  BY Zenon DEF PhaseSum
<1>2. ASSUME NEW r \in 1 .. P
      PROVE  /\ Coefficient(r) \in Int
             /\ Coefficient(r) \in 0 .. L * P - 1 /\ (m - L * P + 1 + Coefficient(r)) % L = 0
             /\ (m - L * P + 1 + Coefficient(r)) \div L + 1 = q - P + r
  <2>1. PICK k \in Int : k = L - o + (r - 1) * L
    BY SMTT(20)
  <2>2. Meets(L, P, q, m, k, r)
    BY <2>1, PhaseTerm, Zenon
  <2>3. QED
    BY <2>1, <2>2, Zenon DEF Meets
<1>3. ASSUME NEW k \in 0 .. L * P - 1, (m - L * P + 1 + k) % L = 0
      PROVE  \E r \in 1 .. P : k = Coefficient(r)
  <2>1. IsTaken(L, P, o, k)
    BY <1>3, PhaseTaken, Zenon
  <2>2. QED
    BY <2>1, Zenon DEF IsTaken
<1>4. ASSUME NEW i \in 1 .. P, NEW j \in 1 .. P, Coefficient(i) = Coefficient(j) PROVE i = j
  <2>1. (i - 1) * L = (j - 1) * L
    BY <1>4, SMTT(20)
  <2>2. i - 1 = j - 1
    BY <2>1, SMTT(20)
  <2>3. QED
    BY <2>2
<1> HIDE DEF sum, Coefficient
<1>5. ASSUME NEW p \in F!ToSet(sum) PROVE p \in F!Interpolation(L, L * P, m)
  <2>1. PICK r \in 1 .. P : p = <<Coefficient(r), F!Sample(q - P + r)>>
    BY <1>1, Zenon DEF F!ToSet
  <2>2. p = <<Coefficient(r), F!Sample((m - L * P + 1 + Coefficient(r)) \div L + 1)>>
    BY <1>2, <2>1, Zenon
  <2>3. QED
    BY <1>2, <2>2, Zenon DEF F!Interpolation
<1>6. ASSUME NEW p \in F!Interpolation(L, L * P, m) PROVE p \in F!ToSet(sum)
  <2>1. PICK k \in 0 .. L * P - 1 : /\ (m - L * P + 1 + k) % L = 0
                                    /\ p = <<k, F!Sample((m - L * P + 1 + k) \div L + 1)>>
    BY Zenon DEF F!Interpolation
  <2>2. PICK r \in 1 .. P : k = Coefficient(r)
    BY <1>3, <2>1, Zenon
  <2>3. p = sum[r]
    BY <1>1, <1>2, <2>1, <2>2, Zenon
  <2>4. QED
    BY <1>1, <2>3, Zenon DEF F!ToSet
<1>7. F!IsInjective(sum)
  <2>1. ASSUME NEW i \in 1 .. P, NEW j \in 1 .. P, sum[i] = sum[j] PROVE i = j
    <3>1. <<Coefficient(i), F!Sample(q - P + i)>> = <<Coefficient(j), F!Sample(q - P + j)>>
      BY <1>1, <2>1, Zenon
    <3>2. Coefficient(i) = Coefficient(j)
      BY ONLY <3>1
    <3>3. QED
      BY <1>4, <3>2, Zenon
  <2>2. QED
    BY <1>1, <2>1, Zenon DEF F!IsInjective
<1>8. QED
  BY <1>5, <1>6, <1>7, Zenon DEF F!Has, sum

\* Every output of a block of samples.
LEMMA PhasesWhole ==
  ASSUME NEW L \in Nat \ {0}, NEW P \in Nat \ {0}, NEW number \in Nat, NEW n \in Nat,
         NEW i \in DOMAIN PhaseSums(number, n, L, P)
  PROVE  F!Has(PhaseSums(number, n, L, P)[i],
               F!Interpolation(L, L * P, (number + n) * L - Len(PhaseSums(number, n, L, P)) + i - 1))
<1>1. PICK u \in Nat : u = n * L
  BY SMTT(20)
<1>2. PICK w \in Int : w = number * L
  BY SMTT(20)
<1>3. PhaseSums(number, n, L, P) =
        [m \in 1 .. u |-> PhaseSum(number + 1 + ((m - 1) \div L), ((m - 1) % L) + 1, L, P)]
  BY <1>1, Zenon DEF PhaseSums
<1>4. Len(PhaseSums(number, n, L, P)) = u /\ i \in 1 .. u
  <2>1. DOMAIN PhaseSums(number, n, L, P) = 1 .. u
    BY <1>3, Zenon
  <2> DEFINE f == PhaseSums(number, n, L, P)
  <2>2. f = [m \in 1 .. u |-> f[m]]
    BY <1>3, Zenon
  <2> HIDE DEF f
  <2>3. Len(f) = u
    BY ONLY <2>2, u \in Nat
  <2>4. QED
    BY <2>1, <2>3, Zenon DEF f
<1>5. PICK d \in Nat : d = (i - 1) \div L
  BY <1>4, SMTT(20)
<1>6. PICK r \in 0 .. L - 1 : r = (i - 1) % L
  BY <1>4, SMTT(20)
<1>7. i - 1 = d * L + r
  BY <1>4, <1>5, <1>6, SMTT(20)
<1>8. PhaseSums(number, n, L, P)[i] = PhaseSum(number + 1 + d, r + 1, L, P)
  BY <1>3, <1>4, <1>5, <1>6, Zenon
<1>9. (number + n) * L - u + i - 1 = ((number + 1 + d) - 1) * L + ((r + 1) - 1)
  <2>1. (number + n) * L = w + u
    BY <1>1, <1>2, SMTT(20)
  <2>2. ((number + 1 + d) - 1) * L = w + d * L
    BY <1>2, SMTT(20)
  <2>3. QED
    BY <1>4, <1>7, <2>1, <2>2, SMTT(20)
<1>10. number + 1 + d \in Nat /\ r + 1 \in 1 .. L
  OBVIOUS
<1>11. (number + n) * L - u + i - 1 \in Int
  BY <1>4, SMTT(20)
<1>12. F!Has(PhaseSum(number + 1 + d, r + 1, L, P),
             F!Interpolation(L, L * P, (number + n) * L - u + i - 1))
  BY <1>9, <1>10, <1>11, PhaseIsWhole, Zenon
<1>13. QED
  BY <1>4, <1>8, <1>12, Zenon

\* Every output of a block of a filter with a window.
LEMMA FirWhole ==
  ASSUME NEW taps \in Nat \ {0}, NEW number \in Nat, NEW n \in Nat, NEW i \in DOMAIN FirSums(number, taps, n)
  PROVE  F!Has(FirSums(number, taps, n)[i],
               F!Convolution(taps, (number + n) - Len(FirSums(number, taps, n)) + i))
<1> DEFINE f == FirSums(number, taps, n)
<1>1. f = [m \in 1 .. n |-> f[m]] /\ DOMAIN f = 1 .. n /\ \A m \in 1 .. n : f[m] = FirSum(number + m, taps)
  BY Zenon DEF FirSums
<1> HIDE DEF f
<1>2. Len(f) = n
  BY <1>1
<1>3. i \in 1 .. n
  BY <1>1, Zenon DEF f
<1>4. (number + n) - n + i = number + i /\ number + i \in Nat
  BY <1>3
<1>5. F!Has(FirSum(number + i, taps), F!Convolution(taps, number + i))
  BY <1>4, FirIsWhole, Zenon
<1>6. QED
  BY <1>1, <1>2, <1>3, <1>4, <1>5, Zenon DEF f

\* arm_biquad_cascade_df1_q31(): the sum of output n of a stage, and a stage after i
\* outputs of a block.
BiSum(st, n) ==
  <<<<5 * (st - 1), F!Value(n, st - 1)>>, <<5 * (st - 1) + 1, F!Value(n - 1, st - 1)>>,
    <<5 * (st - 1) + 2, F!Value(n - 2, st - 1)>>, <<5 * (st - 1) + 3, F!Value(n - 1, st)>>,
    <<5 * (st - 1) + 4, F!Value(n - 2, st)>>>>
BiSums(number, st, n) == [m \in 1 .. n |-> BiSum(st, number + m)]
StageAt(number, st, i) ==
  [x1 |-> F!Value(number + i, st - 1), x2 |-> F!Value(number + i - 1, st - 1),
   y1 |-> F!Value(number + i, st), y2 |-> F!Value(number + i - 1, st), sums |-> BiSums(number, st, i)]

LEMMA StageMore ==
  ASSUME NEW number \in Nat, NEW st \in Nat \ {0}, NEW i \in Nat
  PROVE  F!StageOutput(StageAt(number, st, i), st, number + (i + 1)) = StageAt(number, st, i + 1)
<1> DEFINE r == StageAt(number, st, i)
           n == number + (i + 1)
           a == BiSums(number, st, i + 1)
<1>1. /\ r.x1 = F!Value(number + i, st - 1) /\ r.x2 = F!Value(number + i - 1, st - 1)
      /\ r.y1 = F!Value(number + i, st) /\ r.y2 = F!Value(number + i - 1, st) /\ r.sums = BiSums(number, st, i)
  BY Zenon DEF StageAt
<1>2. number + i = n - 1 /\ number + i - 1 = n - 2
  OBVIOUS
<1>3. \A m \in 1 .. i : m \in 1 .. i + 1
  OBVIOUS
<1>4. i + 1 \in 1 .. i + 1
  OBVIOUS
<1>5. a = [m \in 1 .. i + 1 |-> a[m]] /\ \A m \in 1 .. i + 1 : a[m] = BiSum(st, number + m)
  BY Zenon DEF BiSums
<1> HIDE DEF a
<1>6. BiSums(number, st, i) = [m \in 1 .. i |-> a[m]] /\ a[i + 1] = BiSum(st, n)
  BY <1>3, <1>4, <1>5, Zenon DEF BiSums
<1>7. Append(r.sums, BiSum(st, n)) = a
  <2>1. Append([m \in 1 .. i |-> a[m]], a[i + 1]) = a
    BY <1>5, OutputMore, Zenon
  <2>2. QED
    BY <1>1, <1>6, <2>1, Zenon
<1> HIDE DEF r, n
<1>8. F!StageOutput(r, st, n) =
        [x1 |-> F!Value(n, st - 1), x2 |-> r.x1, y1 |-> F!Value(n, st), y2 |-> r.y1, sums |-> Append(r.sums, BiSum(st, n))]
  <2>1. BiSum(st, n) =
          <<<<5 * (st - 1), F!Value(n, st - 1)>>, <<5 * (st - 1) + 1, r.x1>>, <<5 * (st - 1) + 2, r.x2>>,
            <<5 * (st - 1) + 3, r.y1>>, <<5 * (st - 1) + 4, r.y2>>>>
    BY <1>1, <1>2, Zenon DEF BiSum
  <2>2. QED
    BY <2>1, Zenon DEF F!StageOutput
<1>9. number + (i + 1) - 1 = number + i
  OBVIOUS
<1>10. F!StageOutput(r, st, n) = StageAt(number, st, i + 1)
  BY <1>1, <1>7, <1>8, <1>9, Zenon DEF StageAt, a, n
<1>11. QED
  BY <1>10, Zenon DEF r, n

\* The outputs of a stage.
ByStage(f, first, n, st, number) ==
  f = [i \in 0 .. n |-> IF i = 0 THEN first ELSE F!StageOutput(f[i - 1], st, number + i)]
StageTo(first, n, st, number, end) ==
  (\E f : ByStage(f, first, n, st, number)) /\ \A f : ByStage(f, first, n, st, number) => f[n] = end

LEMMA StageOutputsAre ==
  ASSUME NEW number \in Nat, NEW st \in Nat \ {0}, NEW n \in Nat
  PROVE  StageTo(StageAt(number, st, 0), n, st, number, StageAt(number, st, n))
<1> DEFINE first == StageAt(number, st, 0)
           closed == [i \in 0 .. n |-> StageAt(number, st, i)]
<1>1. ASSUME NEW i \in 1 .. n
      PROVE  F!StageOutput(StageAt(number, st, i - 1), st, number + i) = StageAt(number, st, i)
  <2>1. PICK k \in Nat : k = i - 1 /\ i = k + 1
    OBVIOUS
  <2>2. F!StageOutput(StageAt(number, st, k), st, number + (k + 1)) = StageAt(number, st, k + 1)
    BY StageMore
  <2>3. QED
    BY <2>1, <2>2, Zenon
<1>2. closed[0] = first /\ \A i \in 1 .. n :
        closed[i] = StageAt(number, st, i) /\ closed[i - 1] = StageAt(number, st, i - 1)
  <2>1. 0 \in 0 .. n /\ \A i \in 1 .. n : i \in 0 .. n /\ i - 1 \in 0 .. n
    OBVIOUS
  <2>2. QED
    BY <2>1, Zenon
<1>3. closed[n] = StageAt(number, st, n)
  OBVIOUS
<1> HIDE DEF first
<1>4. ByStage(closed, first, n, st, number)
  <2>1. \A i \in 0 .. n : i = 0 \/ i \in 1 .. n
    OBVIOUS
  <2>2. ASSUME NEW i \in 0 .. n
        PROVE  closed[i] = IF i = 0 THEN first ELSE F!StageOutput(closed[i - 1], st, number + i)
    BY <1>1, <1>2, <2>1, Zenon
  <2>3. closed = [i \in 0 .. n |-> closed[i]]
    BY Zenon
  <2> HIDE DEF closed
  <2>4. QED
    BY <2>2, <2>3, Zenon DEF ByStage
<1> HIDE DEF closed
<1>5. ASSUME NEW f, ByStage(f, first, n, st, number)
      PROVE  f[0] = first /\ \A i \in 1 .. n : f[i] = F!StageOutput(f[i - 1], st, number + i)
  <2>1. 0 \in 0 .. n /\ \A i \in 1 .. n : i \in 0 .. n /\ i # 0
    OBVIOUS
  <2>2. QED
    BY <1>5, <2>1, Zenon DEF ByStage
<1>6. ASSUME NEW f, ByStage(f, first, n, st, number) PROVE f[n] = StageAt(number, st, n)
  <2>1. f[0] = closed[0] /\ \A i \in 1 .. n : f[i - 1] = closed[i - 1] => f[i] = closed[i]
    BY <1>4, <1>5, <1>6, Zenon
  <2>2. QED
    BY <1>3, <2>1, SameRuns, Zenon
<1>7. QED
  BY <1>4, <1>6, Zenon DEF StageTo, first

\* The state array before and after the samples of a block: cell i of stage st, from 0, is an
\* input or an output of the stage.
BiCell(number, i) ==
  IF i % 4 = 0 THEN F!Value(number, i \div 4)
  ELSE IF i % 4 = 1 THEN F!Value(number - 1, i \div 4)
  ELSE IF i % 4 = 2 THEN F!Value(number, i \div 4 + 1)
  ELSE F!Value(number - 1, i \div 4 + 1)
BiArray(number, stages) == [i \in 0 .. 4 * stages - 1 |-> BiCell(number, i)]
BiMid(number, size, st, stages) ==
  [i \in 0 .. 4 * stages - 1 |-> IF i < 4 * st THEN BiCell(number + size, i) ELSE BiCell(number, i)]
BiOut(number, size, st) == [k \in 1 .. st |-> BiSums(number, k, size)]
BiAfter(number, size, st, stages) == [s |-> BiMid(number, size, st, stages), sums |-> BiOut(number, size, st)]

\* The four cells of a stage.
FourCells(number, st) ==
  /\ BiCell(number, 4 * (st - 1)) = F!Value(number, st - 1)
  /\ BiCell(number, 4 * (st - 1) + 1) = F!Value(number - 1, st - 1)
  /\ BiCell(number, 4 * (st - 1) + 2) = F!Value(number, st)
  /\ BiCell(number, 4 * (st - 1) + 3) = F!Value(number - 1, st)

LEMMA BiCells ==
  ASSUME NEW number, NEW st \in Nat \ {0}
  PROVE  FourCells(number, st)
<1>1. /\ (4 * (st - 1)) % 4 = 0 /\ (4 * (st - 1)) \div 4 = st - 1
      /\ (4 * (st - 1) + 1) % 4 = 1 /\ (4 * (st - 1) + 1) \div 4 = st - 1
      /\ (4 * (st - 1) + 2) % 4 = 2 /\ (4 * (st - 1) + 2) \div 4 = st - 1
      /\ (4 * (st - 1) + 3) % 4 = 3 /\ (4 * (st - 1) + 3) \div 4 = st - 1
  OBVIOUS
<1>2. st - 1 + 1 = st
  OBVIOUS
<1>3. 0 # 1 /\ 0 # 2 /\ 0 # 3 /\ 1 # 2 /\ 1 # 3 /\ 2 # 3
  OBVIOUS
<1>4. QED
  BY <1>1, <1>2, <1>3, Zenon DEF BiCell, FourCells

\* A stage of a block: its four cells, then what the loop leaves in them.
StageIn(s, at, r) == [s EXCEPT ![at] = r.x1, ![at + 1] = r.x2, ![at + 2] = r.y1, ![at + 3] = r.y2]

CellsIn(u, s, at, r, n) ==
  /\ DOMAIN u = 0 .. n - 1
  /\ \A i \in 0 .. n - 1 :
       u[i] = IF i = at THEN r.x1 ELSE IF i = at + 1 THEN r.x2
              ELSE IF i = at + 2 THEN r.y1 ELSE IF i = at + 3 THEN r.y2 ELSE s[i]

LEMMA StageCells ==
  ASSUME NEW s, NEW n \in Nat, s = [i \in 0 .. n - 1 |-> s[i]], NEW at \in Nat, at + 3 < n, NEW r
  PROVE  CellsIn(StageIn(s, at, r), s, at, r, n)
<1>1. PICK x1, x2, y1, y2 : x1 = r.x1 /\ x2 = r.x2 /\ y1 = r.y1 /\ y2 = r.y2
  OBVIOUS
<1>2. StageIn(s, at, r) = [s EXCEPT ![at] = x1, ![at + 1] = x2, ![at + 2] = y1, ![at + 3] = y2]
  BY <1>1, Zenon DEF StageIn
<1> DEFINE t == [s EXCEPT ![at] = x1, ![at + 1] = x2, ![at + 2] = y1, ![at + 3] = y2]
<1>3. /\ DOMAIN t = 0 .. n - 1
      /\ \A i \in 0 .. n - 1 :
           t[i] = IF i = at THEN x1 ELSE IF i = at + 1 THEN x2
                  ELSE IF i = at + 2 THEN y1 ELSE IF i = at + 3 THEN y2 ELSE s[i]
  OBVIOUS
<1>4. QED
  BY <1>1, <1>2, <1>3, Zenon DEF CellsIn

LEMMA StageWritten ==
  ASSUME NEW number \in Nat, NEW size \in Nat, NEW stages \in Nat, NEW st \in 1 .. stages
  PROVE  StageIn(BiMid(number, size, st - 1, stages), 4 * (st - 1), StageAt(number, st, size))
           = BiMid(number, size, st, stages)
<1> DEFINE s == BiMid(number, size, st - 1, stages)
           t == BiMid(number, size, st, stages)
           at == 4 * (st - 1)
           r == StageAt(number, st, size)
           u == StageIn(s, at, r)
           n == 4 * stages
<1>1. /\ n \in Nat /\ at \in Nat /\ at + 3 < n /\ 4 * st = at + 4
  OBVIOUS
<1>2. s = [i \in 0 .. n - 1 |-> s[i]] /\ t = [i \in 0 .. n - 1 |-> t[i]]
  BY Zenon DEF BiMid
<1>3. \A i \in 0 .. n - 1 :
        /\ s[i] = IF i < at THEN BiCell(number + size, i) ELSE BiCell(number, i)
        /\ t[i] = IF i < 4 * st THEN BiCell(number + size, i) ELSE BiCell(number, i)
  BY Zenon DEF BiMid
<1>4. /\ r.x1 = BiCell(number + size, at) /\ r.x2 = BiCell(number + size, at + 1)
      /\ r.y1 = BiCell(number + size, at + 2) /\ r.y2 = BiCell(number + size, at + 3)
  <2>1. /\ r.x1 = F!Value(number + size, st - 1) /\ r.x2 = F!Value(number + size - 1, st - 1)
        /\ r.y1 = F!Value(number + size, st) /\ r.y2 = F!Value(number + size - 1, st)
    BY Zenon DEF StageAt
  <2>2. st \in Nat \ {0}
    OBVIOUS
  <2>3. FourCells(number + size, st)
    BY <2>2, BiCells, Zenon
  <2>4. (number + size) - 1 = number + size - 1
    OBVIOUS
  <2>5. /\ BiCell(number + size, at) = F!Value(number + size, st - 1)
        /\ BiCell(number + size, at + 1) = F!Value(number + size - 1, st - 1)
        /\ BiCell(number + size, at + 2) = F!Value(number + size, st)
        /\ BiCell(number + size, at + 3) = F!Value(number + size - 1, st)
    BY <2>3, <2>4, Zenon DEF FourCells
  <2> HIDE DEF r, at
  <2>6. QED
    BY <2>1, <2>5, Zenon
<1> HIDE DEF s, t, r, at, n
<1>5. CellsIn(u, s, at, r, n)
  BY <1>1, <1>2, StageCells, Zenon
<1>6. u = [i \in 0 .. n - 1 |-> u[i]]
  <2>1. u = [i \in DOMAIN u |-> u[i]]
    BY Zenon DEF StageIn
  <2>2. QED
    BY <1>5, <2>1, Zenon DEF CellsIn
<1> HIDE DEF u
<1>7. ASSUME NEW i \in 0 .. n - 1 PROVE u[i] = t[i]
  <2>1. i < at \/ i = at \/ i = at + 1 \/ i = at + 2 \/ i = at + 3 \/ i >= at + 4
    BY <1>1
  <2>2. CASE i < at
    <3>1. i < 4 * st /\ i # at /\ i # at + 1 /\ i # at + 2 /\ i # at + 3
      BY <1>1, <2>2
    <3>2. QED
      BY <1>3, <1>5, <2>2, <3>1, Zenon DEF CellsIn
  <2>3. CASE i = at
    <3>1. i < 4 * st
      BY <1>1, <2>3
    <3>2. QED
      BY <1>3, <1>4, <1>5, <2>3, <3>1, Zenon DEF CellsIn
  <2>4. CASE i = at + 1
    <3>1. i < 4 * st /\ i # at
      BY <1>1, <2>4
    <3>2. QED
      BY <1>3, <1>4, <1>5, <2>4, <3>1, Zenon DEF CellsIn
  <2>5. CASE i = at + 2
    <3>1. i < 4 * st /\ i # at /\ i # at + 1
      BY <1>1, <2>5
    <3>2. QED
      BY <1>3, <1>4, <1>5, <2>5, <3>1, Zenon DEF CellsIn
  <2>6. CASE i = at + 3
    <3>1. i < 4 * st /\ i # at /\ i # at + 1 /\ i # at + 2
      BY <1>1, <2>6
    <3>2. QED
      BY <1>3, <1>4, <1>5, <2>6, <3>1, Zenon DEF CellsIn
  <2>7. CASE i >= at + 4
    <3>1. ~(i < 4 * st) /\ ~(i < at) /\ i # at /\ i # at + 1 /\ i # at + 2 /\ i # at + 3
      BY <1>1, <2>7
    <3>2. QED
      BY <1>3, <1>5, <3>1, Zenon DEF CellsIn
  <2>8. QED
    BY <2>1, <2>2, <2>3, <2>4, <2>5, <2>6, <2>7, Zenon
<1>8. u = t
  BY <1>2, <1>6, <1>7, Zenon
<1>9. QED
  BY <1>8, Zenon DEF u, s, t, at, r

\* A stage more of a block.
LEMMA StageAfter ==
  ASSUME NEW size \in Nat, NEW stages \in Nat, NEW st \in 1 .. stages, came \in Nat
  PROVE  F!Stage(BiAfter(came, size, st - 1, stages), st, size) = BiAfter(came, size, st, stages)
<1> DEFINE b == BiAfter(came, size, st - 1, stages)
           at == 4 * (st - 1)
           first == [x1 |-> F!Cell(b.s, at), x2 |-> F!Cell(b.s, at + 1), y1 |-> F!Cell(b.s, at + 2),
                     y2 |-> F!Cell(b.s, at + 3), sums |-> <<>>]
           f == CHOOSE g : ByStage(g, first, size, st, came)
           a == BiOut(came, size, st)
<1>1. b.s = BiMid(came, size, st - 1, stages) /\ b.sums = BiOut(came, size, st - 1)
  BY Zenon DEF BiAfter
<1>2. /\ st \in Nat \ {0} /\ at \in 0 .. 4 * stages - 1 /\ at + 1 \in 0 .. 4 * stages - 1
      /\ at + 2 \in 0 .. 4 * stages - 1 /\ at + 3 \in 0 .. 4 * stages - 1
      /\ ~(at < at) /\ ~(at + 1 < at) /\ ~(at + 2 < at) /\ ~(at + 3 < at)
  OBVIOUS
<1>3. ASSUME NEW i \in 0 .. 4 * stages - 1, ~(i < at) PROVE F!Cell(b.s, i) = BiCell(came, i)
  BY <1>1, <1>3, Zenon DEF F!Cell, BiMid
<1>4. first = StageAt(came, st, 0)
  <2>1. BiSums(came, st, 0) = <<>>
    <3>1. 1 .. 0 = {}
      OBVIOUS
    <3>2. QED
      BY <3>1 DEF BiSums
  <2>2. came + 0 = came /\ came + 0 - 1 = came - 1
    OBVIOUS
  <2>3. /\ F!Cell(b.s, at) = F!Value(came, st - 1) /\ F!Cell(b.s, at + 1) = F!Value(came - 1, st - 1)
        /\ F!Cell(b.s, at + 2) = F!Value(came, st) /\ F!Cell(b.s, at + 3) = F!Value(came - 1, st)
    <3> HIDE DEF b
    <3>1. QED
      BY <1>2, <1>3, BiCells, Zenon DEF FourCells
  <2>4. QED
    BY <2>1, <2>2, <2>3, Zenon DEF StageAt
<1>5. f[size] = StageAt(came, st, size)
  <2>1. StageTo(StageAt(came, st, 0), size, st, came, StageAt(came, st, size))
    BY <1>2, StageOutputsAre, Zenon
  <2>2. f = CHOOSE g : ByStage(g, StageAt(came, st, 0), size, st, came)
    BY <1>4, Zenon
  <2> HIDE DEF f
  <2>3. ByStage(f, StageAt(came, st, 0), size, st, came)
    BY <2>1, <2>2, Zenon DEF StageTo
  <2>4. QED
    BY <2>1, <2>3, Zenon DEF StageTo
<1>6. F!Stage(b, st, size) = [s |-> StageIn(b.s, at, f[size]), sums |-> Append(b.sums, f[size].sums)]
  BY Zenon DEF F!Stage, StageIn, ByStage
<1> HIDE DEF f
<1>7. f[size].sums = BiSums(came, st, size)
  <2>1. StageAt(came, st, size).sums = BiSums(came, st, size)
    BY Zenon DEF StageAt
  <2>2. QED
    BY <1>5, <2>1, Zenon
<1>8. Append(b.sums, BiSums(came, st, size)) = a
  <2>1. PICK k \in Nat : k = st - 1 /\ st = k + 1
    OBVIOUS
  <2>2. a = [m \in 1 .. k + 1 |-> a[m]] /\ \A m \in 1 .. k + 1 : a[m] = BiSums(came, m, size)
    BY <2>1, Zenon DEF BiOut
  <2> HIDE DEF a
  <2>3. k + 1 \in 1 .. k + 1 /\ \A m \in 1 .. k : m \in 1 .. k + 1
    OBVIOUS
  <2>4. BiOut(came, size, k) = [m \in 1 .. k |-> a[m]] /\ a[k + 1] = BiSums(came, st, size)
    BY <2>1, <2>2, <2>3, Zenon DEF BiOut
  <2>5. Append([m \in 1 .. k |-> a[m]], a[k + 1]) = a
    BY <2>2, OutputMore, Zenon
  <2>6. QED
    BY <1>1, <2>1, <2>4, <2>5, Zenon
<1>9. StageIn(b.s, at, f[size]) = BiMid(came, size, st, stages)
  <2>1. StageIn(BiMid(came, size, st - 1, stages), at, StageAt(came, st, size)) = BiMid(came, size, st, stages)
    BY StageWritten, Zenon
  <2>2. QED
    BY <1>1, <1>5, <2>1, Zenon
<1>10. QED
  BY <1>6, <1>7, <1>8, <1>9, Zenon DEF BiAfter

\* All stages of a block.
ByStages(f, first, n, size) == f = [i \in 0 .. n |-> IF i = 0 THEN first ELSE F!Stage(f[i - 1], i, size)]
StagesTo(first, n, size, end) ==
  (\E f : ByStages(f, first, n, size)) /\ \A f : ByStages(f, first, n, size) => f[n] = end

LEMMA StagesAre ==
  ASSUME NEW size \in Nat, NEW n \in Nat, came \in Nat
  PROVE  StagesTo(BiAfter(came, size, 0, n), n, size, BiAfter(came, size, n, n))
<1> DEFINE first == BiAfter(came, size, 0, n)
           closed == [i \in 0 .. n |-> BiAfter(came, size, i, n)]
<1>1. ASSUME NEW i \in 1 .. n
      PROVE  F!Stage(BiAfter(came, size, i - 1, n), i, size) = BiAfter(came, size, i, n)
  BY StageAfter, Zenon
<1>2. closed[0] = first /\ \A i \in 1 .. n :
        closed[i] = BiAfter(came, size, i, n) /\ closed[i - 1] = BiAfter(came, size, i - 1, n)
  <2>1. 0 \in 0 .. n /\ \A i \in 1 .. n : i \in 0 .. n /\ i - 1 \in 0 .. n
    OBVIOUS
  <2>2. QED
    BY <2>1, Zenon
<1>3. closed[n] = BiAfter(came, size, n, n)
  OBVIOUS
<1> HIDE DEF first
<1>4. ByStages(closed, first, n, size)
  <2>1. \A i \in 0 .. n : i = 0 \/ i \in 1 .. n
    OBVIOUS
  <2>2. ASSUME NEW i \in 0 .. n PROVE closed[i] = IF i = 0 THEN first ELSE F!Stage(closed[i - 1], i, size)
    BY <1>1, <1>2, <2>1, Zenon
  <2>3. closed = [i \in 0 .. n |-> closed[i]]
    BY Zenon
  <2> HIDE DEF closed
  <2>4. QED
    BY <2>2, <2>3, Zenon DEF ByStages
<1> HIDE DEF closed
<1>5. ASSUME NEW f, ByStages(f, first, n, size)
      PROVE  f[0] = first /\ \A i \in 1 .. n : f[i] = F!Stage(f[i - 1], i, size)
  <2>1. 0 \in 0 .. n /\ \A i \in 1 .. n : i \in 0 .. n /\ i # 0
    OBVIOUS
  <2>2. QED
    BY <1>5, <2>1, Zenon DEF ByStages
<1>6. ASSUME NEW f, ByStages(f, first, n, size) PROVE f[n] = BiAfter(came, size, n, n)
  <2>1. f[0] = closed[0] /\ \A i \in 1 .. n : f[i - 1] = closed[i - 1] => f[i] = closed[i]
    BY <1>4, <1>5, <1>6, Zenon
  <2>2. QED
    BY <1>3, <2>1, SameRuns, Zenon
<1>7. QED
  BY <1>4, <1>6, Zenon DEF StagesTo, first

\* A block gives the outputs of every stage, and keeps the last two of each.
LEMMA BiBlock ==
  ASSUME NEW size \in Nat, came \in Nat, filter.stages \in Nat, pState = BiArray(came, filter.stages),
         F!Biquad(size)
  PROVE  /\ pState' = BiArray(came + size, filter.stages) /\ sums' = BiOut(came, size, filter.stages)
         /\ wild' = wild
<1>1. PICK n \in Nat : n = filter.stages
  BY Zenon
<1> DEFINE f == CHOOSE g : ByStages(g, [s |-> pState, sums |-> <<>>], n, size)
           end == BiAfter(came, size, n, n)
<1>2. pState' = f[n].s /\ sums' = f[n].sums /\ wild' = wild
  BY <1>1, Zenon DEF F!Biquad, ByStages
<1>3. BiAfter(came, size, 0, n) = [s |-> pState, sums |-> <<>>]
  <2>1. \A i \in 0 .. 4 * n - 1 : ~(i < 4 * 0)
    OBVIOUS
  <2>2. BiMid(came, size, 0, n) = BiArray(came, n)
    BY <2>1, Zenon DEF BiMid, BiArray
  <2>3. BiOut(came, size, 0) = <<>>
    <3>1. 1 .. 0 = {}
      OBVIOUS
    <3>2. QED
      BY <3>1 DEF BiOut
  <2>4. QED
    BY <1>1, <2>2, <2>3, Zenon DEF BiAfter
<1>4. f[n] = end
  <2>1. StagesTo(BiAfter(came, size, 0, n), n, size, BiAfter(came, size, n, n))
    BY StagesAre, Zenon
  <2>2. f = CHOOSE g : ByStages(g, BiAfter(came, size, 0, n), n, size)
    BY <1>3, Zenon
  <2> HIDE DEF f
  <2>3. ByStages(f, BiAfter(came, size, 0, n), n, size)
    BY <2>1, <2>2, Zenon DEF StagesTo
  <2>4. QED
    BY <2>1, <2>3, Zenon DEF StagesTo
<1>5. end.s = BiMid(came, size, n, n) /\ end.sums = BiOut(came, size, n)
  BY Zenon DEF BiAfter
<1>6. BiMid(came, size, n, n) = BiArray(came + size, n)
  <2>1. \A i \in 0 .. 4 * n - 1 : i < 4 * n
    OBVIOUS
  <2>2. QED
    BY <2>1, Zenon DEF BiMid, BiArray
<1> HIDE DEF f, end
<1>7. QED
  BY <1>1, <1>2, <1>4, <1>5, <1>6, Zenon

\* The sum of an output of a stage is its recurrence, each product once.
LEMMA BiSumIsWhole ==
  ASSUME NEW st \in Nat \ {0}, NEW n \in Int
  PROVE  F!Has(BiSum(st, n), F!Recurrence(st, n))
<1> DEFINE c == 5 * (st - 1)
           V(m, k) == F!Value(m, k)
           sum == BiSum(st, n)
<1>1. sum = <<<<c, V(n, st - 1)>>, <<c + 1, V(n - 1, st - 1)>>, <<c + 2, V(n - 2, st - 1)>>,
              <<c + 3, V(n - 1, st)>>, <<c + 4, V(n - 2, st)>>>>
  BY Zenon DEF BiSum
<1>2. F!Recurrence(st, n) = {<<c + d, V(n - d, st - 1)>> : d \in 0 .. 2} \cup {<<c + 2 + d, V(n - d, st)>> : d \in 1 .. 2}
  BY Zenon DEF F!Recurrence
<1>3. c \in Int
  OBVIOUS
<1> HIDE DEF c, V, sum
<1>4. DOMAIN sum = 1 .. 5 /\ sum[1] = <<c, V(n, st - 1)>> /\ sum[2] = <<c + 1, V(n - 1, st - 1)>>
      /\ sum[3] = <<c + 2, V(n - 2, st - 1)>> /\ sum[4] = <<c + 3, V(n - 1, st)>> /\ sum[5] = <<c + 4, V(n - 2, st)>>
  BY <1>1
<1>5. 0 .. 2 = {0, 1, 2} /\ 1 .. 2 = {1, 2} /\ 1 .. 5 = {1, 2, 3, 4, 5}
      /\ c + 0 = c /\ n - 0 = n /\ c + 2 + 1 = c + 3 /\ c + 2 + 2 = c + 4
  BY <1>3
<1>6. ASSUME NEW p
      PROVE  p \in F!Recurrence(st, n) <=>
               p = <<c, V(n, st - 1)>> \/ p = <<c + 1, V(n - 1, st - 1)>> \/ p = <<c + 2, V(n - 2, st - 1)>>
               \/ p = <<c + 3, V(n - 1, st)>> \/ p = <<c + 4, V(n - 2, st)>>
  BY <1>2, <1>5, Zenon
<1>7. ASSUME NEW p
      PROVE  p \in F!ToSet(sum) <=> p = sum[1] \/ p = sum[2] \/ p = sum[3] \/ p = sum[4] \/ p = sum[5]
  BY <1>4, <1>5, Zenon DEF F!ToSet
<1>8. F!ToSet(sum) = F!Recurrence(st, n)
  <2>1. \A p : p \in F!ToSet(sum) <=> p \in F!Recurrence(st, n)
    BY <1>4, <1>6, <1>7, Zenon
  <2>2. QED
    BY <2>1, Zenon
<1>9. F!IsInjective(sum)
  <2>1. \A i \in 1 .. 5 : \E v : sum[i] = <<c + (i - 1), v>>
    BY <1>3, <1>4
  <2>2. ASSUME NEW i \in 1 .. 5, NEW j \in 1 .. 5, sum[i] = sum[j] PROVE i = j
    <3>1. PICK v : sum[i] = <<c + (i - 1), v>>
      BY <2>1, Zenon
    <3>2. PICK w : sum[j] = <<c + (j - 1), w>>
      BY <2>1, Zenon
    <3>3. <<c + (i - 1), v>> = <<c + (j - 1), w>>
      BY <2>2, <3>1, <3>2, Zenon
    <3>4. c + (i - 1) = c + (j - 1)
      BY ONLY <3>3
    <3>5. QED
      BY <1>3, <3>4
  <2>3. QED
    BY <1>4, <2>2, Zenon DEF F!IsInjective
<1>10. QED
  BY <1>8, <1>9, Zenon DEF F!Has, sum

\* Every output of every stage of a block.
LEMMA BiWhole ==
  ASSUME NEW number \in Nat, NEW size \in Nat, NEW stages \in Nat,
         NEW st \in DOMAIN BiOut(number, size, stages), NEW i \in DOMAIN BiOut(number, size, stages)[st]
  PROVE  F!Has(BiOut(number, size, stages)[st][i],
               F!Recurrence(st, (number + size) - Len(BiOut(number, size, stages)[st]) + i))
<1> DEFINE f == BiSums(number, st, size)
<1>1. st \in 1 .. stages /\ BiOut(number, size, stages)[st] = f
  BY Zenon DEF BiOut
<1>2. f = [m \in 1 .. size |-> f[m]] /\ DOMAIN f = 1 .. size /\ \A m \in 1 .. size : f[m] = BiSum(st, number + m)
  BY Zenon DEF BiSums
<1> HIDE DEF f
<1>3. Len(f) = size
  BY <1>2
<1>4. i \in 1 .. size
  BY <1>1, <1>2, Zenon
<1>5. st \in Nat \ {0} /\ (number + size) - size + i = number + i /\ number + i \in Int
  BY <1>1, <1>4
<1>6. F!Has(BiSum(st, number + i), F!Recurrence(st, number + i))
  BY <1>5, BiSumIsWhole, Zenon
<1>7. QED
  BY <1>1, <1>2, <1>3, <1>4, <1>5, <1>6, Zenon

\* A filter is ready for a block of any of its sizes: what it keeps of the samples that came
\* is what the next block needs.
FilterReady ==
  /\ filter \in Program \cup Small /\ came \in Nat /\ wild = FALSE
  /\ filter.kind = "fir" => \A size \in filter.blocks : FirReady(filter.room, pState, filter.taps, came, size)
  /\ filter.kind = "interpolate" =>
       \A size \in filter.blocks : PhasesReady(filter.room, pState, filter.L, filter.phase, came, size)
  /\ filter.kind = "biquad" => filter.stages \in Nat /\ pState = BiArray(came, filter.stages)

FilterInv == part = "filter" => FilterReady /\ F!SumsAreWhole

\* Before the first sample there is only silence.
LEMMA SilenceKept ==
  ASSUME NEW room \in Nat, NEW reach \in Nat \ {0}, reach - 1 <= room
  PROVE  /\ [i \in 0 .. room - 1 |-> F!Silence] \in [0 .. room - 1 -> Nat]
         /\ Kept([i \in 0 .. room - 1 |-> F!Silence], 0, reach)
<1> DEFINE s == [i \in 0 .. room - 1 |-> F!Silence]
<1>1. F!Silence \in Nat
  BY DEF F!Silence
<1>2. ASSUME NEW i \in 0 .. reach - 2 PROVE s[i] = F!Sample(0 - reach + 2 + i)
  <2>1. i \in 0 .. room - 1 /\ 0 - reach + 2 + i < 1
    OBVIOUS
  <2>2. QED
    BY <2>1, Zenon DEF F!Sample
<1>3. QED
  BY <1>1, <1>2, Zenon DEF Kept

LEMMA SilentStages ==
  ASSUME NEW stages \in Nat
  PROVE  [i \in 0 .. 4 * stages - 1 |-> F!Silence] = BiArray(0, stages)
<1>1. 0 < 1 /\ 0 - 1 < 1
  OBVIOUS
<1>2. \A i : BiCell(0, i) = F!Silence
  BY <1>1, Zenon DEF BiCell, F!Value
<1>3. QED
  BY <1>2, Zenon DEF BiArray

LEMMA FilterStarts == AllInit => FilterInv
<1> SUFFICES ASSUME AllInit PROVE FilterReady /\ F!SumsAreWhole
  BY Zenon DEF FilterInv
<1>1. /\ filter \in Program \cup Small /\ pState = [i \in 0 .. filter.room - 1 |-> F!Silence]
      /\ came = 0 /\ sums = <<>> /\ wild = FALSE
  BY Zenon DEF AllInit, F!Init
<1>2. F!FiltersAssumption
  BY ConstantsFit, Zenon
<1>3. 0 \in Nat /\ DOMAIN <<>> = {}
  OBVIOUS
<1>4. F!SumsAreWhole
  BY <1>1, <1>3, Zenon DEF F!SumsAreWhole
<1>5. filter.room \in Nat /\ filter.blocks \subseteq Nat
  BY <1>1, <1>2, Zenon DEF F!FiltersAssumption
<1>6. ASSUME filter.kind = "fir", NEW size \in filter.blocks
      PROVE  FirReady(filter.room, pState, filter.taps, came, size)
  <2>1. filter.taps \in Nat \ {0} /\ filter.taps % 2 = 0 /\ filter.taps + size <= filter.room
    BY <1>1, <1>2, <1>6, Zenon DEF F!FiltersAssumption, F!FirFilters
  <2>2. PICK room \in Nat, taps \in Nat \ {0} : room = filter.room /\ taps = filter.taps
    BY <1>5, <2>1, Zenon
  <2>3. size \in Nat /\ taps + size <= room
    BY <1>5, <2>1, <2>2, Zenon
  <2>4. taps - 1 <= room
    BY ONLY <2>3, taps \in Nat, room \in Nat
  <2>5. pState \in [0 .. room - 1 -> Nat] /\ Kept(pState, came, taps)
    BY <1>1, <2>2, <2>4, SilenceKept, Zenon
  <2>6. {room, came, size} \subseteq Nat
    BY <1>1, <1>3, <2>3, Zenon
  <2>7. QED
    BY <2>1, <2>2, <2>5, <2>6, Zenon DEF FirReady
<1>7. ASSUME filter.kind = "interpolate", NEW size \in filter.blocks
      PROVE  PhasesReady(filter.room, pState, filter.L, filter.phase, came, size)
  <2>1. filter.L \in Nat \ {0} /\ filter.phase \in Nat \ {0} /\ filter.phase - 1 + size <= filter.room
    BY <1>1, <1>2, <1>7, Zenon DEF F!FiltersAssumption
  <2>2. PICK room \in Nat, phase \in Nat \ {0} : room = filter.room /\ phase = filter.phase
    BY <1>5, <2>1, Zenon
  <2>3. size \in Nat /\ phase - 1 + size <= room
    BY <1>5, <2>1, <2>2, Zenon
  <2>4. phase - 1 <= room
    BY ONLY <2>3, phase \in Nat, room \in Nat
  <2>5. pState \in [0 .. room - 1 -> Nat] /\ Kept(pState, came, phase)
    BY <1>1, <2>2, <2>4, SilenceKept, Zenon
  <2>6. {room, came, size} \subseteq Nat /\ {filter.L, filter.phase} \subseteq Nat \ {0}
    BY <1>1, <1>3, <2>1, <2>3, Zenon
  <2>7. QED
    BY <2>1, <2>2, <2>5, <2>6, Zenon DEF PhasesReady
<1>8. ASSUME filter.kind = "biquad" PROVE filter.stages \in Nat /\ pState = BiArray(came, filter.stages)
  <2>1. filter.stages \in Nat /\ filter.room = 4 * filter.stages
    BY <1>1, <1>2, <1>8, Zenon DEF F!FiltersAssumption
  <2>2. QED
    BY <1>1, <2>1, SilentStages, Zenon
<1>9. QED
  BY <1>1, <1>3, <1>4, <1>6, <1>7, <1>8, Zenon DEF FilterReady

LEMMA FirKeeps ==
  ASSUME FilterReady, NEW size \in filter.blocks, F!FirFast(size), came' = came + size, filter' = filter
  PROVE  FilterReady' /\ F!SumsAreWhole'
<1> DEFINE taps == filter.taps
<1>1. filter.kind = "fir" /\ filter.kind # "interpolate" /\ filter.kind # "biquad"
  BY Zenon DEF F!FirFast
<1>2. FirReady(filter.room, pState, taps, came, size) /\ wild = FALSE
  BY <1>1, Zenon DEF FilterReady
<1>3. /\ pState' = F!Carried(Came(pState, taps - 1, came, size), size, taps - 1)
      /\ sums' = FirSums(came, taps, size) /\ wild' = FALSE
  BY <1>2, FirBlock, Zenon
<1>4. PICK room \in Nat, t \in Nat \ {0}, n \in Nat, k \in Nat :
        room = filter.room /\ t = taps /\ n = came /\ k = size
  BY <1>2, Zenon DEF FirReady
<1>5. pState \in [0 .. room - 1 -> Nat] /\ t + k <= room /\ Kept(pState, n, t)
  BY <1>2, <1>4, Zenon DEF FirReady
<1>6. t - 1 + k <= room /\ n + k \in Nat
  BY <1>5
<1>7. /\ F!Carried(Came(pState, t - 1, n, k), k, t - 1) \in [0 .. room - 1 -> Nat]
      /\ Kept(F!Carried(Came(pState, t - 1, n, k), k, t - 1), n + k, t)
  BY <1>5, <1>6, CarriedOn, Zenon
<1>8. came' \in Nat /\ pState' \in [0 .. room - 1 -> Nat] /\ Kept(pState', came', t)
  BY <1>3, <1>4, <1>6, <1>7, Zenon
<1>9. ASSUME NEW next \in filter.blocks PROVE FirReady(filter.room, pState', taps, came', next)
  <2>1. FirReady(filter.room, pState, taps, came, next)
    BY <1>1, Zenon DEF FilterReady
  <2>2. QED
    BY <1>4, <1>8, <2>1, Zenon DEF FirReady
<1>10. FilterReady'
  BY <1>1, <1>3, <1>8, <1>9, Zenon DEF FilterReady
<1>11. ASSUME NEW i \in DOMAIN sums' PROVE F!Has(sums'[i], F!Convolution(taps, came' - Len(sums') + i))
  <2>1. i \in DOMAIN FirSums(n, t, k)
    BY <1>3, <1>4, <1>11, Zenon
  <2>2. F!Has(FirSums(n, t, k)[i], F!Convolution(t, (n + k) - Len(FirSums(n, t, k)) + i))
    BY <2>1, FirWhole, Zenon
  <2>3. came' = n + k /\ sums' = FirSums(n, t, k)
    BY <1>3, <1>4, Zenon
  <2>4. QED
    BY <1>4, <2>2, <2>3, Zenon
<1>12. F!SumsAreWhole'
  BY <1>1, <1>3, <1>11, Zenon DEF F!SumsAreWhole
<1>13. QED
  BY <1>10, <1>12, Zenon

LEMMA PhasesKeep ==
  ASSUME FilterReady, NEW size \in filter.blocks, F!Interpolate(size), came' = came + size, filter' = filter
  PROVE  FilterReady' /\ F!SumsAreWhole'
<1> DEFINE P == filter.phase
<1>1. filter.kind = "interpolate" /\ filter.kind # "fir" /\ filter.kind # "biquad"
  BY Zenon DEF F!Interpolate
<1>2. PhasesReady(filter.room, pState, filter.L, P, came, size) /\ wild = FALSE
  BY <1>1, Zenon DEF FilterReady
<1>3. /\ pState' = F!Carried(Came(pState, P - 1, came, size), size, P - 1)
      /\ sums' = PhaseSums(came, size, filter.L, P) /\ wild' = FALSE
  BY <1>2, PhasesBlock, Zenon
<1>4. PICK room \in Nat, L \in Nat \ {0}, t \in Nat \ {0}, n \in Nat, k \in Nat :
        room = filter.room /\ L = filter.L /\ t = P /\ n = came /\ k = size
  BY <1>2, Zenon DEF PhasesReady
<1>5. pState \in [0 .. room - 1 -> Nat] /\ t - 1 + k <= room /\ Kept(pState, n, t)
  BY <1>2, <1>4, Zenon DEF PhasesReady
<1>6. n + k \in Nat
  OBVIOUS
<1>7. /\ F!Carried(Came(pState, t - 1, n, k), k, t - 1) \in [0 .. room - 1 -> Nat]
      /\ Kept(F!Carried(Came(pState, t - 1, n, k), k, t - 1), n + k, t)
  BY <1>5, CarriedOn, Zenon
<1>8. came' \in Nat /\ pState' \in [0 .. room - 1 -> Nat] /\ Kept(pState', came', t)
  BY <1>3, <1>4, <1>6, <1>7, Zenon
<1>9. ASSUME NEW next \in filter.blocks PROVE PhasesReady(filter.room, pState', filter.L, P, came', next)
  <2>1. PhasesReady(filter.room, pState, filter.L, P, came, next)
    BY <1>1, Zenon DEF FilterReady
  <2>2. QED
    BY <1>4, <1>8, <2>1, Zenon DEF PhasesReady
<1>10. FilterReady'
  BY <1>1, <1>3, <1>8, <1>9, Zenon DEF FilterReady
<1>11. ASSUME NEW i \in DOMAIN sums'
       PROVE  F!Has(sums'[i], F!Interpolation(filter.L, filter.L * P, came' * filter.L - Len(sums') + i - 1))
  <2>1. i \in DOMAIN PhaseSums(n, k, L, t)
    BY <1>3, <1>4, <1>11, Zenon
  <2>2. F!Has(PhaseSums(n, k, L, t)[i],
              F!Interpolation(L, L * t, (n + k) * L - Len(PhaseSums(n, k, L, t)) + i - 1))
    BY <2>1, PhasesWhole, Zenon
  <2>3. came' = n + k /\ sums' = PhaseSums(n, k, L, t)
    BY <1>3, <1>4, Zenon
  <2>4. QED
    BY <1>4, <2>2, <2>3, Zenon
<1>12. F!SumsAreWhole'
  BY <1>1, <1>3, <1>11, Zenon DEF F!SumsAreWhole
<1>13. QED
  BY <1>10, <1>12, Zenon

LEMMA BiquadKeeps ==
  ASSUME FilterReady, NEW size \in filter.blocks, F!Biquad(size), came' = came + size, filter' = filter
  PROVE  FilterReady' /\ F!SumsAreWhole'
<1>1. filter.kind = "biquad" /\ filter.kind # "fir" /\ filter.kind # "interpolate"
  BY Zenon DEF F!Biquad
<1>2. /\ came \in Nat /\ filter.stages \in Nat /\ pState = BiArray(came, filter.stages) /\ wild = FALSE
      /\ filter \in Program \cup Small
  BY <1>1, Zenon DEF FilterReady
<1>3. size \in Nat
  BY <1>2, ConstantsFit, Zenon DEF F!FiltersAssumption
<1>4. /\ pState' = BiArray(came + size, filter.stages) /\ sums' = BiOut(came, size, filter.stages)
      /\ wild' = FALSE
  BY <1>2, <1>3, BiBlock, Zenon
<1>5. came' \in Nat
  BY ONLY came' = came + size, <1>2, <1>3
<1>6. FilterReady'
  BY <1>1, <1>2, <1>4, <1>5, Zenon DEF FilterReady
<1>7. ASSUME NEW st \in DOMAIN sums', NEW i \in DOMAIN sums'[st]
      PROVE  F!Has(sums'[st][i], F!Recurrence(st, came' - Len(sums'[st]) + i))
  <2>1. PICK n \in Nat, k \in Nat, stages \in Nat : n = came /\ k = size /\ stages = filter.stages
    BY <1>2, <1>3, Zenon
  <2>2. sums' = BiOut(n, k, stages) /\ came' = n + k
    BY <1>4, <2>1, Zenon
  <2>3. st \in DOMAIN BiOut(n, k, stages) /\ i \in DOMAIN BiOut(n, k, stages)[st]
    BY <1>7, <2>2, Zenon
  <2>4. F!Has(BiOut(n, k, stages)[st][i],
              F!Recurrence(st, (n + k) - Len(BiOut(n, k, stages)[st]) + i))
    BY <2>3, BiWhole, Zenon
  <2>5. QED
    BY <2>2, <2>4, Zenon
<1>8. F!SumsAreWhole'
  BY <1>1, <1>4, <1>7, Zenon DEF F!SumsAreWhole
<1>9. QED
  BY <1>6, <1>8, Zenon

LEMMA FilterStutters ==
  ASSUME FilterInv, UNCHANGED <<part, filterVars>>
  PROVE  FilterInv'
<1>1. /\ part' = part /\ filter' = filter /\ pState' = pState /\ came' = came /\ sums' = sums /\ wild' = wild
  BY Zenon DEF filterVars
<1>2. QED
  BY <1>1, Zenon DEF FilterInv, FilterReady, F!SumsAreWhole

LEMMA FilterKeeps ==
  ASSUME FilterInv, [AllNext]_allVars
  PROVE  FilterInv'
<1>1. CASE UNCHANGED <<part, filterVars>>
  BY <1>1, FilterStutters, Zenon
<1>2. CASE part = "filter" /\ F!Next /\ part' = part
  <2>1. PICK size \in filter.blocks : F!Block(size)
    BY <1>2, Zenon DEF F!Next
  <2>2. /\ FilterReady /\ came' = came + size /\ filter' = filter
        /\ F!FirFast(size) \/ F!Interpolate(size) \/ F!Biquad(size)
    BY <1>2, <2>1, Zenon DEF FilterInv, F!Block
  <2>3. FilterReady' /\ F!SumsAreWhole'
    BY <2>2, FirKeeps, PhasesKeep, BiquadKeeps, Zenon
  <2>4. QED
    BY <2>3, Zenon DEF FilterInv
<1>3. UNCHANGED <<part, filterVars>> \/ (part = "filter" /\ F!Next /\ part' = part)
  BY Zenon DEF AllNext, allVars, FiltersStay
<1>4. QED
  BY <1>1, <1>2, <1>3, Zenon

\* arm_fir_fast_q15(), arm_fir_interpolate_q15() and arm_biquad_cascade_df1_q31(): whatever
\* blocks a signal is cut into, an output is the filter's sum over the whole signal, each
\* product once, and no load leaves the state array.
THEOREM FilterSums == AllSpec => []SumsAreWhole
<1>1. FilterInv /\ [AllNext]_allVars => FilterInv'
  BY FilterKeeps
<1>2. FilterInv => SumsAreWhole
  BY Zenon DEF FilterInv, SumsAreWhole
<1>3. QED
  BY <1>1, <1>2, FilterStarts, PTL DEF AllSpec

=============================================================================
