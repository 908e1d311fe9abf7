----------------------------- MODULE DmrTx_proofs -----------------------------
(***************************************************************************)
(* Proofs about DmrTx for every frame and queue size, every start-up and   *)
(* abort count and every number of host commands.                          *)
(*                                                                         *)
(* The inductive invariant adds to the types what ties the rotation to TX, *)
(* the fragments of a round to the short LC, the queues to the order of    *)
(* the host's frames, and the host's credit to the room in the queues.     *)
(***************************************************************************)
EXTENDS DmrTx, SequenceTheorems, TLAPS

\* While TX stays on, the state is the one that follows the last burst, or the
\* rotation has been stopped.
RotationInv == burst # "none" => m_tx /\ m_state \in {"IDLE", Follows[burst]}

\* The fragments sent in this round are those of m_shortLC.
RoundInv == \A i \in 1 .. Len(round) : round[i] = m_shortLC

\* What a slot has sent is older than what it has queued, and nothing is newer
\* than the last frame written.
OrderInv ==
  \A s \in Slots :
    /\ sent[s] <= written
    /\ \A i \in 1 .. Len(m_fifo[s]) : sent[s] < m_fifo[s][i] /\ m_fifo[s][i] <= written
    /\ \A i, j \in 1 .. Len(m_fifo[s]) : i < j => m_fifo[s][i] < m_fifo[s][j]

\* The host's credit is room for whole frames.
CreditInv == ~overdrawn => ~lost /\ \A s \in Slots : FrameBytes * credit[s] <= SpaceBytes(s)

-----------------------------------------------------------------------------
(* The steps *)

\* BeginBurst is one of these, for a slot.
BeginData(s) ==
  /\ m_modemState = "DMR" /\ m_poLeft = 0
  /\ m_state = (IF s = 1 THEN "SLOT1" ELSE "SLOT2")
  /\ CreateData(s)
  /\ m_state' = (IF s = 1 THEN "CACH2" ELSE "CACH1")
  /\ m_tx' = TRUE
  /\ UNCHANGED <<m_modemState, fifoLen, hostVars, written, lost>>

BeginCACH(s) ==
  /\ m_modemState = "DMR" /\ m_poLeft = 0
  /\ m_state = (IF s = 1 THEN "CACH1" ELSE "CACH2")
  /\ CreateCACH(s)
  /\ m_state' = (IF s = 1 THEN "SLOT1" ELSE "SLOT2")
  /\ m_tx' = TRUE
  /\ UNCHANGED <<m_modemState, fifoLen, hostVars, written, lost>>

LEMMA BurstCases == BeginBurst => \E s \in Slots : BeginData(s) \/ BeginCACH(s)
<1> SUFFICES ASSUME BeginBurst PROVE \E s \in Slots : BeginData(s) \/ BeginCACH(s)
  OBVIOUS
<1>0. 1 \in Slots /\ 2 \in Slots
  BY DEF Slots
<1>1. CASE m_state = "SLOT1" /\ CreateData(1)
  <2>1. BeginData(1)
    BY <1>1 DEF BeginBurst, BeginData, Follows
  <2>2. QED BY <2>1, <1>0
<1>2. CASE m_state = "CACH2" /\ CreateCACH(2)
  <2>1. BeginCACH(2)
    BY <1>2 DEF BeginBurst, BeginCACH, Follows
  <2>2. QED BY <2>1, <1>0
<1>3. CASE m_state = "SLOT2" /\ CreateData(2)
  <2>1. BeginData(2)
    BY <1>3 DEF BeginBurst, BeginData, Follows
  <2>2. QED BY <2>1, <1>0
<1>4. CASE m_state = "CACH1" /\ CreateCACH(1)
  <2>1. BeginCACH(1)
    BY <1>4 DEF BeginBurst, BeginCACH, Follows
  <2>2. QED BY <2>1, <1>0
<1>5. QED BY <1>1, <1>2, <1>3, <1>4 DEF BeginBurst

LEMMA StepCases ==
  [Next]_vars =>
    \/ GetStatus
    \/ \E s \in Slots : \/ DataRefused(s) \/ DataQueued(s) \/ WriteAbort(s) \/ Clear(s)
                        \/ BeginData(s) \/ BeginCACH(s)
    \/ \E start \in BOOLEAN : Start(start)
    \/ WriteShortLC
    \/ \E len \in BufferLens : SetBuffers(len)
    \/ \E mode \in {"IDLE", "DMR", "P25"} : SetMode(mode)
    \/ WatchdogExpires \/ SendBytes \/ TxOff \/ UNCHANGED vars
  BY BurstCases DEF Next, HostStep

\* The rotation as a function on four names.
LEMMA FollowsValues ==
  /\ DOMAIN Follows = {"SLOT1", "CACH2", "SLOT2", "CACH1"}
  /\ Follows["SLOT1"] = "CACH2" /\ Follows["CACH2"] = "SLOT2"
  /\ Follows["SLOT2"] = "CACH1" /\ Follows["CACH1"] = "SLOT1"
  BY DEF Follows

LEMMA SaturateBounded ==
  ASSUME NEW n \in Nat, NEW max \in Nat, n <= max
  PROVE  Saturate(n, max) \in 0 .. max
  BY DEF Saturate

\* Taking the oldest frame off a queue.
LEMMA TailOfQueue ==
  ASSUME NEW q \in Seq(Nat), q # <<>>
  PROVE  /\ Head(q) \in Nat /\ Tail(q) \in Seq(Nat)
         /\ Len(q) \in Nat /\ Len(Tail(q)) = Len(q) - 1 /\ Len(q) >= 1
         /\ Head(q) = q[1]
         /\ \A i \in 1 .. Len(Tail(q)) : Tail(q)[i] = q[i + 1]
  BY HeadTailProperties, LenProperties, EmptySeq

\* Appending a frame to a queue.
LEMMA QueueAppend ==
  ASSUME NEW q \in Seq(Nat), NEW n \in Nat
  PROVE  /\ Append(q, n) \in Seq(Nat)
         /\ Len(q) \in Nat /\ Len(Append(q, n)) = Len(q) + 1
         /\ \A i \in 1 .. Len(q) : Append(q, n)[i] = q[i]
         /\ Append(q, n)[Len(q) + 1] = n
  BY AppendProperties, LenProperties

LEMMA SingleFrame ==
  ASSUME NEW n \in Nat
  PROVE  <<n>> \in Seq(Nat) /\ Len(<<n>>) = 1 /\ <<n>>[1] = n
  OBVIOUS

-----------------------------------------------------------------------------
(* The rotation and the short LC *)

\* The rotation goes on from the last burst, or stands still until TX is off.
LEMMA RotationHolds == TypeOK /\ RotationInv /\ [Next]_vars => RotationInv'
<1> SUFFICES ASSUME TypeOK /\ RotationInv, [Next]_vars PROVE RotationInv'
  OBVIOUS
<1> USE DEF RotationInv
<1>1. CASE GetStatus
  BY <1>1 DEF GetStatus, airVars, hostVars, countVars, lcVars
<1>2. ASSUME NEW s \in Slots, DataRefused(s) PROVE RotationInv'
  BY <1>2 DEF DataRefused, airVars, hostVars, countVars, lcVars
<1>3. ASSUME NEW s \in Slots, DataQueued(s) PROVE RotationInv'
  BY <1>3 DEF DataQueued, airVars
<1>4. ASSUME NEW s \in Slots, WriteAbort(s) PROVE RotationInv'
  BY <1>4 DEF WriteAbort, airVars, hostVars, countVars, lcVars
<1>5. ASSUME NEW s \in Slots, Clear(s) PROVE RotationInv'
  BY <1>5 DEF Clear, airVars, hostVars, countVars, lcVars
<1>6. ASSUME NEW start \in BOOLEAN, Start(start) PROVE RotationInv'
  BY <1>6 DEF Start, SetStart, airVars
<1>7. CASE WriteShortLC
  BY <1>7 DEF WriteShortLC, airVars, hostVars, countVars, lcVars
<1>8. ASSUME NEW len \in BufferLens, SetBuffers(len) PROVE RotationInv'
  BY <1>8 DEF SetBuffers, airVars, hostVars, countVars, lcVars
<1>9. ASSUME NEW mode \in {"IDLE", "DMR", "P25"}, SetMode(mode) PROVE RotationInv'
  BY <1>9 DEF SetMode, airVars, hostVars, countVars, lcVars
<1>10. CASE WatchdogExpires
  BY <1>10 DEF WatchdogExpires, SetStart, airVars, countVars
<1>11. ASSUME NEW s \in Slots, BeginData(s) PROVE RotationInv'
  BY <1>11, FollowsValues DEF BeginData, CreateData, Slots, hostVars, countVars, lcVars
<1>12. ASSUME NEW s \in Slots, BeginCACH(s) PROVE RotationInv'
  BY <1>12, FollowsValues DEF BeginCACH, CreateCACH, Slots, hostVars, countVars, lcVars
<1>13. CASE SendBytes
  BY <1>13 DEF SendBytes, airVars, hostVars, countVars, lcVars
<1>14. CASE TxOff
  BY <1>14 DEF TxOff, airVars, hostVars, countVars, lcVars
<1>15. CASE UNCHANGED vars
  BY <1>15 DEF vars, airVars
<1>16. QED
  BY <1>1, <1>2, <1>3, <1>4, <1>5, <1>6, <1>7, <1>8, <1>9,
     <1>10, <1>11, <1>12, <1>13, <1>14, <1>15, StepCases

\* A round is begun with its own short LC and goes on with the same one.
LEMMA RoundHolds == TypeOK /\ RoundInv /\ [Next]_vars => RoundInv'
<1> SUFFICES ASSUME TypeOK /\ RoundInv, [Next]_vars PROVE RoundInv'
  OBVIOUS
<1> USE DEF RoundInv
<1>1. CASE GetStatus
  BY <1>1 DEF GetStatus, lcVars
<1>2. ASSUME NEW s \in Slots, DataRefused(s) PROVE RoundInv'
  BY <1>2 DEF DataRefused, lcVars
<1>3. ASSUME NEW s \in Slots, DataQueued(s) PROVE RoundInv'
  BY <1>3 DEF DataQueued, lcVars
<1>4. ASSUME NEW s \in Slots, WriteAbort(s) PROVE RoundInv'
  BY <1>4 DEF WriteAbort, lcVars
<1>5. ASSUME NEW s \in Slots, Clear(s) PROVE RoundInv'
  BY <1>5 DEF Clear, lcVars
<1>6. ASSUME NEW start \in BOOLEAN, Start(start) PROVE RoundInv'
  BY <1>6 DEF Start, lcVars
<1>7. CASE WriteShortLC
  BY <1>7 DEF WriteShortLC
<1>8. ASSUME NEW len \in BufferLens, SetBuffers(len) PROVE RoundInv'
  BY <1>8 DEF SetBuffers, lcVars
<1>9. ASSUME NEW mode \in {"IDLE", "DMR", "P25"}, SetMode(mode) PROVE RoundInv'
  BY <1>9 DEF SetMode, lcVars
<1>10. CASE WatchdogExpires
  BY <1>10 DEF WatchdogExpires, lcVars
<1>11. ASSUME NEW s \in Slots, BeginData(s) PROVE RoundInv'
  BY <1>11 DEF BeginData, CreateData, lcVars
<1>12. ASSUME NEW s \in Slots, BeginCACH(s) PROVE RoundInv'
  <2>1. CASE m_cachPtr \in {0, Fragments}
    BY <1>12, <2>1 DEF BeginCACH, CreateCACH
  <2>2. CASE m_cachPtr \notin {0, Fragments}
    <3>1. m_shortLC' = m_shortLC /\ round' = Append(round, m_shortLC)
      BY <1>12, <2>2 DEF BeginCACH, CreateCACH
    <3>2. round \in Seq(Nat) /\ m_shortLC \in Nat
      BY DEF TypeOK
    <3>3. QED
      BY <3>1, <3>2, QueueAppend
  <2>3. QED
    BY <2>1, <2>2
<1>13. CASE SendBytes
  BY <1>13 DEF SendBytes, lcVars
<1>14. CASE TxOff
  BY <1>14 DEF TxOff, lcVars
<1>15. CASE UNCHANGED vars
  BY <1>15 DEF vars, lcVars
<1>16. QED
  BY <1>1, <1>2, <1>3, <1>4, <1>5, <1>6, <1>7, <1>8, <1>9,
     <1>10, <1>11, <1>12, <1>13, <1>14, <1>15, StepCases

-----------------------------------------------------------------------------
(* The order of the frames *)

\* Frames are numbered as they are written and leave their queue from its head.
LEMMA OrderHolds == TypeOK /\ OrderInv /\ [Next]_vars => OrderInv'
<1> SUFFICES ASSUME TypeOK /\ OrderInv, [Next]_vars PROVE OrderInv'
  OBVIOUS
<1>1. CASE GetStatus
  BY <1>1 DEF GetStatus, OrderInv, lcVars, countVars, airVars, hostVars, Spend
<1>2. ASSUME NEW s \in Slots, DataRefused(s) PROVE OrderInv'
  <2>1. m_fifo' = [m_fifo EXCEPT ![s] = <<>>] /\ UNCHANGED <<sent, written>>
    BY <1>2 DEF DataRefused, airVars
  <2>2. Len(<<>>) = 0
    OBVIOUS
  <2>3. QED
    BY <2>1, <2>2 DEF OrderInv, TypeOK
<1>3. ASSUME NEW s \in Slots, DataQueued(s) PROVE OrderInv'
  <2>1. /\ written' = written + 1 /\ sent' = sent /\ written \in Nat
        /\ m_fifo' = [m_fifo EXCEPT ![s] = IF m_abort[s] THEN <<written'>>
                                           ELSE Append(m_fifo[s], written')]
    BY <1>3 DEF DataQueued, airVars, TypeOK
  <2>2. \A t \in Slots : sent[t] \in Nat /\ m_fifo[t] \in Seq(Nat)
    BY DEF TypeOK
  <2> SUFFICES ASSUME NEW t \in Slots
               PROVE  LET q == m_fifo[t]' IN
                      /\ sent[t] <= written'
                      /\ \A i \in 1 .. Len(q) : sent[t] < q[i] /\ q[i] <= written'
                      /\ \A i, j \in 1 .. Len(q) : i < j => q[i] < q[j]
    BY <2>1 DEF OrderInv
  <2>3. CASE t = s /\ m_abort[s]
    BY <2>1, <2>2, <2>3, SingleFrame DEF OrderInv, TypeOK
  <2>4. CASE t = s /\ ~m_abort[s]
    <3>1. m_fifo[t]' = Append(m_fifo[t], written + 1)
      BY <2>1, <2>4 DEF TypeOK
    <3>2. /\ Len(m_fifo[t]) \in Nat /\ Len(m_fifo[t]') = Len(m_fifo[t]) + 1
          /\ \A i \in 1 .. Len(m_fifo[t]) : m_fifo[t]'[i] = m_fifo[t][i] /\ m_fifo[t][i] \in Nat
          /\ m_fifo[t]'[Len(m_fifo[t]) + 1] = written + 1
      BY <2>1, <2>2, <3>1, QueueAppend, ElementOfSeq
    <3>3. /\ sent[t] \in Nat /\ sent[t] <= written
          /\ \A i \in 1 .. Len(m_fifo[t]) : sent[t] < m_fifo[t][i] /\ m_fifo[t][i] <= written
          /\ \A i, j \in 1 .. Len(m_fifo[t]) : i < j => m_fifo[t][i] < m_fifo[t][j]
      BY <2>2 DEF OrderInv
    <3>4. \A i \in 1 .. Len(m_fifo[t]') :
            \/ i \in 1 .. Len(m_fifo[t]) /\ m_fifo[t]'[i] = m_fifo[t][i]
            \/ i = Len(m_fifo[t]) + 1 /\ m_fifo[t]'[i] = written + 1
      BY <3>2
    <3>5. /\ sent[t] <= written'
          /\ \A i \in 1 .. Len(m_fifo[t]') : sent[t] < m_fifo[t]'[i] /\ m_fifo[t]'[i] <= written'
      BY <2>1, <3>2, <3>3, <3>4
    <3>6. \A i, j \in 1 .. Len(m_fifo[t]') : i < j => m_fifo[t]'[i] < m_fifo[t]'[j]
      BY <2>1, <3>2, <3>3, <3>4
    <3>7. QED
      BY <3>5, <3>6
  <2>5. CASE t # s
    <3>1. m_fifo[t]' = m_fifo[t]
      BY <2>1, <2>5 DEF TypeOK
    <3>2. \A i \in 1 .. Len(m_fifo[t]) : m_fifo[t][i] \in Nat
      BY <2>2, ElementOfSeq
    <3>3. /\ sent[t] \in Nat /\ sent[t] <= written
          /\ \A i \in 1 .. Len(m_fifo[t]) : sent[t] < m_fifo[t][i] /\ m_fifo[t][i] <= written
          /\ \A i, j \in 1 .. Len(m_fifo[t]) : i < j => m_fifo[t][i] < m_fifo[t][j]
      BY <2>2 DEF OrderInv
    <3>4. QED
      BY <2>1, <3>1, <3>2, <3>3
  <2>6. QED
    BY <2>3, <2>4, <2>5
<1>4. ASSUME NEW s \in Slots, WriteAbort(s) PROVE OrderInv'
  BY <1>4 DEF WriteAbort, OrderInv, lcVars, countVars, airVars, hostVars, Spend
<1>5. ASSUME NEW s \in Slots, Clear(s) PROVE OrderInv'
  <2>1. m_fifo' = [m_fifo EXCEPT ![s] = <<>>] /\ UNCHANGED <<sent, written>>
    BY <1>5 DEF Clear, airVars
  <2>2. Len(<<>>) = 0
    OBVIOUS
  <2>3. QED
    BY <2>1, <2>2 DEF OrderInv, TypeOK
<1>6. ASSUME NEW start \in BOOLEAN, Start(start) PROVE OrderInv'
  BY <1>6 DEF Start, OrderInv, lcVars, countVars, airVars, hostVars, SetStart
<1>7. CASE WriteShortLC
  BY <1>7 DEF WriteShortLC, OrderInv, lcVars, countVars, airVars, hostVars, Spend
<1>8. ASSUME NEW len \in BufferLens, SetBuffers(len) PROVE OrderInv'
  <2>1. m_fifo' = [t \in Slots |-> <<>>] /\ UNCHANGED <<sent, written>>
    BY <1>8 DEF SetBuffers, airVars
  <2>2. Len(<<>>) = 0
    OBVIOUS
  <2>3. QED
    BY <2>1, <2>2 DEF OrderInv, TypeOK
<1>9. ASSUME NEW mode \in {"IDLE", "DMR", "P25"}, SetMode(mode) PROVE OrderInv'
  BY <1>9 DEF SetMode, OrderInv, lcVars, countVars, airVars, hostVars, Spend
<1>10. CASE WatchdogExpires
  BY <1>10 DEF WatchdogExpires, OrderInv, lcVars, countVars, airVars, hostVars, SetStart
<1>11. ASSUME NEW s \in Slots, BeginData(s) PROVE OrderInv'
  <2>1. CASE UNCHANGED <<m_fifo, sent, written>>
    BY <2>1 DEF OrderInv
  <2>2. CASE /\ m_fifo[s] # <<>> /\ written' = written
             /\ sent' = [sent EXCEPT ![s] = Head(m_fifo[s])]
             /\ m_fifo' = [m_fifo EXCEPT ![s] = Tail(m_fifo[s])]
    <3>1. \A t \in Slots : sent[t] \in Nat /\ m_fifo[t] \in Seq(Nat)
      BY DEF TypeOK
    <3> SUFFICES ASSUME NEW t \in Slots
                 PROVE  LET q == m_fifo[t]' IN
                        /\ sent[t]' <= written
                        /\ \A i \in 1 .. Len(q) : sent[t]' < q[i] /\ q[i] <= written
                        /\ \A i, j \in 1 .. Len(q) : i < j => q[i] < q[j]
      BY <2>2 DEF OrderInv
    <3>2. CASE t = s
      <4>1. m_fifo[t]' = Tail(m_fifo[t]) /\ sent[t]' = m_fifo[t][1]
        BY <2>2, <3>1, <3>2, TailOfQueue DEF TypeOK
      <4>2. /\ Len(m_fifo[t]) \in Nat /\ Len(m_fifo[t]) >= 1
            /\ Len(m_fifo[t]') = Len(m_fifo[t]) - 1
            /\ \A i \in 1 .. Len(m_fifo[t]') : m_fifo[t]'[i] = m_fifo[t][i + 1]
        <5>1. m_fifo[t] \in Seq(Nat) /\ m_fifo[t] # <<>>
          BY <2>2, <3>1, <3>2
        <5>2. QED
          BY <4>1, <5>1, TailOfQueue
      <4>3. QED
        BY <4>1, <4>2 DEF OrderInv
    <3>3. CASE t # s
      <4>1. m_fifo[t]' = m_fifo[t] /\ sent[t]' = sent[t]
        BY <2>2, <3>3 DEF TypeOK
      <4>2. QED
        BY <4>1 DEF OrderInv
    <3>4. QED
      BY <3>2, <3>3
  <2>3. QED
    BY <1>11, <2>1, <2>2 DEF BeginData, CreateData
<1>12. ASSUME NEW s \in Slots, BeginCACH(s) PROVE OrderInv'
  BY <1>12 DEF BeginCACH, CreateCACH, OrderInv, lcVars, countVars, airVars, hostVars
<1>13. CASE SendBytes
  BY <1>13 DEF SendBytes, OrderInv, lcVars, countVars, airVars, hostVars, Spend
<1>14. CASE TxOff
  BY <1>14 DEF TxOff, OrderInv, lcVars, countVars, airVars, hostVars, Spend
<1>15. CASE UNCHANGED vars
  BY <1>15 DEF vars, OrderInv, airVars
<1>16. QED
  BY <1>1, <1>2, <1>3, <1>4, <1>5, <1>6, <1>7, <1>8, <1>9,
     <1>10, <1>11, <1>12, <1>13, <1>14, <1>15, StepCases

-----------------------------------------------------------------------------
(* The host's credit *)

\* What the status reports is room for whole frames, although it is rounded and
\* cut to a byte.
LEMMA SpaceIsRoom ==
  ASSUME TypeOK, NEW s \in Slots
  PROVE  /\ SpaceBytes(s) \in Nat
         /\ FrameSpace(s) \in 0 .. 255
         /\ FrameBytes * FrameSpace(s) <= SpaceBytes(s)
<1> DEFINE n == SpaceBytes(s) \div (FrameBytes + 2)
<1>1. SpaceBytes(s) \in Nat /\ FrameBytes \in Nat
  <2>1. FrameBytes \in Nat /\ fifoLen \in Nat /\ Len(m_fifo[s]) \in Nat
    BY DmrTxAssumption, LenProperties DEF TypeOK
  <2>2. FrameBytes * Len(m_fifo[s]) \in Nat /\ FrameBytes * Len(m_fifo[s]) <= fifoLen
    BY <2>1 DEF TypeOK
  <2>3. QED
    BY <2>1, <2>2 DEF SpaceBytes
<1>2. n \in Nat /\ (FrameBytes + 2) * n <= SpaceBytes(s)
  BY <1>1
<1>3. FrameSpace(s) \in 0 .. 255 /\ FrameSpace(s) <= n
  BY <1>2 DEF FrameSpace
<1> HIDE DEF n
<1>4. FrameBytes * FrameSpace(s) <= FrameBytes * n
  BY <1>1, <1>2, <1>3
<1>5. FrameBytes * n <= (FrameBytes + 2) * n
  BY <1>1, <1>2
<1>6. QED
  BY <1>1, <1>2, <1>3, <1>4, <1>5

LEMMA Multiples ==
  ASSUME NEW f \in Nat, NEW m \in Nat, NEW n \in Nat
  PROVE  /\ f * m \in Nat
         /\ m <= n => f * m <= f * n
         /\ f * (m + 1) = f * m + f
  OBVIOUS

\* The bytes left beside n frames.
LEMMA RoomLeft ==
  ASSUME NEW len \in Nat, NEW m \in Nat, NEW n \in Nat, m <= n
  PROVE  len - FrameBytes * n <= len - FrameBytes * m
<1>1. FrameBytes \in Nat
  BY DmrTxAssumption
<1>2. FrameBytes * m \in Nat /\ FrameBytes * n \in Nat /\ FrameBytes * m <= FrameBytes * n
  BY <1>1, Multiples
<1>3. QED
  BY <1>2

\* The sizes are numbers.
Sizes ==
  /\ fifoLen \in Nat /\ FrameBytes \in Nat /\ FrameBytes # 0
  /\ \A t \in Slots : /\ m_fifo[t] \in Seq(Nat) /\ Len(m_fifo[t]) \in Nat
                       /\ credit[t] \in Nat
                       /\ FrameBytes * Len(m_fifo[t]) \in Nat
                       /\ FrameBytes * credit[t] \in Nat

LEMMA TypedSizes == TypeOK => Sizes
<1> SUFFICES ASSUME TypeOK PROVE Sizes
  OBVIOUS
<1>1. fifoLen \in Nat /\ FrameBytes \in Nat /\ FrameBytes # 0
  BY DmrTxAssumption DEF TypeOK
<1>2. ASSUME NEW t \in Slots
      PROVE  m_fifo[t] \in Seq(Nat) /\ Len(m_fifo[t]) \in Nat /\ credit[t] \in Nat
  <2>1. m_fifo \in [Slots -> Seq(Nat)] /\ credit \in [Slots -> 0 .. 255]
    BY DEF TypeOK
  <2>2. m_fifo[t] \in Seq(Nat) /\ credit[t] \in 0 .. 255
    BY <2>1, <1>2
  <2>3. Len(m_fifo[t]) \in Nat
    BY <2>2, LenProperties
  <2>4. \A n \in 0 .. 255 : n \in Nat
    OBVIOUS
  <2>5. QED
    BY <2>2, <2>3, <2>4, Zenon
<1>3. QED
  BY <1>1, <1>2, Multiples DEF Sizes

\* Room in a queue is only taken by frames, and a frame within credit takes one
\* credit and one frame of room.
LEMMA CreditHolds == TypeOK /\ CreditInv /\ [Next]_vars => CreditInv'
<1> SUFFICES ASSUME TypeOK /\ CreditInv, [Next]_vars PROVE CreditInv'
  OBVIOUS
<1>1. CASE GetStatus
  <2>1. \A s \in Slots : credit'[s] = FrameSpace(s) /\ SpaceBytes(s)' = SpaceBytes(s)
    BY <1>1 DEF GetStatus, SpaceBytes
  <2>2. UNCHANGED <<lost, overdrawn>>
    BY <1>1 DEF GetStatus
  <2>3. QED
    BY <2>1, <2>2, SpaceIsRoom DEF CreditInv
<1>2. ASSUME NEW s \in Slots, DataRefused(s) PROVE CreditInv'
  <2>0. Sizes
    BY TypedSizes
  <2>1. /\ m_fifo' = [m_fifo EXCEPT ![s] = <<>>]
        /\ UNCHANGED fifoLen /\ SpaceBytes(s) < FrameBytes
        /\ credit' = [credit EXCEPT ![s] = IF credit[s] = 0 THEN 0 ELSE credit[s] - 1]
        /\ overdrawn' = (overdrawn \/ credit[s] = 0)
    BY <1>2 DEF DataRefused, Spend
  <2>2. ASSUME ~overdrawn' PROVE FALSE
    <3>1. ~overdrawn /\ credit[s] # 0
      BY <2>1, <2>2
    <3>2. FrameBytes * credit[s] <= SpaceBytes(s)
      BY <3>1 DEF CreditInv
    <3>3. FrameBytes * 1 = FrameBytes /\ FrameBytes * 1 <= FrameBytes * credit[s]
      BY <2>0, <3>1, Multiples DEF Sizes
    <3>4. SpaceBytes(s) \in Int
      BY <2>0 DEF SpaceBytes, Sizes
    <3>5. QED
      BY <2>0, <2>1, <3>2, <3>3, <3>4 DEF Sizes
  <2>3. QED
    BY <2>2 DEF CreditInv
<1>3. ASSUME NEW s \in Slots, DataQueued(s) PROVE CreditInv'
  <2>0. Sizes
    BY TypedSizes
  <2>1. /\ m_fifo' = [m_fifo EXCEPT ![s] = IF m_abort[s] THEN <<written + 1>>
                                           ELSE Append(m_fifo[s], written + 1)]
        /\ UNCHANGED <<fifoLen, lost>>
        /\ credit' = [credit EXCEPT ![s] = IF credit[s] = 0 THEN 0 ELSE credit[s] - 1]
        /\ overdrawn' = (overdrawn \/ credit[s] = 0)
        /\ written \in Nat
    BY <1>3 DEF DataQueued, Spend, TypeOK
  <2> SUFFICES ASSUME ~overdrawn', NEW t \in Slots
               PROVE  ~lost' /\ FrameBytes * credit'[t] <= SpaceBytes(t)'
    BY DEF CreditInv
  <2>2. ~overdrawn /\ credit[s] # 0 /\ ~lost'
    BY <2>1 DEF CreditInv
  <2>3. FrameBytes * credit[t] <= SpaceBytes(t)
    BY <2>2 DEF CreditInv
  <2>4. CASE t # s
    <3>1. m_fifo'[t] = m_fifo[t] /\ credit'[t] = credit[t]
      BY <2>1, <2>4 DEF TypeOK
    <3>2. QED
      BY <2>1, <2>2, <2>3, <3>1 DEF SpaceBytes
  <2>5. CASE t = s
    <3>1. credit'[t] = credit[t] - 1 /\ credit[t] - 1 \in Nat
      BY <2>0, <2>1, <2>2, <2>5 DEF TypeOK, Sizes
    <3>2. Len(m_fifo'[t]) \in Nat /\ Len(m_fifo'[t]) <= Len(m_fifo[t]) + 1
      BY <2>0, <2>1, <2>5, QueueAppend, SingleFrame DEF TypeOK, Sizes
    <3>3. FrameBytes * credit[t] = FrameBytes * (credit[t] - 1) + FrameBytes
      <4>1. FrameBytes * ((credit[t] - 1) + 1) = FrameBytes * (credit[t] - 1) + FrameBytes
        BY <2>0, <3>1, Multiples DEF Sizes
      <4>2. (credit[t] - 1) + 1 = credit[t]
        BY <2>0 DEF Sizes
      <4>3. QED
        BY <4>1, <4>2
    <3>4. FrameBytes * (Len(m_fifo[t]) + 1) = FrameBytes * Len(m_fifo[t]) + FrameBytes
      BY <2>0, Multiples DEF Sizes
    <3>5. fifoLen - FrameBytes * (Len(m_fifo[t]) + 1) <= fifoLen - FrameBytes * Len(m_fifo'[t])
      BY <2>0, <3>2, RoomLeft DEF Sizes
    <3>6. /\ FrameBytes * (credit[t] - 1) \in Nat
          /\ FrameBytes * Len(m_fifo'[t]) \in Nat
      BY <2>0, <3>1, <3>2, Multiples DEF Sizes
    <3> DEFINE spent == FrameBytes * (credit[t] - 1)
               before == FrameBytes * Len(m_fifo[t])
               after == FrameBytes * Len(m_fifo'[t])
    <3>7. /\ spent \in Nat /\ before \in Nat /\ after \in Nat
          /\ spent + FrameBytes <= fifoLen - before
          /\ fifoLen - (before + FrameBytes) <= fifoLen - after
      BY <2>0, <2>3, <3>3, <3>4, <3>5, <3>6 DEF SpaceBytes, Sizes
    <3> HIDE DEF spent, before, after
    <3>8. spent <= fifoLen - after
      BY <2>0, <3>7 DEF Sizes
    <3>9. QED
      BY <2>1, <2>2, <3>1, <3>8 DEF spent, after, SpaceBytes
  <2>6. QED
    BY <2>4, <2>5
<1>4. ASSUME NEW s \in Slots, WriteAbort(s) PROVE CreditInv'
  BY <1>4 DEF WriteAbort, CreditInv, lcVars, countVars, airVars, hostVars, SpaceBytes
<1>5. ASSUME NEW s \in Slots, Clear(s) PROVE CreditInv'
  <2>0. Sizes
    BY TypedSizes
  <2>1. /\ m_fifo' = [m_fifo EXCEPT ![s] = <<>>]
        /\ UNCHANGED <<fifoLen, credit, overdrawn, lost>>
    BY <1>5 DEF Clear
  <2>2. \A t \in Slots : Len(m_fifo'[t]) \in Nat /\ Len(m_fifo'[t]) <= Len(m_fifo[t])
    <3>1. Len(<<>>) = 0
      OBVIOUS
    <3>2. QED
      BY <2>0, <2>1, <3>1 DEF TypeOK, Sizes
  <2>3. \A t \in Slots : SpaceBytes(t) <= SpaceBytes(t)'
    BY <2>0, <2>1, <2>2, RoomLeft DEF SpaceBytes, Sizes
  <2>4. \A t \in Slots : SpaceBytes(t) \in Int /\ SpaceBytes(t)' \in Int
    <3>1. \A t \in Slots : FrameBytes * Len(m_fifo'[t]) \in Nat
      BY <2>0, <2>2, Multiples DEF Sizes
    <3>2. QED
      BY <2>0, <2>1, <3>1 DEF SpaceBytes, Sizes
  <2>5. QED
    BY <2>0, <2>1, <2>3, <2>4 DEF CreditInv, Sizes
<1>6. ASSUME NEW start \in BOOLEAN, Start(start) PROVE CreditInv'
  BY <1>6 DEF Start, CreditInv, lcVars, countVars, airVars, SetStart, SpaceBytes
<1>7. CASE WriteShortLC
  BY <1>7 DEF WriteShortLC, CreditInv, lcVars, countVars, airVars, hostVars, SpaceBytes
<1>8. ASSUME NEW len \in BufferLens, SetBuffers(len) PROVE CreditInv'
  <2>1. m_fifo' = [t \in Slots |-> <<>>] /\ fifoLen' = len /\ credit' = [t \in Slots |-> 0]
    BY <1>8 DEF SetBuffers
  <2>2. UNCHANGED <<overdrawn, lost>> /\ len \in Nat /\ FrameBytes \in Nat /\ Len(<<>>) = 0
    BY <1>8, DmrTxAssumption DEF SetBuffers
  <2>3. FrameBytes * 0 = 0
    BY <2>2
  <2>4. QED
    BY <2>1, <2>2, <2>3 DEF CreditInv, SpaceBytes
<1>9. ASSUME NEW mode \in {"IDLE", "DMR", "P25"}, SetMode(mode) PROVE CreditInv'
  BY <1>9 DEF SetMode, CreditInv, lcVars, countVars, airVars, hostVars, SpaceBytes
<1>10. CASE WatchdogExpires
  BY <1>10 DEF WatchdogExpires, CreditInv, lcVars, countVars, airVars, SetStart, SpaceBytes
<1>11. ASSUME NEW s \in Slots, BeginData(s) PROVE CreditInv'
  <2>0. Sizes
    BY TypedSizes
  <2>1. UNCHANGED <<fifoLen, credit, overdrawn, lost>>
    BY <1>11 DEF BeginData, hostVars
  <2>2. \A t \in Slots : Len(m_fifo'[t]) \in Nat /\ Len(m_fifo'[t]) <= Len(m_fifo[t])
    <3>1. CASE m_fifo' = m_fifo
      BY <2>0, <3>1 DEF Sizes
    <3>2. CASE m_fifo[s] # <<>> /\ m_fifo' = [m_fifo EXCEPT ![s] = Tail(m_fifo[s])]
      <4>1. Len(Tail(m_fifo[s])) \in Nat /\ Len(Tail(m_fifo[s])) <= Len(m_fifo[s])
        <5>1. m_fifo[s] \in Seq(Nat) /\ m_fifo[s] # <<>>
          BY <2>0, <3>2 DEF Sizes
        <5>2. QED
          BY <5>1, TailOfQueue
      <4>2. QED
        BY <2>0, <3>2, <4>1 DEF TypeOK, Sizes
    <3>3. QED
      BY <1>11, <3>1, <3>2 DEF BeginData, CreateData
  <2>3. \A t \in Slots : SpaceBytes(t) <= SpaceBytes(t)'
    BY <2>0, <2>1, <2>2, RoomLeft DEF SpaceBytes, Sizes
  <2>4. \A t \in Slots : SpaceBytes(t) \in Int /\ SpaceBytes(t)' \in Int
    <3>1. \A t \in Slots : FrameBytes * Len(m_fifo'[t]) \in Nat
      BY <2>0, <2>2, Multiples DEF Sizes
    <3>2. QED
      BY <2>0, <2>1, <3>1 DEF SpaceBytes, Sizes
  <2>5. QED
    BY <2>0, <2>1, <2>3, <2>4 DEF CreditInv, Sizes
<1>12. ASSUME NEW s \in Slots, BeginCACH(s) PROVE CreditInv'
  BY <1>12 DEF BeginCACH, CreateCACH, CreditInv, lcVars, countVars, airVars, hostVars, SpaceBytes
<1>13. CASE SendBytes
  BY <1>13 DEF SendBytes, CreditInv, lcVars, countVars, airVars, hostVars, SpaceBytes
<1>14. CASE TxOff
  BY <1>14 DEF TxOff, CreditInv, lcVars, countVars, airVars, hostVars, SpaceBytes
<1>15. CASE UNCHANGED vars
  BY <1>15 DEF vars, CreditInv, SpaceBytes, hostVars
<1>16. QED
  BY <1>1, <1>2, <1>3, <1>4, <1>5, <1>6, <1>7, <1>8, <1>9,
     <1>10, <1>11, <1>12, <1>13, <1>14, <1>15, StepCases

-----------------------------------------------------------------------------
(* Types *)

\* The queues keep whole frames, and no more of them than there is room for.
QueueTypes ==
  /\ m_fifo \in [Slots -> Seq(Nat)] /\ fifoLen \in BufferLens
  /\ \A s \in Slots : FrameBytes * Len(m_fifo[s]) <= fifoLen

\* The state of the engine but its queues.
EngineTypes ==
  /\ m_modemState \in {"IDLE", "DMR", "P25"} /\ m_tx \in BOOLEAN
  /\ m_state \in {"IDLE"} \cup DOMAIN Follows /\ burst \in {"none"} \cup DOMAIN Follows
  /\ m_poLeft \in Nat
  /\ m_frameCount \in 0 .. StartupCount
  /\ m_abortCount \in [Slots -> 0 .. AbortCount] /\ m_abort \in [Slots -> BOOLEAN]

\* The short LC and the round.
RoundTypes ==
  /\ m_cachPtr \in 0 .. Fragments /\ m_shortLC \in Nat /\ m_newShortLC \in Nat
  /\ round \in Seq(Nat)

\* The host and the bookkeeping.
HostTypes ==
  /\ credit \in [Slots -> 0 .. 255] /\ ops \in Nat /\ written \in Nat
  /\ sent \in [Slots -> Nat] /\ overdrawn \in BOOLEAN /\ lost \in BOOLEAN

LEMMA TypeParts == TypeOK <=> QueueTypes /\ EngineTypes /\ RoundTypes /\ HostTypes
  BY DEF TypeOK, QueueTypes, EngineTypes, RoundTypes, HostTypes

\* A frame is put only with room for it.
LEMMA QueueTypesHold == TypeOK /\ [Next]_vars => QueueTypes'
<1> SUFFICES ASSUME TypeOK, [Next]_vars PROVE QueueTypes'
  OBVIOUS
<1>1. CASE GetStatus
  BY <1>1 DEF GetStatus, TypeOK, QueueTypes, lcVars, countVars, airVars, hostVars
<1>2. ASSUME NEW s \in Slots, DataRefused(s) PROVE QueueTypes'
  <2>1. Len(<<>>) = 0 /\ <<>> \in Seq(Nat)
    OBVIOUS
  <2>2. FrameBytes * 0 = 0
    BY DmrTxAssumption
  <2>3. m_fifo' = [m_fifo EXCEPT ![s] = <<>>] /\ UNCHANGED fifoLen
    BY <1>2 DEF DataRefused
  <2>4. \A len \in BufferLens : 0 <= len
    BY DmrTxAssumption
  <2>5. QED
    BY <2>1, <2>2, <2>3, <2>4 DEF TypeOK, QueueTypes
<1>3. ASSUME NEW s \in Slots, DataQueued(s) PROVE QueueTypes'
  <2>0. Sizes
    BY TypedSizes
  <2>1. /\ m_fifo' = [m_fifo EXCEPT ![s] = IF m_abort[s] THEN <<written + 1>>
                                           ELSE Append(m_fifo[s], written + 1)]
        /\ UNCHANGED fifoLen /\ written \in Nat
        /\ fifoLen - FrameBytes * Len(m_fifo[s]) >= FrameBytes
    BY <1>3 DEF DataQueued, SpaceBytes, TypeOK
  <2>2. /\ m_fifo'[s] \in Seq(Nat)
        /\ Len(m_fifo'[s]) \in Nat /\ Len(m_fifo'[s]) <= Len(m_fifo[s]) + 1
    <3>1. m_fifo[s] \in Seq(Nat) /\ Len(m_fifo[s]) \in Nat /\ written + 1 \in Nat
      BY <2>0, <2>1 DEF Sizes
    <3>2. m_fifo'[s] = IF m_abort[s] THEN <<written + 1>> ELSE Append(m_fifo[s], written + 1)
      BY <2>1 DEF TypeOK
    <3>3. CASE m_fifo'[s] = <<written + 1>>
      BY <3>1, <3>3, SingleFrame
    <3>4. CASE m_fifo'[s] = Append(m_fifo[s], written + 1)
      BY <3>1, <3>4, QueueAppend
    <3>5. QED
      BY <3>2, <3>3, <3>4
  <2>3. FrameBytes * Len(m_fifo'[s]) <= FrameBytes * Len(m_fifo[s]) + FrameBytes
    <3>1. /\ FrameBytes * Len(m_fifo'[s]) <= FrameBytes * (Len(m_fifo[s]) + 1)
          /\ FrameBytes * (Len(m_fifo[s]) + 1) = FrameBytes * Len(m_fifo[s]) + FrameBytes
      BY <2>0, <2>2, Multiples DEF Sizes
    <3>2. QED
      BY <3>1
  <2>4. FrameBytes * Len(m_fifo'[s]) <= fifoLen
    <3>1. FrameBytes * Len(m_fifo'[s]) \in Nat
      BY <2>0, <2>2, Multiples DEF Sizes
    <3>2. /\ FrameBytes * Len(m_fifo[s]) \in Nat /\ fifoLen \in Nat /\ FrameBytes \in Nat
          /\ fifoLen - FrameBytes * Len(m_fifo[s]) >= FrameBytes
      BY <2>0, <2>1 DEF Sizes
    <3> DEFINE before == FrameBytes * Len(m_fifo[s])
               after == FrameBytes * Len(m_fifo'[s])
    <3>3. after <= before + FrameBytes /\ fifoLen - before >= FrameBytes
          /\ after \in Nat /\ before \in Nat /\ fifoLen \in Nat /\ FrameBytes \in Nat
      BY <2>3, <3>1, <3>2
    <3> HIDE DEF before, after
    <3>4. after <= fifoLen
      BY <3>3
    <3>5. QED
      BY <3>4 DEF after
  <2>5. \A t \in Slots : t # s => m_fifo'[t] = m_fifo[t]
    BY <2>1 DEF TypeOK
  <2>6. m_fifo' \in [Slots -> Seq(Nat)]
    BY <2>1, <2>2 DEF TypeOK
  <2>7. QED
    BY <2>1, <2>4, <2>5, <2>6 DEF TypeOK, QueueTypes
<1>4. ASSUME NEW s \in Slots, WriteAbort(s) PROVE QueueTypes'
  BY <1>4 DEF WriteAbort, TypeOK, QueueTypes, lcVars, countVars, airVars, hostVars
<1>5. ASSUME NEW s \in Slots, Clear(s) PROVE QueueTypes'
  <2>1. Len(<<>>) = 0 /\ <<>> \in Seq(Nat)
    OBVIOUS
  <2>2. FrameBytes * 0 = 0
    BY DmrTxAssumption
  <2>3. m_fifo' = [m_fifo EXCEPT ![s] = <<>>] /\ UNCHANGED fifoLen
    BY <1>5 DEF Clear
  <2>4. \A len \in BufferLens : 0 <= len
    BY DmrTxAssumption
  <2>5. QED
    BY <2>1, <2>2, <2>3, <2>4 DEF TypeOK, QueueTypes
<1>6. ASSUME NEW start \in BOOLEAN, Start(start) PROVE QueueTypes'
  BY <1>6 DEF Start, TypeOK, QueueTypes, lcVars, airVars
<1>7. CASE WriteShortLC
  BY <1>7 DEF WriteShortLC, TypeOK, QueueTypes, lcVars, countVars, airVars, hostVars
<1>8. ASSUME NEW len \in BufferLens, SetBuffers(len) PROVE QueueTypes'
  <2>1. Len(<<>>) = 0 /\ <<>> \in Seq(Nat)
    OBVIOUS
  <2>2. FrameBytes * 0 = 0
    BY DmrTxAssumption
  <2>3. m_fifo' = [t \in Slots |-> <<>>] /\ fifoLen' = len
    BY <1>8 DEF SetBuffers
  <2>4. 0 <= len
    BY <1>8, DmrTxAssumption
  <2>5. QED
    BY <1>8, <2>1, <2>2, <2>3, <2>4 DEF TypeOK, QueueTypes
<1>9. ASSUME NEW mode \in {"IDLE", "DMR", "P25"}, SetMode(mode) PROVE QueueTypes'
  BY <1>9 DEF SetMode, TypeOK, QueueTypes, lcVars, countVars, airVars, hostVars
<1>10. CASE WatchdogExpires
  BY <1>10 DEF WatchdogExpires, TypeOK, QueueTypes, lcVars, countVars, airVars, hostVars
<1>11. ASSUME NEW s \in Slots, BeginData(s) PROVE QueueTypes'
  <2>0. Sizes
    BY TypedSizes
  <2>1. UNCHANGED fifoLen
    BY <1>11 DEF BeginData
  <2>2. CASE m_fifo' = m_fifo
    BY <2>1, <2>2 DEF TypeOK, QueueTypes
  <2>3. CASE m_fifo[s] # <<>> /\ m_fifo' = [m_fifo EXCEPT ![s] = Tail(m_fifo[s])]
    <3>1. m_fifo[s] \in Seq(Nat) /\ m_fifo[s] # <<>>
      BY <2>0, <2>3 DEF Sizes
    <3>2. /\ Tail(m_fifo[s]) \in Seq(Nat)
          /\ Len(Tail(m_fifo[s])) \in Nat /\ Len(Tail(m_fifo[s])) <= Len(m_fifo[s])
      BY <3>1, TailOfQueue
    <3>3. /\ FrameBytes * Len(Tail(m_fifo[s])) <= FrameBytes * Len(m_fifo[s])
          /\ FrameBytes * Len(Tail(m_fifo[s])) \in Nat
      BY <2>0, <3>2, Multiples DEF Sizes
    <3>4. FrameBytes * Len(Tail(m_fifo[s])) <= fifoLen
      BY <2>0, <3>3 DEF Sizes, TypeOK
    <3>5. QED
      BY <2>1, <2>3, <3>2, <3>4 DEF TypeOK, QueueTypes
  <2>4. QED
    BY <1>11, <2>2, <2>3 DEF BeginData, CreateData
<1>12. ASSUME NEW s \in Slots, BeginCACH(s) PROVE QueueTypes'
  BY <1>12 DEF BeginCACH, CreateCACH, TypeOK, QueueTypes, lcVars, countVars, airVars, hostVars
<1>13. CASE SendBytes
  BY <1>13 DEF SendBytes, TypeOK, QueueTypes, lcVars, countVars, airVars, hostVars
<1>14. CASE TxOff
  BY <1>14 DEF TxOff, TypeOK, QueueTypes, lcVars, countVars, airVars, hostVars
<1>15. CASE UNCHANGED vars
  BY <1>15 DEF vars, TypeOK, QueueTypes
<1>16. QED
  BY <1>1, <1>2, <1>3, <1>4, <1>5, <1>6, <1>7, <1>8, <1>9,
     <1>10, <1>11, <1>12, <1>13, <1>14, <1>15, StepCases

\* The counts saturate, and the rotation goes from state to state.
LEMMA EngineTypesHold == TypeOK /\ [Next]_vars => EngineTypes'
<1> SUFFICES ASSUME TypeOK, [Next]_vars PROVE EngineTypes'
  OBVIOUS
<1>1. CASE GetStatus
  BY <1>1 DEF GetStatus, TypeOK, EngineTypes, lcVars, countVars, airVars, hostVars
<1>2. ASSUME NEW s \in Slots, DataRefused(s) PROVE EngineTypes'
  BY <1>2 DEF DataRefused, TypeOK, EngineTypes, lcVars, countVars, airVars, hostVars
<1>3. ASSUME NEW s \in Slots, DataQueued(s) PROVE EngineTypes'
  BY <1>3, FollowsValues DEF DataQueued, TypeOK, EngineTypes, countVars, airVars
<1>4. ASSUME NEW s \in Slots, WriteAbort(s) PROVE EngineTypes'
  BY <1>4, DmrTxAssumption DEF WriteAbort, TypeOK, EngineTypes, airVars
<1>5. ASSUME NEW s \in Slots, Clear(s) PROVE EngineTypes'
  BY <1>5 DEF Clear, TypeOK, EngineTypes, lcVars, countVars, airVars, hostVars
<1>6. ASSUME NEW start \in BOOLEAN, Start(start) PROVE EngineTypes'
  BY <1>6, SaturateBounded, FollowsValues, DmrTxAssumption DEF Start, SetStart, TypeOK, EngineTypes, airVars
<1>7. CASE WriteShortLC
  BY <1>7 DEF WriteShortLC, TypeOK, EngineTypes, lcVars, countVars, airVars, hostVars
<1>8. ASSUME NEW len \in BufferLens, SetBuffers(len) PROVE EngineTypes'
  BY <1>8 DEF SetBuffers, TypeOK, EngineTypes, lcVars, countVars, airVars, hostVars
<1>9. ASSUME NEW mode \in {"IDLE", "DMR", "P25"}, SetMode(mode) PROVE EngineTypes'
  BY <1>9 DEF SetMode, TypeOK, EngineTypes, lcVars, countVars, airVars, hostVars
<1>10. CASE WatchdogExpires
  <2>1. /\ m_modemState' = "IDLE" /\ UNCHANGED <<m_tx, burst, m_poLeft>>
        /\ SetStart(FALSE) \/ UNCHANGED <<m_state, m_frameCount, m_abortCount, m_abort>>
    BY <1>10 DEF WatchdogExpires, airVars
  <2>2. CASE SetStart(FALSE)
    BY <2>1, <2>2, SaturateBounded, DmrTxAssumption DEF SetStart, TypeOK, EngineTypes
  <2>3. CASE UNCHANGED <<m_state, m_frameCount, m_abortCount, m_abort>>
    BY <2>1, <2>3 DEF TypeOK, EngineTypes
  <2>4. QED
    BY <2>1, <2>2, <2>3
<1>11. ASSUME NEW s \in Slots, BeginData(s) PROVE EngineTypes'
  BY <1>11, FollowsValues, DmrTxAssumption DEF BeginData, CreateData, TypeOK, EngineTypes, countVars, Slots
<1>12. ASSUME NEW s \in Slots, BeginCACH(s) PROVE EngineTypes'
  <2>1. /\ m_frameCount' = Saturate(m_frameCount, StartupCount)
        /\ m_abortCount' = [t \in Slots |-> Saturate(m_abortCount[t], AbortCount)]
        /\ m_poLeft' = CachBytes /\ m_tx' = TRUE /\ UNCHANGED <<m_modemState, m_abort>>
        /\ m_state' \in {"SLOT1", "SLOT2"} /\ burst' \in {"CACH1", "CACH2"}
    BY <1>12 DEF BeginCACH, CreateCACH
  <2>2. m_frameCount' \in 0 .. StartupCount
    BY <2>1, SaturateBounded, DmrTxAssumption DEF TypeOK
  <2>3. m_abortCount' \in [Slots -> 0 .. AbortCount]
    <3>1. \A t \in Slots : Saturate(m_abortCount[t], AbortCount) \in 0 .. AbortCount
      <4> SUFFICES ASSUME NEW t \in Slots
                   PROVE  Saturate(m_abortCount[t], AbortCount) \in 0 .. AbortCount
        OBVIOUS
      <4>1. m_abortCount \in [Slots -> 0 .. AbortCount]
        BY DEF TypeOK
      <4>2. m_abortCount[t] \in 0 .. AbortCount
        BY <4>1
      <4>3. QED
        BY <4>2, SaturateBounded, DmrTxAssumption
    <3>2. QED
      BY <2>1, <3>1
  <2>4. QED
    BY <2>1, <2>2, <2>3, FollowsValues, DmrTxAssumption DEF TypeOK, EngineTypes
<1>13. CASE SendBytes
  BY <1>13 DEF SendBytes, TypeOK, EngineTypes, lcVars, countVars, airVars, hostVars
<1>14. CASE TxOff
  BY <1>14 DEF TxOff, TypeOK, EngineTypes, lcVars, countVars, airVars, hostVars
<1>15. CASE UNCHANGED vars
  BY <1>15 DEF vars, TypeOK, EngineTypes, countVars, airVars
<1>16. QED
  BY <1>1, <1>2, <1>3, <1>4, <1>5, <1>6, <1>7, <1>8, <1>9,
     <1>10, <1>11, <1>12, <1>13, <1>14, <1>15, StepCases

\* The pointer into the short LC stays in it.
LEMMA RoundTypesHold == TypeOK /\ [Next]_vars => RoundTypes'
<1> SUFFICES ASSUME TypeOK, [Next]_vars PROVE RoundTypes'
  OBVIOUS
<1>1. CASE GetStatus
  BY <1>1 DEF GetStatus, TypeOK, RoundTypes, lcVars
<1>2. ASSUME NEW s \in Slots, DataRefused(s) PROVE RoundTypes'
  BY <1>2 DEF DataRefused, TypeOK, RoundTypes, lcVars
<1>3. ASSUME NEW s \in Slots, DataQueued(s) PROVE RoundTypes'
  BY <1>3 DEF DataQueued, TypeOK, RoundTypes, lcVars
<1>4. ASSUME NEW s \in Slots, WriteAbort(s) PROVE RoundTypes'
  BY <1>4 DEF WriteAbort, TypeOK, RoundTypes, lcVars
<1>5. ASSUME NEW s \in Slots, Clear(s) PROVE RoundTypes'
  BY <1>5 DEF Clear, TypeOK, RoundTypes, lcVars
<1>6. ASSUME NEW start \in BOOLEAN, Start(start) PROVE RoundTypes'
  BY <1>6 DEF Start, TypeOK, RoundTypes, lcVars
<1>7. CASE WriteShortLC
  BY <1>7 DEF WriteShortLC, TypeOK, RoundTypes
<1>8. ASSUME NEW len \in BufferLens, SetBuffers(len) PROVE RoundTypes'
  BY <1>8 DEF SetBuffers, TypeOK, RoundTypes, lcVars
<1>9. ASSUME NEW mode \in {"IDLE", "DMR", "P25"}, SetMode(mode) PROVE RoundTypes'
  BY <1>9 DEF SetMode, TypeOK, RoundTypes, lcVars
<1>10. CASE WatchdogExpires
  BY <1>10 DEF WatchdogExpires, TypeOK, RoundTypes, lcVars
<1>11. ASSUME NEW s \in Slots, BeginData(s) PROVE RoundTypes'
  BY <1>11 DEF BeginData, CreateData, TypeOK, RoundTypes, lcVars
<1>12. ASSUME NEW s \in Slots, BeginCACH(s) PROVE RoundTypes'
  <2>1. RoundLC \in Nat
    BY DEF RoundLC, Empty, TypeOK
  <2>2. m_shortLC' \in Nat /\ m_newShortLC' \in Nat
    BY <1>12, <2>1 DEF BeginCACH, CreateCACH, TypeOK
  <2>3. m_cachPtr' \in 0 .. Fragments
    BY <1>12 DEF BeginCACH, CreateCACH, TypeOK, Fragments
  <2>4. round' \in Seq(Nat)
    <3>1. round \in Seq(Nat)
      BY DEF TypeOK
    <3>2. round' = <<m_shortLC'>> \/ round' = Append(round, m_shortLC')
      BY <1>12 DEF BeginCACH, CreateCACH
    <3>3. CASE round' = <<m_shortLC'>>
      BY <2>2, <3>3, SingleFrame
    <3>4. CASE round' = Append(round, m_shortLC')
      BY <2>2, <3>1, <3>4, AppendProperties
    <3>5. QED
      BY <3>2, <3>3, <3>4
  <2>5. QED
    BY <2>2, <2>3, <2>4 DEF RoundTypes
<1>13. CASE SendBytes
  BY <1>13 DEF SendBytes, TypeOK, RoundTypes, lcVars
<1>14. CASE TxOff
  BY <1>14 DEF TxOff, TypeOK, RoundTypes, lcVars
<1>15. CASE UNCHANGED vars
  BY <1>15 DEF vars, TypeOK, RoundTypes, lcVars
<1>16. QED
  BY <1>1, <1>2, <1>3, <1>4, <1>5, <1>6, <1>7, <1>8, <1>9,
     <1>10, <1>11, <1>12, <1>13, <1>14, <1>15, StepCases

\* A credit is a byte.
LEMMA HostTypesHold == TypeOK /\ [Next]_vars => HostTypes'
<1> SUFFICES ASSUME TypeOK, [Next]_vars PROVE HostTypes'
  OBVIOUS
<1>1. CASE GetStatus
  <2>1. /\ credit' = [s \in Slots |-> FrameSpace(s)] /\ ops' = ops + 1
        /\ UNCHANGED <<written, sent, overdrawn, lost>>
    BY <1>1 DEF GetStatus, Command, airVars
  <2>2. \A s \in Slots : FrameSpace(s) \in 0 .. 255
    BY SpaceIsRoom
  <2>3. credit' \in [Slots -> 0 .. 255]
    BY <2>1, <2>2
  <2>4. QED
    BY <2>1, <2>3 DEF TypeOK, HostTypes
<1>2. ASSUME NEW s \in Slots, DataRefused(s) PROVE HostTypes'
  BY <1>2 DEF DataRefused, Spend, Command, TypeOK, HostTypes, airVars
<1>3. ASSUME NEW s \in Slots, DataQueued(s) PROVE HostTypes'
  BY <1>3 DEF DataQueued, Spend, Command, TypeOK, HostTypes, airVars
<1>4. ASSUME NEW s \in Slots, WriteAbort(s) PROVE HostTypes'
  BY <1>4 DEF WriteAbort, Command, TypeOK, HostTypes, airVars, hostVars
<1>5. ASSUME NEW s \in Slots, Clear(s) PROVE HostTypes'
  BY <1>5 DEF Clear, Command, TypeOK, HostTypes, airVars, hostVars
<1>6. ASSUME NEW start \in BOOLEAN, Start(start) PROVE HostTypes'
  BY <1>6 DEF Start, Command, TypeOK, HostTypes, airVars, hostVars
<1>7. CASE WriteShortLC
  BY <1>7 DEF WriteShortLC, Command, TypeOK, HostTypes, airVars, hostVars
<1>8. ASSUME NEW len \in BufferLens, SetBuffers(len) PROVE HostTypes'
  BY <1>8 DEF SetBuffers, Command, TypeOK, HostTypes, airVars, hostVars
<1>9. ASSUME NEW mode \in {"IDLE", "DMR", "P25"}, SetMode(mode) PROVE HostTypes'
  BY <1>9 DEF SetMode, Command, TypeOK, HostTypes, airVars, hostVars
<1>10. CASE WatchdogExpires
  BY <1>10 DEF WatchdogExpires, Command, TypeOK, HostTypes, airVars, hostVars
<1>11. ASSUME NEW s \in Slots, BeginData(s) PROVE HostTypes'
  <2>1. sent' \in [Slots -> Nat]
    <3>1. CASE sent' = sent
      BY <3>1 DEF TypeOK
    <3>2. CASE m_fifo[s] # <<>> /\ sent' = [sent EXCEPT ![s] = Head(m_fifo[s])]
      <4>1. m_fifo[s] \in Seq(Nat) /\ m_fifo[s] # <<>>
        BY <3>2 DEF TypeOK
      <4>2. Head(m_fifo[s]) \in Nat
        BY <4>1, TailOfQueue
      <4>3. QED
        BY <3>2, <4>2 DEF TypeOK
    <3>3. QED
      BY <1>11, <3>1, <3>2 DEF BeginData, CreateData
  <2>2. UNCHANGED <<hostVars, written, lost>>
    BY <1>11 DEF BeginData
  <2>3. QED
    BY <2>1, <2>2 DEF hostVars, TypeOK, HostTypes
<1>12. ASSUME NEW s \in Slots, BeginCACH(s) PROVE HostTypes'
  BY <1>12 DEF BeginCACH, CreateCACH, Command, TypeOK, HostTypes, airVars, hostVars
<1>13. CASE SendBytes
  BY <1>13 DEF SendBytes, Command, TypeOK, HostTypes, airVars, hostVars
<1>14. CASE TxOff
  BY <1>14 DEF TxOff, Command, TypeOK, HostTypes, airVars, hostVars
<1>15. CASE UNCHANGED vars
  BY <1>15 DEF vars, hostVars, airVars, TypeOK, HostTypes
<1>16. QED
  BY <1>1, <1>2, <1>3, <1>4, <1>5, <1>6, <1>7, <1>8, <1>9,
     <1>10, <1>11, <1>12, <1>13, <1>14, <1>15, StepCases

-----------------------------------------------------------------------------
(* Theorems *)

DmrInv == TypeOK /\ RotationInv /\ RoundInv /\ OrderInv /\ CreditInv

LEMMA InitHolds == Init => DmrInv
<1> SUFFICES ASSUME Init PROVE DmrInv
  OBVIOUS
<1>1. Len(<<>>) = 0 /\ <<>> \in Seq(Nat)
  OBVIOUS
<1>2. /\ FrameBytes \in Nat /\ DefaultLen \in Nat /\ DefaultLen \in BufferLens
      /\ StartupCount \in Nat /\ AbortCount \in Nat /\ FrameBytes * 0 = 0
  BY DmrTxAssumption
<1>3. \A s \in Slots : m_fifo[s] = <<>> /\ credit[s] = 0 /\ sent[s] = 0
  BY DEF Init
<1>4. TypeOK
  <2>1. QueueTypes
    BY <1>1, <1>2 DEF Init, QueueTypes
  <2>2. EngineTypes
    <3>1. 0 \in 0 .. AbortCount /\ 0 \in 0 .. StartupCount
      BY <1>2
    <3>2. /\ m_abortCount = [s \in Slots |-> 0] /\ m_abort = [s \in Slots |-> FALSE]
          /\ m_frameCount = 0
      BY DEF Init
    <3>3. m_abortCount \in [Slots -> 0 .. AbortCount] /\ m_abort \in [Slots -> BOOLEAN]
      BY <3>1, <3>2
    <3>4. QED
      BY <3>1, <3>2, <3>3 DEF Init, EngineTypes
  <2>3. RoundTypes
    BY <1>1 DEF Init, RoundTypes, Empty, Fragments
  <2>4. HostTypes
    <3>1. 0 \in 0 .. 255 /\ 0 \in Nat
      OBVIOUS
    <3>2. credit = [s \in Slots |-> 0] /\ sent = [s \in Slots |-> 0]
      BY DEF Init
    <3>3. credit \in [Slots -> 0 .. 255] /\ sent \in [Slots -> Nat]
      BY <3>1, <3>2, Zenon
    <3>4. QED
      BY <3>3 DEF Init, HostTypes
  <2>5. QED
    BY <2>1, <2>2, <2>3, <2>4, TypeParts
<1>5. RotationInv /\ RoundInv
  BY <1>1 DEF Init, RotationInv, RoundInv
<1>6. OrderInv
  BY <1>1, <1>3 DEF Init, OrderInv
<1>7. CreditInv
  BY <1>1, <1>2, <1>3 DEF Init, CreditInv, SpaceBytes
<1>8. QED
  BY <1>4, <1>5, <1>6, <1>7 DEF DmrInv

\* The inductive invariant of the DMR transmitter.
THEOREM DmrInvariant == Spec => []DmrInv
<1>1. DmrInv /\ [Next]_vars => DmrInv'
  <2> SUFFICES ASSUME DmrInv, [Next]_vars PROVE DmrInv'
    OBVIOUS
  <2>1. TypeOK /\ RotationInv /\ RoundInv /\ OrderInv /\ CreditInv
    BY DEF DmrInv
  <2>2. TypeOK'
    BY <2>1, QueueTypesHold, EngineTypesHold, RoundTypesHold, HostTypesHold
    DEF TypeOK, QueueTypes, EngineTypes, RoundTypes, HostTypes
  <2>3. QED
    BY <2>1, <2>2, RotationHolds, RoundHolds, OrderHolds, CreditHolds DEF DmrInv
<1>2. QED
  BY InitHolds, <1>1, PTL DEF Spec

\* Types of every part of the state, and queues within their length: SerialBuffer
\* never holds more than it was sized for.
THEOREM TypesHold == Spec => []TypeOK
<1>1. DmrInv => TypeOK
  BY DEF DmrInv
<1>2. QED
  BY DmrInvariant, <1>1, PTL

\* createCACH(): the fragments of one short LC go out together.
THEOREM ShortLCIsWhole == Spec => []ShortLCWhole
<1>1. DmrInv => ShortLCWhole
  BY DEF DmrInv, RoundInv, ShortLCWhole
<1>2. QED
  BY DmrInvariant, <1>1, PTL

\* writeData1(), writeData2(): a host within its credit never has a queue thrown away.
THEOREM CreditIsSafe == Spec => []CreditProtects
<1>1. DmrInv => CreditProtects
  BY DEF DmrInv, CreditInv, CreditProtects
<1>2. QED
  BY DmrInvariant, <1>1, PTL

\* createData(): frames leave a slot in the order they came, none twice.
THEOREM FramesStayInOrder == Spec => []FramesInOrder
<1>1. ASSUME DmrInv PROVE FramesInOrder
  <2> SUFFICES ASSUME NEW s \in Slots,
                      NEW i \in 1 .. Len(<<sent[s]>> \o m_fifo[s]),
                      NEW j \in 1 .. Len(<<sent[s]>> \o m_fifo[s]), i < j
               PROVE  (<<sent[s]>> \o m_fifo[s])[i] < (<<sent[s]>> \o m_fifo[s])[j]
    BY DEF FramesInOrder
  <2>1. m_fifo[s] \in Seq(Nat) /\ sent[s] \in Nat
    BY <1>1 DEF DmrInv, TypeOK
  <2>2. Len(m_fifo[s]) \in Nat
    BY <2>1, LenProperties
  <2>3. /\ Len(<<sent[s]>> \o m_fifo[s]) = Len(m_fifo[s]) + 1
        /\ (<<sent[s]>> \o m_fifo[s])[1] = sent[s]
        /\ \A k \in 2 .. Len(m_fifo[s]) + 1 : (<<sent[s]>> \o m_fifo[s])[k] = m_fifo[s][k - 1]
    BY <2>1, <2>2, SingleFrame, ConcatProperties
  <2>4. /\ \A k \in 1 .. Len(m_fifo[s]) : sent[s] < m_fifo[s][k]
        /\ \A k, l \in 1 .. Len(m_fifo[s]) : k < l => m_fifo[s][k] < m_fifo[s][l]
    BY <1>1 DEF DmrInv, OrderInv
  <2>5. j \in 2 .. Len(m_fifo[s]) + 1 /\ j - 1 \in 1 .. Len(m_fifo[s])
    BY <2>2, <2>3
  <2>6. CASE i = 1
    BY <2>3, <2>4, <2>5, <2>6
  <2>7. CASE i # 1
    <3>1. i \in 2 .. Len(m_fifo[s]) + 1 /\ i - 1 \in 1 .. Len(m_fifo[s]) /\ i - 1 < j - 1
      BY <2>2, <2>3, <2>5, <2>7
    <3>2. QED
      BY <2>3, <2>4, <2>5, <3>1
  <2>8. QED
    BY <2>6, <2>7
<1>2. QED
  BY DmrInvariant, <1>1, PTL

\* process(): while TX stays on, the bursts keep the rotation of a base station.
THEOREM RotationIsKept == Spec => RotationKept
<1>1. ASSUME DmrInv, [Next]_vars, m_poLeft = 0, m_poLeft' > 0, burst # "none"
      PROVE  burst' = Follows[burst]
  <2>1. RotationInv /\ TypeOK
    BY <1>1 DEF DmrInv
  <2>2. ASSUME NEW s \in Slots, BeginData(s) \/ BeginCACH(s) PROVE burst' = m_state /\ m_state # "IDLE"
    BY <2>2 DEF BeginData, BeginCACH, CreateData, CreateCACH, Slots
  <2>3. \/ \E s \in Slots : BeginData(s) \/ BeginCACH(s)
        \/ m_poLeft' = m_poLeft
        \/ SendBytes
    BY <1>1, StepCases
    DEF GetStatus, DataRefused, DataQueued, WriteAbort, Clear, Start, WriteShortLC, SetBuffers,
        SetMode, WatchdogExpires, TxOff, airVars, vars
  <2>4. ~SendBytes /\ m_poLeft' # m_poLeft
    BY <1>1 DEF SendBytes
  <2>5. QED
    BY <1>1, <2>1, <2>2, <2>3, <2>4 DEF RotationInv
<1>2. QED
  BY DmrInvariant, <1>1, PTL DEF RotationKept, Spec
=============================================================================
