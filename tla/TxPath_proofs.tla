---------------------------- MODULE TxPath_proofs ----------------------------
(***************************************************************************)
(* Proofs about TxPath for every ring, block, frame and radio-queue size,  *)
(* every hang time and every number of engine operations.                  *)
(*                                                                         *)
(* The inductive invariant has a part per thread: what the clock thread    *)
(* knows at each of its program counters, that modem, radio channel and    *)
(* PTT line are keyed together, that a write fits in the ring, and what    *)
(* the tx thread holds while it has m_txLock.  Beside it, OrderInv says    *)
(* of every place a sample can be that its numbers rise and lie before     *)
(* those of the next place, and MarkInv pairs samples with their marks.    *)
(***************************************************************************)
EXTENDS TxPath, SequenceTheorems, TLAPS

\* What the clock thread knows between two of its steps: an engine that is
\* writing has keyed up, and the emptiness polled by process() still holds.
ClockInv ==
  /\ clk \in {"keyOnly", "keyAndPut", "put", "stamp", "flush"} => m_tx
  /\ clk = "unkey" => ~m_tx
  /\ clk = "decide" /\ ~pending => m_txBuffer = <<>>
  /\ clk = "flush" => m_txBuffer = <<>> /\ HangExpired
  /\ ~m_tx => m_txBuffer = <<>>

\* Modem, channel and PTT line agree except inside a key-up or an unkey.
KeyedInv ==
  clk \notin {"keyOnly", "keyAndPut", "unkey"} =>
    /\ m_tx <=> txActive
    /\ m_tx => m_ptt = ~PttInvert

\* The space an engine saw, more than a block, is still there when it writes.
BudgetInv ==
  /\ clk \in {"keyAndPut", "put"} => BlockLen < Space
  /\ NeverOverflows

\* Who holds m_txLock, and the staging frame in and out of the critical section.
StageInv ==
  /\ txLock = "tx" <=> txt \in {"drain", "push"}
  /\ StagingBounded

TxInv == TypeOK /\ ClockInv /\ KeyedInv /\ BudgetInv /\ StageInv

-----------------------------------------------------------------------------
(* Sequences *)

\* A block is a sequence of BlockLen numbers.
LEMMA BlockIsSeq ==
  ASSUME nextSample \in Nat
  PROVE  Block \in Seq(Nat) /\ Len(Block) = BlockLen
<1>1. \A k \in 1 .. BlockLen : nextSample + k - 1 \in Nat
  BY TxPathAssumption
<1>2. Block \in [1 .. BlockLen -> Nat]
  BY <1>1 DEF Block
<1>3. QED
  BY <1>2, TxPathAssumption DEF Block

\* Part of a sequence of numbers, with its length.
LEMMA PartOfSeq ==
  ASSUME NEW s \in Seq(Nat), NEW m \in Nat \ {0}, NEW n \in Nat, n <= Len(s)
  PROVE  /\ SubSeq(s, m, n) \in Seq(Nat)
         /\ Len(SubSeq(s, m, n)) = IF m <= n THEN n - m + 1 ELSE 0
<1>1. \A i \in m .. n : s[i] \in Nat
  BY ElementOfSeq, LenProperties
<1>2. QED
  BY <1>1, SubSeqProperties

\* The bounded radio queue keeps a sequence of numbers, whose length depends
\* only on the length of what it was given.
LEMMA KeptSeq ==
  ASSUME NEW s \in Seq(Nat)
  PROVE  /\ KeepNewest(s) \in Seq(Nat)
         /\ Len(KeepNewest(s)) = IF Len(s) > RadioCap THEN RadioCap ELSE Len(s)
<1>1. Len(s) \in Nat /\ RadioCap \in Nat
  BY LenProperties, TxPathAssumption
<1>2. CASE Len(s) > RadioCap
  <2>1. Len(s) - RadioCap + 1 \in Nat \ {0} /\ Len(s) - RadioCap + 1 <= Len(s)
    BY <1>1, <1>2, TxPathAssumption
  <2>2. QED
    BY <1>1, <1>2, <2>1, PartOfSeq DEF KeepNewest
<1>3. CASE ~(Len(s) > RadioCap)
  BY <1>3 DEF KeepNewest
<1>4. QED
  BY <1>2, <1>3

\* The transmit ring loses its oldest sample only to the tx thread.
LEMMA RingHead ==
  ASSUME TypeOK, m_txBuffer # <<>>
  PROVE  /\ Head(m_txBuffer) \in Nat
         /\ Tail(m_txBuffer) \in Seq(Nat)
         /\ Len(Tail(m_txBuffer)) = Len(m_txBuffer) - 1
         /\ Len(m_txBuffer) \in Nat \ {0}
  BY HeadTailProperties, EmptySeq DEF TypeOK

-----------------------------------------------------------------------------
(* The clock thread's knowledge *)

\* The initial state satisfies every part of the invariant.
LEMMA InitInv == Init => TxInv
<1> SUFFICES ASSUME Init PROVE TxInv
  OBVIOUS
<1>1. <<>> \in Seq(Nat) /\ Len(<<>>) = 0
  OBVIOUS
<1>2. TypeOK
  <2>1. idleTicks \in 0 .. HangTicks /\ nextSample \in Nat
    BY TxPathAssumption DEF Init
  <2>2. ops \in Nat /\ inFlight \in Nat /\ onAir \in Nat
    BY DEF Init
  <2>3. Len(txSampleQueue) <= RadioCap
    BY <1>1, TxPathAssumption DEF Init
  <2>4. QED
    BY <1>1, <2>1, <2>2, <2>3, ZenonT(30) DEF Init, TypeOK, ClockPc
<1>3. ClockInv /\ KeyedInv
  BY DEF Init, ClockInv, KeyedInv
<1>4. BudgetInv
  BY <1>1, TxPathAssumption DEF Init, BudgetInv, NeverOverflows, Space
<1>5. StageInv
  BY <1>1, TxPathAssumption DEF Init, StageInv, StagingBounded
<1>6. QED
  BY <1>2, <1>3, <1>4, <1>5 DEF TxInv

\* Only Tick and the clock thread change what ClockInv speaks of, except that
\* the tx thread takes samples out, which leaves an empty ring empty.
LEMMA ClockKnows == TxInv /\ [Next]_vars => ClockInv'
<1> SUFFICES ASSUME TxInv, [Next]_vars PROVE ClockInv'
  OBVIOUS
<1> USE DEF TxInv, ClockInv, flagVars, stageVars, radioVars, grVars, auxVars
<1>1. CASE Tick
  BY <1>1, TxPathAssumption DEF Tick, HangExpired, TypeOK
<1>2. CASE SetDecode
  BY <1>2 DEF SetDecode, HangExpired
<1>3. CASE SetTransmit
  BY <1>3 DEF SetTransmit, HangExpired
<1>4. CASE WriteBegin
  BY <1>4 DEF WriteBegin, HangExpired
<1>5. CASE KeyUp
  BY <1>5 DEF KeyUp
<1>6. CASE PutBlock
  BY <1>6 DEF PutBlock
<1>7. CASE Stamp
  BY <1>7 DEF Stamp
<1>8. CASE ProcessPoll
  BY <1>8 DEF ProcessPoll, HangExpired
<1>9. CASE ProcessOn
  BY <1>9 DEF ProcessOn, HangExpired
<1>10. CASE ProcessOff
  BY <1>10 DEF ProcessOff
<1>11. CASE Flush
  BY <1>11 DEF Flush
<1>12. CASE Unkey
  BY <1>12 DEF Unkey
<1>13. CASE TxPoll
  BY <1>13 DEF TxPoll, HangExpired
<1>14. CASE TxAcquire
  BY <1>14 DEF TxAcquire, HangExpired
<1>15. CASE TxStage
  BY <1>15 DEF TxStage, HangExpired
<1>16. CASE TxPush
  BY <1>16 DEF TxPush, HangExpired
<1>17. CASE TxReturn
  BY <1>17 DEF TxReturn, HangExpired
<1>18. CASE SourceCheck
  BY <1>18 DEF SourceCheck, HangExpired
<1>19. CASE Dequeue
  BY <1>19 DEF Dequeue, HangExpired
<1>20. CASE Gate
  BY <1>20 DEF Gate, HangExpired
<1>21. CASE UNCHANGED vars
  BY <1>21 DEF vars, HangExpired
<1>22. QED
  BY <1>1, <1>2, <1>3, <1>4, <1>5, <1>6, <1>7, <1>8, <1>9, <1>10, <1>11, <1>12, <1>13,
     <1>14, <1>15, <1>16, <1>17, <1>18, <1>19, <1>20, <1>21
  DEF Next, ClockStep, TxStep, RadioStep

\* The key-up and the unkey change modem, channel and PTT line in a fixed order,
\* and no other thread writes any of the three.
LEMMA KeyingHolds == TxInv /\ [Next]_vars => KeyedInv'
<1> SUFFICES ASSUME TxInv, [Next]_vars PROVE KeyedInv'
  OBVIOUS
<1> USE DEF TxInv, ClockInv, KeyedInv, flagVars, stageVars, radioVars, grVars, auxVars
<1>1. CASE Tick
  BY <1>1 DEF Tick
<1>2. CASE SetDecode
  BY <1>2 DEF SetDecode
<1>3. CASE SetTransmit
  BY <1>3 DEF SetTransmit
<1>4. CASE WriteBegin
  BY <1>4 DEF WriteBegin
<1>5. CASE KeyUp
  BY <1>5 DEF KeyUp
<1>6. CASE PutBlock
  BY <1>6 DEF PutBlock
<1>7. CASE Stamp
  BY <1>7 DEF Stamp
<1>8. CASE ProcessPoll
  BY <1>8 DEF ProcessPoll
<1>9. CASE ProcessOn
  BY <1>9 DEF ProcessOn
<1>10. CASE ProcessOff
  BY <1>10 DEF ProcessOff
<1>11. CASE Flush
  BY <1>11 DEF Flush
<1>12. CASE Unkey
  BY <1>12 DEF Unkey
<1>13. CASE TxPoll
  BY <1>13 DEF TxPoll
<1>14. CASE TxAcquire
  BY <1>14 DEF TxAcquire
<1>15. CASE TxStage
  BY <1>15 DEF TxStage
<1>16. CASE TxPush
  BY <1>16 DEF TxPush
<1>17. CASE TxReturn
  BY <1>17 DEF TxReturn
<1>18. CASE SourceCheck
  BY <1>18 DEF SourceCheck
<1>19. CASE Dequeue
  BY <1>19 DEF Dequeue
<1>20. CASE Gate
  BY <1>20 DEF Gate
<1>21. CASE UNCHANGED vars
  BY <1>21 DEF vars
<1>22. QED
  BY <1>1, <1>2, <1>3, <1>4, <1>5, <1>6, <1>7, <1>8, <1>9, <1>10, <1>11, <1>12, <1>13,
     <1>14, <1>15, <1>16, <1>17, <1>18, <1>19, <1>20, <1>21
  DEF Next, ClockStep, TxStep, RadioStep

\* Between the engine's test and its puts only the tx thread touches the ring,
\* and it only makes room.
LEMMA BudgetHolds == TxInv /\ [Next]_vars => BudgetInv'
<1> SUFFICES ASSUME TxInv, [Next]_vars PROVE BudgetInv'
  OBVIOUS
<1> USE DEF TxInv, ClockInv, BudgetInv, flagVars, stageVars, radioVars, grVars, auxVars
<1>1. CASE Tick
  BY <1>1 DEF Tick, NeverOverflows, Space
<1>2. CASE SetDecode
  BY <1>2 DEF SetDecode, NeverOverflows, Space
<1>3. CASE SetTransmit
  BY <1>3 DEF SetTransmit, NeverOverflows, Space
<1>4. CASE WriteBegin
  BY <1>4, TxPathAssumption, LenProperties DEF WriteBegin, NeverOverflows, Space, TypeOK
<1>5. CASE KeyUp
  BY <1>5 DEF KeyUp, NeverOverflows, Space
<1>6. CASE PutBlock
  <2>1. BlockLen < Space /\ Block \in Seq(Nat) /\ Len(Block) = BlockLen
    BY <1>6, BlockIsSeq DEF PutBlock, TypeOK
  <2>2. m_txBuffer' = m_txBuffer \o Block /\ UNCHANGED m_overflow /\ clk' = "stamp"
    BY <1>6, <2>1, TxPathAssumption, LenProperties DEF PutBlock, Space, TypeOK
  <2>3. Len(m_txBuffer') = Len(m_txBuffer) + BlockLen /\ Len(m_txBuffer) \in Nat
    BY <2>1, <2>2, ConcatProperties, LenProperties DEF TypeOK
  <2>4. QED
    BY <2>1, <2>2, <2>3, TxPathAssumption DEF NeverOverflows, Space
<1>7. CASE Stamp
  BY <1>7 DEF Stamp, NeverOverflows, Space
<1>8. CASE ProcessPoll
  BY <1>8 DEF ProcessPoll, NeverOverflows, Space
<1>9. CASE ProcessOn
  BY <1>9 DEF ProcessOn, NeverOverflows, Space
<1>10. CASE ProcessOff
  BY <1>10 DEF ProcessOff, NeverOverflows, Space
<1>11. CASE Flush
  BY <1>11 DEF Flush, NeverOverflows, Space
<1>12. CASE Unkey
  BY <1>12 DEF Unkey, NeverOverflows, Space
<1>13. CASE TxPoll
  BY <1>13 DEF TxPoll, NeverOverflows, Space
<1>14. CASE TxAcquire
  BY <1>14 DEF TxAcquire, NeverOverflows, Space
<1>15. CASE TxStage
  BY <1>15, RingHead, TxPathAssumption DEF TxStage, NeverOverflows, Space
<1>16. CASE TxPush
  BY <1>16 DEF TxPush, NeverOverflows, Space
<1>17. CASE TxReturn
  BY <1>17 DEF TxReturn, NeverOverflows, Space
<1>18. CASE SourceCheck
  BY <1>18 DEF SourceCheck, NeverOverflows, Space
<1>19. CASE Dequeue
  BY <1>19 DEF Dequeue, NeverOverflows, Space
<1>20. CASE Gate
  BY <1>20 DEF Gate, NeverOverflows, Space
<1>21. CASE UNCHANGED vars
  BY <1>21 DEF vars, NeverOverflows, Space
<1>22. QED
  BY <1>1, <1>2, <1>3, <1>4, <1>5, <1>6, <1>7, <1>8, <1>9, <1>10, <1>11, <1>12, <1>13,
     <1>14, <1>15, <1>16, <1>17, <1>18, <1>19, <1>20, <1>21
  DEF Next, ClockStep, TxStep, RadioStep

\* Moving one sample and its mark to the staging frame lengthens both by one.
LEMMA Staged ==
  ASSUME TypeOK, m_txBuffer # <<>>
  PROVE  /\ Append(m_audioBufTx, Head(m_txBuffer)) \in Seq(Nat)
         /\ Append(m_controlBufTx, Head(m_txBuffer)) \in Seq(Nat)
         /\ Len(Append(m_audioBufTx, Head(m_txBuffer))) = Len(m_audioBufTx) + 1
         /\ Len(Append(m_controlBufTx, Head(m_txBuffer))) = Len(m_controlBufTx) + 1
  BY RingHead, AppendProperties DEF TypeOK

\* Handing a frame over: both queues grow alike, and the staging vectors keep
\* what was behind the frame.
LEMMA Pushed ==
  ASSUME TypeOK, StageInv, TxPush
  PROVE  /\ txSampleQueue' \in Seq(Nat) /\ txControlQueue' \in Seq(Nat)
         /\ Len(txSampleQueue') = Len(txControlQueue')
         /\ Len(txSampleQueue') <= RadioCap
         /\ m_audioBufTx' \in Seq(Nat) /\ m_controlBufTx' \in Seq(Nat)
         /\ Len(m_audioBufTx') = 0
         /\ Len(m_controlBufTx') \in Nat
<1>1. /\ Len(m_audioBufTx) = FrameLen /\ FrameLen <= Len(m_controlBufTx)
      /\ FrameLen \in Nat \ {0} /\ Len(m_controlBufTx) \in Nat
  BY TxPathAssumption, LenProperties DEF TxPush, StageInv, StagingBounded, TypeOK
<1>2. /\ SubSeq(m_audioBufTx, 1, FrameLen) \in Seq(Nat)
      /\ Len(SubSeq(m_audioBufTx, 1, FrameLen)) = FrameLen
      /\ SubSeq(m_controlBufTx, 1, FrameLen) \in Seq(Nat)
      /\ Len(SubSeq(m_controlBufTx, 1, FrameLen)) = FrameLen
  <2>1. /\ m_audioBufTx \in Seq(Nat) /\ m_controlBufTx \in Seq(Nat)
        /\ FrameLen <= Len(m_audioBufTx) /\ 1 <= FrameLen /\ FrameLen - 1 + 1 = FrameLen
    BY <1>1 DEF TypeOK
  <2>2. QED
    BY <1>1, <2>1, PartOfSeq
<1>3. /\ SubSeq(m_audioBufTx, FrameLen + 1, Len(m_audioBufTx)) \in Seq(Nat)
      /\ Len(SubSeq(m_audioBufTx, FrameLen + 1, Len(m_audioBufTx))) = 0
  BY <1>1, PartOfSeq DEF TypeOK
<1>4. /\ SubSeq(m_controlBufTx, FrameLen + 1, Len(m_controlBufTx)) \in Seq(Nat)
      /\ Len(SubSeq(m_controlBufTx, FrameLen + 1, Len(m_controlBufTx))) \in Nat
  BY <1>1, PartOfSeq, LenProperties DEF TypeOK
<1>5. /\ txSampleQueue \o SubSeq(m_audioBufTx, 1, FrameLen) \in Seq(Nat)
      /\ txControlQueue \o SubSeq(m_controlBufTx, 1, FrameLen) \in Seq(Nat)
      /\ Len(txSampleQueue \o SubSeq(m_audioBufTx, 1, FrameLen)) =
         Len(txControlQueue \o SubSeq(m_controlBufTx, 1, FrameLen))
  BY <1>2, ConcatProperties DEF TypeOK, StageInv, StagingBounded
<1>6. /\ txSampleQueue' = KeepNewest(txSampleQueue \o SubSeq(m_audioBufTx, 1, FrameLen))
      /\ txControlQueue' = KeepNewest(txControlQueue \o SubSeq(m_controlBufTx, 1, FrameLen))
      /\ m_audioBufTx' = SubSeq(m_audioBufTx, FrameLen + 1, Len(m_audioBufTx))
      /\ m_controlBufTx' = SubSeq(m_controlBufTx, FrameLen + 1, Len(m_controlBufTx))
  BY DEF TxPush
<1>7. /\ txSampleQueue' \in Seq(Nat) /\ txControlQueue' \in Seq(Nat)
      /\ Len(txSampleQueue') = Len(txControlQueue')
  BY <1>5, <1>6, KeptSeq
<1>8. Len(txSampleQueue') <= RadioCap
  <2>1. \A s \in Seq(Nat) : Len(KeepNewest(s)) <= RadioCap
    BY KeptSeq, LenProperties, TxPathAssumption
  <2>2. QED
    BY <1>5, <1>6, <2>1
<1>9. QED
  BY <1>3, <1>4, <1>6, <1>7, <1>8

\* The staging frame fills up only inside the tx thread's critical section, which
\* it leaves with the frame handed over or not yet complete.
LEMMA StagingHolds == TxInv /\ [Next]_vars => StageInv'
<1> SUFFICES ASSUME TxInv, [Next]_vars PROVE StageInv'
  OBVIOUS
<1> USE DEF TxInv, StageInv, flagVars, stageVars, radioVars, grVars, auxVars
<1>1. CASE Tick
  BY <1>1 DEF Tick, StagingBounded
<1>2. CASE SetDecode
  BY <1>2 DEF SetDecode, StagingBounded
<1>3. CASE SetTransmit
  BY <1>3 DEF SetTransmit, StagingBounded
<1>4. CASE WriteBegin
  BY <1>4 DEF WriteBegin, StagingBounded
<1>5. CASE KeyUp
  BY <1>5 DEF KeyUp, StagingBounded
<1>6. CASE PutBlock
  BY <1>6 DEF PutBlock, StagingBounded
<1>7. CASE Stamp
  BY <1>7 DEF Stamp, StagingBounded
<1>8. CASE ProcessPoll
  BY <1>8 DEF ProcessPoll, StagingBounded
<1>9. CASE ProcessOn
  BY <1>9 DEF ProcessOn, StagingBounded
<1>10. CASE ProcessOff
  BY <1>10 DEF ProcessOff, StagingBounded
<1>11. CASE Flush
  <2>1. txt \notin {"drain", "push"} /\ m_audioBufTx' = <<>>
    BY <1>11 DEF Flush
  <2>2. Len(<<>>) = 0 /\ FrameLen \in Nat \ {0} /\ Len(m_controlBufTx) \in Nat
    BY TxPathAssumption, LenProperties DEF TypeOK
  <2>3. QED
    BY <1>11, <2>1, <2>2 DEF Flush, StagingBounded
<1>12. CASE Unkey
  BY <1>12 DEF Unkey, StagingBounded
<1>13. CASE TxPoll
  BY <1>13 DEF TxPoll, StagingBounded
<1>14. CASE TxAcquire
  BY <1>14 DEF TxAcquire, StagingBounded
<1>15. CASE TxStage
  <2>1. /\ Len(m_audioBufTx') = Len(m_audioBufTx) + 1
        /\ Len(m_controlBufTx') = Len(m_controlBufTx) + 1
    BY <1>15, Staged DEF TxStage
  <2>2. /\ Len(m_audioBufTx) \in Nat /\ Len(m_controlBufTx) \in Nat
        /\ FrameLen \in Nat /\ Len(m_audioBufTx) < FrameLen
    BY <1>15, TxPathAssumption, LenProperties DEF TxStage, StagingBounded, TypeOK
  <2>3. QED
    BY <1>15, <2>1, <2>2 DEF TxStage, StagingBounded
<1>16. CASE TxPush
  <2>1. /\ Len(txSampleQueue') = Len(txControlQueue')
        /\ Len(m_audioBufTx') = 0 /\ Len(m_controlBufTx') \in Nat
    BY <1>16, Pushed
  <2>2. QED
    BY <1>16, <2>1, TxPathAssumption DEF TxPush, StagingBounded
<1>17. CASE TxReturn
  BY <1>17 DEF TxReturn, StagingBounded
<1>18. CASE SourceCheck
  BY <1>18 DEF SourceCheck, StagingBounded
<1>19. CASE Dequeue
  <2>1. CASE txSampleQueue = <<>>
    BY <1>19, <2>1 DEF Dequeue, StagingBounded
  <2>2. CASE txSampleQueue # <<>>
    <3>1. txControlQueue # <<>>
      BY <2>2, EmptySeq DEF StagingBounded, TypeOK
    <3>2. Len(Tail(txSampleQueue)) = Len(Tail(txControlQueue))
      BY <2>2, <3>1, HeadTailProperties DEF StagingBounded, TypeOK
    <3>3. QED
      BY <1>19, <2>2, <3>2 DEF Dequeue, StagingBounded
  <2>3. QED
    BY <2>1, <2>2
<1>20. CASE Gate
  BY <1>20 DEF Gate, StagingBounded
<1>21. CASE UNCHANGED vars
  BY <1>21 DEF vars, StagingBounded
<1>22. QED
  BY <1>1, <1>2, <1>3, <1>4, <1>5, <1>6, <1>7, <1>8, <1>9, <1>10, <1>11, <1>12, <1>13,
     <1>14, <1>15, <1>16, <1>17, <1>18, <1>19, <1>20, <1>21
  DEF Next, ClockStep, TxStep, RadioStep

\* Every step keeps the state in its types.
LEMMA TypesHold == TxInv /\ [Next]_vars => TypeOK'
<1> SUFFICES ASSUME TxInv, [Next]_vars PROVE TypeOK'
  OBVIOUS
<1> USE DEF TxInv, TypeOK, ClockPc, flagVars, stageVars, radioVars, grVars, auxVars
<1>1. CASE Tick
  BY <1>1, TxPathAssumption DEF Tick
<1>2. CASE SetDecode
  BY <1>2 DEF SetDecode
<1>3. CASE SetTransmit
  BY <1>3 DEF SetTransmit
<1>4. CASE WriteBegin
  BY <1>4 DEF WriteBegin
<1>5. CASE KeyUp
  BY <1>5, TxPathAssumption DEF KeyUp
<1>6. CASE PutBlock
  <2>1. BlockLen <= Space
    BY <1>6, TxPathAssumption, LenProperties DEF PutBlock, BudgetInv, Space
  <2>2. m_txBuffer' \in Seq(Nat) /\ UNCHANGED m_overflow
    BY <1>6, <2>1, BlockIsSeq, ConcatProperties DEF PutBlock
  <2>3. nextSample' \in Nat
    BY <1>6, TxPathAssumption DEF PutBlock
  <2>4. QED
    BY <1>6, <2>2, <2>3 DEF PutBlock
<1>7. CASE Stamp
  BY <1>7, TxPathAssumption DEF Stamp
<1>8. CASE ProcessPoll
  BY <1>8 DEF ProcessPoll
<1>9. CASE ProcessOn
  BY <1>9 DEF ProcessOn
<1>10. CASE ProcessOff
  BY <1>10 DEF ProcessOff
<1>11. CASE Flush
  BY <1>11, EmptySeq DEF Flush
<1>12. CASE Unkey
  <2>1. m_ptt' \in BOOLEAN
    BY <1>12, TxPathAssumption, Zenon DEF Unkey
  <2>2. /\ txActive' = FALSE /\ clk' = "idle"
        /\ UNCHANGED <<m_tx, m_lockout, m_cosInt, idleTicks, stageVars, txSampleQueue,
                        txControlQueue, grVars, auxVars, pending, txt>>
    BY <1>12 DEF Unkey
  <2>3. QED
    BY <2>1, <2>2
<1>13. CASE TxPoll
  BY <1>13 DEF TxPoll
<1>14. CASE TxAcquire
  BY <1>14 DEF TxAcquire
<1>15. CASE TxStage
  BY <1>15, RingHead, Staged DEF TxStage
<1>16. CASE TxPush
  <2>1. /\ txSampleQueue' \in Seq(Nat) /\ txControlQueue' \in Seq(Nat)
        /\ Len(txSampleQueue') <= RadioCap
        /\ m_audioBufTx' \in Seq(Nat) /\ m_controlBufTx' \in Seq(Nat)
    BY <1>16, Pushed
  <2>2. /\ txLock' = "none" /\ txt' = "sleep"
        /\ UNCHANGED <<flagVars, m_txBuffer, m_overflow, txActive, grVars, auxVars,
                        clk, pending>>
    BY <1>16 DEF TxPush
  <2>3. QED
    BY <2>1, <2>2
<1>17. CASE TxReturn
  BY <1>17 DEF TxReturn
<1>18. CASE SourceCheck
  BY <1>18 DEF SourceCheck
<1>19. CASE Dequeue
  <2>1. CASE txSampleQueue = <<>>
    BY <1>19, <2>1 DEF Dequeue
  <2>2. CASE txSampleQueue # <<>>
    <3>1. txControlQueue # <<>>
      BY <2>2, EmptySeq DEF StageInv, StagingBounded
    <3>2. /\ Head(txSampleQueue) \in Nat /\ Tail(txSampleQueue) \in Seq(Nat)
          /\ Tail(txControlQueue) \in Seq(Nat)
          /\ Len(Tail(txSampleQueue)) <= RadioCap
      BY <2>2, <3>1, HeadTailProperties, LenProperties, TxPathAssumption
    <3>3. /\ inFlight' = Head(txSampleQueue) /\ txSampleQueue' = Tail(txSampleQueue)
          /\ txControlQueue' = Tail(txControlQueue) /\ gr' = "gate"
          /\ UNCHANGED <<flagVars, stageVars, txActive, onAir, auxVars, clk, pending, txt>>
      BY <1>19, <2>2 DEF Dequeue
    <3>4. QED
      BY <3>2, <3>3
  <2>3. QED
    BY <2>1, <2>2
<1>20. CASE Gate
  BY <1>20 DEF Gate
<1>21. CASE UNCHANGED vars
  BY <1>21 DEF vars
<1>22. QED
  BY <1>1, <1>2, <1>3, <1>4, <1>5, <1>6, <1>7, <1>8, <1>9, <1>10, <1>11, <1>12, <1>13,
     <1>14, <1>15, <1>16, <1>17, <1>18, <1>19, <1>20, <1>21
  DEF Next, ClockStep, TxStep, RadioStep

-----------------------------------------------------------------------------
(* The order of samples and marks *)

Elements(s) == {s[i] : i \in 1 .. Len(s)}

\* Everything of S is written before everything of T.
Before(S, T) == \A x \in S, y \in T : x < y

\* The numbers rise within each queue, and from each to the next: antenna, radio queue,
\* staging frame, ring, and what is still to be written.
OrderInv ==
  /\ Increasing(txSampleQueue) /\ Increasing(m_audioBufTx) /\ Increasing(m_txBuffer)
  /\ Before(Elements(txSampleQueue), Elements(m_audioBufTx) \cup Elements(m_txBuffer))
  /\ Before(Elements(m_audioBufTx), Elements(m_txBuffer))
  /\ Before({onAir, inFlight},
            Elements(txSampleQueue) \cup Elements(m_audioBufTx) \cup Elements(m_txBuffer))
  /\ Before({onAir, inFlight} \cup Elements(txSampleQueue) \cup Elements(m_audioBufTx)
               \cup Elements(m_txBuffer), {nextSample})
  /\ inFlight # 0 => onAir < inFlight
  /\ gr = "dequeue" => inFlight = 0

\* While no partly filled frame was thrown away, each sample has its own mark.
MarkInv == ~partialFlush => m_audioBufTx = m_controlBufTx /\ txSampleQueue = txControlQueue

\* The elements of a concatenation, and when it rises.
LEMMA ConcatRises ==
  ASSUME NEW s \in Seq(Nat), NEW t \in Seq(Nat)
  PROVE  /\ s \o t \in Seq(Nat)
         /\ Elements(s \o t) = Elements(s) \cup Elements(t)
         /\ Increasing(s) /\ Increasing(t) /\ Before(Elements(s), Elements(t))
              => Increasing(s \o t)
<1>1. /\ s \o t \in Seq(Nat) /\ Len(s \o t) = Len(s) + Len(t)
      /\ Len(s) \in Nat /\ Len(t) \in Nat
  BY ConcatProperties, LenProperties
<1>2. \A i \in 1 .. Len(s) : (s \o t)[i] = s[i]
  BY <1>1, ConcatProperties
<1>3. \A i \in Len(s) + 1 .. Len(s) + Len(t) : i - Len(s) \in 1 .. Len(t) /\ (s \o t)[i] = t[i - Len(s)]
  BY <1>1, ConcatProperties
<1>4. \A i \in 1 .. Len(t) : i + Len(s) \in 1 .. Len(s) + Len(t) /\ (s \o t)[i + Len(s)] = t[i]
  <2> TAKE i \in 1 .. Len(t)
  <2>1. i + Len(s) \in Len(s) + 1 .. Len(s) + Len(t) /\ (i + Len(s)) - Len(s) = i
    BY <1>1
  <2>2. QED
    BY <1>1, <1>3, <2>1
<1>5. Elements(s \o t) = Elements(s) \cup Elements(t)
  <2>1. ASSUME NEW x \in Elements(s \o t) PROVE x \in Elements(s) \cup Elements(t)
    <3>1. PICK i \in 1 .. Len(s) + Len(t) : x = (s \o t)[i]
      BY <1>1 DEF Elements
    <3>2. CASE i <= Len(s)
      BY <1>1, <1>2, <3>1, <3>2 DEF Elements
    <3>3. CASE ~(i <= Len(s))
      BY <1>1, <1>3, <3>1, <3>3 DEF Elements
    <3>4. QED
      BY <3>2, <3>3
  <2>2. ASSUME NEW x \in Elements(s) PROVE x \in Elements(s \o t)
    BY <1>1, <1>2, <2>2 DEF Elements
  <2>3. ASSUME NEW x \in Elements(t) PROVE x \in Elements(s \o t)
    BY <1>1, <1>4, <2>3 DEF Elements
  <2>4. QED
    BY <2>1, <2>2, <2>3
<1>6. ASSUME Increasing(s), Increasing(t), Before(Elements(s), Elements(t))
      PROVE  Increasing(s \o t)
  <2> SUFFICES ASSUME NEW i \in 1 .. Len(s) + Len(t), NEW j \in 1 .. Len(s) + Len(t), i < j
               PROVE  (s \o t)[i] < (s \o t)[j]
    BY <1>1 DEF Increasing
  <2>1. CASE j <= Len(s)
    BY <1>1, <1>2, <1>6, <2>1 DEF Increasing
  <2>2. CASE i > Len(s)
    <3>1. i \in Len(s) + 1 .. Len(s) + Len(t) /\ j \in Len(s) + 1 .. Len(s) + Len(t)
      BY <1>1, <2>2
    <3>2. /\ i - Len(s) \in 1 .. Len(t) /\ j - Len(s) \in 1 .. Len(t) /\ i - Len(s) < j - Len(s)
          /\ (s \o t)[i] = t[i - Len(s)] /\ (s \o t)[j] = t[j - Len(s)]
      BY <1>1, <1>3, <3>1
    <3>3. QED
      BY <1>6, <3>2 DEF Increasing
  <2>3. CASE i <= Len(s) /\ ~(j <= Len(s))
    <3>1. (s \o t)[i] \in Elements(s)
      BY <1>1, <1>2, <2>3 DEF Elements
    <3>2. j \in Len(s) + 1 .. Len(s) + Len(t)
      BY <1>1, <2>3
    <3>3. (s \o t)[j] \in Elements(t)
      BY <1>3, <3>2 DEF Elements
    <3>4. QED
      BY <1>6, <3>1, <3>3 DEF Before
  <2>4. QED
    BY <1>1, <2>1, <2>2, <2>3
<1>7. QED
  BY <1>1, <1>5, <1>6

\* A part of a rising sequence rises.
LEMMA PartRises ==
  ASSUME NEW s \in Seq(Nat), NEW m \in Nat \ {0}, NEW n \in Nat, n <= Len(s)
  PROVE  /\ Elements(SubSeq(s, m, n)) \subseteq Elements(s)
         /\ Increasing(s) => Increasing(SubSeq(s, m, n))
<1> DEFINE p == SubSeq(s, m, n)
<1>1. Len(s) \in Nat /\ \A i \in m .. n : i \in 1 .. Len(s) /\ s[i] \in Nat
  BY LenProperties, ElementOfSeq
<1>2. /\ Len(p) = IF m <= n THEN n - m + 1 ELSE 0
      /\ \A i \in 1 .. n - m + 1 : p[i] = s[m + i - 1]
  BY <1>1, SubSeqProperties
<1>3. \A i \in 1 .. Len(p) : m + i - 1 \in 1 .. Len(s) /\ p[i] = s[m + i - 1]
  BY <1>1, <1>2
<1>4. Elements(p) \subseteq Elements(s)
  BY <1>3 DEF Elements
<1>5. ASSUME Increasing(s), NEW i \in 1 .. Len(p), NEW j \in 1 .. Len(p), i < j
      PROVE  p[i] < p[j]
  <2>1. m + i - 1 < m + j - 1
    BY <1>2, <1>5
  <2>2. QED
    BY <1>3, <1>5, <2>1 DEF Increasing
<1>6. QED
  BY <1>4, <1>5 DEF Increasing

\* Taking the first of a rising sequence: it is before the rest.
LEMMA FirstIsBefore ==
  ASSUME NEW s \in Seq(Nat), s # <<>>, Increasing(s)
  PROVE  /\ Head(s) \in Elements(s) /\ Elements(Tail(s)) \subseteq Elements(s)
         /\ Increasing(Tail(s)) /\ Before({Head(s)}, Elements(Tail(s)))
<1>1. /\ Len(s) \in Nat \ {0} /\ Tail(s) \in Seq(Nat) /\ Len(Tail(s)) = Len(s) - 1
      /\ \A i \in 1 .. Len(Tail(s)) : Tail(s)[i] = s[i + 1]
  BY EmptySeq, HeadTailProperties
<1>2. Head(s) = s[1]
  OBVIOUS
<1>3. \A i \in 1 .. Len(Tail(s)) : i + 1 \in 1 .. Len(s) /\ 1 < i + 1 /\ Tail(s)[i] = s[i + 1]
  BY <1>1
<1>4. Head(s) \in Elements(s) /\ Elements(Tail(s)) \subseteq Elements(s)
  BY <1>1, <1>2, <1>3 DEF Elements
<1>5. Before({Head(s)}, Elements(Tail(s)))
  BY <1>1, <1>2, <1>3 DEF Elements, Before, Increasing
<1>6. ASSUME NEW i \in 1 .. Len(Tail(s)), NEW j \in 1 .. Len(Tail(s)), i < j
      PROVE  Tail(s)[i] < Tail(s)[j]
  <2>1. i + 1 < j + 1
    BY <1>1, <1>6
  <2>2. QED
    BY <1>3, <2>1 DEF Increasing
<1>7. QED
  BY <1>4, <1>5, <1>6 DEF Increasing

\* A sequence of one sample.
LEMMA OneRises ==
  ASSUME NEW x \in Nat
  PROVE  <<x>> \in Seq(Nat) /\ Elements(<<x>>) = {x} /\ Increasing(<<x>>)
<1>1. <<x>> \in Seq(Nat) /\ Len(<<x>>) = 1 /\ <<x>>[1] = x
  OBVIOUS
<1>2. QED
  BY <1>1 DEF Elements, Increasing

\* What a full radio queue keeps is a part of it.
LEMMA KeptRises ==
  ASSUME NEW s \in Seq(Nat)
  PROVE  /\ Elements(KeepNewest(s)) \subseteq Elements(s)
         /\ Increasing(s) => Increasing(KeepNewest(s))
<1>1. Len(s) \in Nat /\ RadioCap \in Nat
  BY LenProperties, TxPathAssumption
<1>2. CASE Len(s) > RadioCap
  <2>1. Len(s) - RadioCap + 1 \in Nat \ {0}
    BY <1>1, <1>2
  <2>2. QED
    BY <1>1, <1>2, <2>1, PartRises DEF KeepNewest
<1>3. CASE ~(Len(s) > RadioCap)
  BY <1>3 DEF KeepNewest
<1>4. QED
  BY <1>2, <1>3

\* A block is of the next numbers.
LEMMA BlockRises ==
  ASSUME nextSample \in Nat
  PROVE  /\ Increasing(Block)
         /\ \A x \in Elements(Block) : x \in Nat /\ nextSample <= x /\ x < nextSample + BlockLen
<1>1. Len(Block) = BlockLen /\ BlockLen \in Nat
  BY BlockIsSeq, TxPathAssumption
<1>2. \A k \in 1 .. BlockLen : Block[k] = nextSample + k - 1
  BY DEF Block
<1>3. QED
  BY <1>1, <1>2 DEF Increasing, Elements

\* The elements of a queue of numbers are numbers.
LEMMA ElementsAreNumbers ==
  ASSUME NEW s \in Seq(Nat)
  PROVE  Elements(s) \subseteq Nat
  BY ElementOfSeq DEF Elements

LEMMA InitOrder == Init => OrderInv /\ MarkInv
<1> SUFFICES ASSUME Init PROVE OrderInv /\ MarkInv
  OBVIOUS
<1>1. Elements(<<>>) = {} /\ Increasing(<<>>)
  BY DEF Elements, Increasing
<1>2. QED
  BY <1>1 DEF Init, OrderInv, MarkInv, Before

\* A write puts its block behind everything.
LEMMA PutKeepsOrder == TxInv /\ OrderInv /\ PutBlock => OrderInv'
<1> SUFFICES ASSUME TxInv, OrderInv, PutBlock PROVE OrderInv'
  OBVIOUS
<1>1. /\ nextSample \in Nat /\ BlockLen \in Nat \ {0} /\ m_txBuffer \in Seq(Nat)
      /\ m_audioBufTx \in Seq(Nat) /\ txSampleQueue \in Seq(Nat)
      /\ onAir \in Nat /\ inFlight \in Nat
  BY TxPathAssumption DEF TxInv, TypeOK
<1>2. m_txBuffer' = m_txBuffer \o Block /\ nextSample' = nextSample + BlockLen
  BY LenProperties, TxPathAssumption DEF PutBlock, TxInv, TypeOK, BudgetInv, Space
<1>3. UNCHANGED <<m_audioBufTx, txSampleQueue, onAir, inFlight, gr>>
  BY DEF PutBlock, radioVars, grVars
<1>4. \A x \in Elements(txSampleQueue) \cup Elements(m_audioBufTx) \cup Elements(m_txBuffer) :
        x \in Nat
  BY <1>1, ElementsAreNumbers
<1>5. Block \in Seq(Nat)
  BY <1>1, BlockIsSeq
<1>6. Before(Elements(txSampleQueue) \cup Elements(m_audioBufTx) \cup Elements(m_txBuffer)
               \cup {onAir, inFlight}, Elements(Block))
  BY <1>1, <1>4, BlockRises DEF OrderInv, Before
<1>7. Elements(m_txBuffer') = Elements(m_txBuffer) \cup Elements(Block)
  BY <1>1, <1>2, <1>5, ConcatRises
<1>8. Increasing(m_txBuffer')
  BY <1>1, <1>2, <1>5, <1>6, ConcatRises, BlockRises DEF OrderInv, Before
<1>9. Before({onAir, inFlight} \cup Elements(txSampleQueue) \cup Elements(m_audioBufTx)
               \cup Elements(m_txBuffer'), {nextSample'})
  <2>1. \A x \in {onAir, inFlight} \cup Elements(txSampleQueue) \cup Elements(m_audioBufTx)
          \cup Elements(m_txBuffer) : x \in Nat /\ x < nextSample
    BY <1>1, <1>4 DEF OrderInv, Before
  <2>2. \A x \in Elements(Block) : x \in Nat /\ x < nextSample + BlockLen
    BY <1>1, BlockRises
  <2>3. \A x \in {onAir, inFlight} \cup Elements(txSampleQueue) \cup Elements(m_audioBufTx)
          \cup Elements(m_txBuffer') : x < nextSample + BlockLen
    <3>1. \A x \in Nat : x < nextSample => x < nextSample + BlockLen
      BY <1>1
    <3>2. QED
      BY <1>7, <2>1, <2>2, <3>1
  <2>4. QED
    BY <1>2, <2>3 DEF Before
<1>10. QED
  BY <1>3, <1>6, <1>7, <1>8, <1>9 DEF OrderInv, Before

\* A sample moves from the front of the ring to the end of the staging frame.
LEMMA StageKeepsOrder == TxInv /\ OrderInv /\ TxStage => OrderInv'
<1> SUFFICES ASSUME TxInv, OrderInv, TxStage PROVE OrderInv'
  OBVIOUS
<1> DEFINE x == Head(m_txBuffer)
<1>1. m_txBuffer \in Seq(Nat) /\ m_audioBufTx \in Seq(Nat) /\ m_txBuffer # <<>> /\ x \in Nat
  BY RingHead DEF TxInv, TypeOK, TxStage
<1>2. /\ x \in Elements(m_txBuffer) /\ Elements(m_txBuffer') \subseteq Elements(m_txBuffer)
      /\ Increasing(m_txBuffer') /\ Before({x}, Elements(m_txBuffer'))
  BY <1>1, FirstIsBefore DEF OrderInv, TxStage
<1>3. m_audioBufTx' = m_audioBufTx \o <<x>>
  BY <1>1, AppendIsConcat DEF TxStage
<1>4. Elements(m_audioBufTx') = Elements(m_audioBufTx) \cup {x}
  BY <1>1, <1>3, OneRises, ConcatRises
<1>5. Increasing(m_audioBufTx')
  <2>1. Before(Elements(m_audioBufTx), {x})
    BY <1>2 DEF OrderInv, Before
  <2>2. QED
    BY <1>1, <1>3, <2>1, OneRises, ConcatRises DEF OrderInv
<1>6. UNCHANGED <<txSampleQueue, onAir, inFlight, gr, nextSample>>
  BY DEF TxStage, radioVars, grVars, auxVars
<1>7. QED
  BY <1>2, <1>4, <1>5, <1>6 DEF OrderInv, Before

\* A whole staging frame moves behind the radio queue, whose oldest samples may go.
LEMMA PushKeepsOrder == TxInv /\ OrderInv /\ TxPush => OrderInv'
<1> SUFFICES ASSUME TxInv, OrderInv, TxPush PROVE OrderInv'
  OBVIOUS
<1> DEFINE frame == SubSeq(m_audioBufTx, 1, FrameLen)
<1>1. /\ m_audioBufTx \in Seq(Nat) /\ txSampleQueue \in Seq(Nat)
      /\ Len(m_audioBufTx) = FrameLen /\ FrameLen \in Nat \ {0}
  BY TxPathAssumption DEF TxInv, TypeOK, StageInv, StagingBounded, TxPush
<1>2. frame = m_audioBufTx
  BY <1>1, SubSeqFull
<1>3. m_audioBufTx' = <<>>
  BY <1>1, SubSeqEmpty DEF TxPush
<1>4. txSampleQueue' = KeepNewest(txSampleQueue \o m_audioBufTx)
  BY <1>2 DEF TxPush
<1>5. /\ Increasing(txSampleQueue \o m_audioBufTx) /\ txSampleQueue \o m_audioBufTx \in Seq(Nat)
      /\ Elements(txSampleQueue \o m_audioBufTx) = Elements(txSampleQueue) \cup Elements(m_audioBufTx)
  BY <1>1, ConcatRises DEF OrderInv, Before
<1>6. /\ Increasing(txSampleQueue')
      /\ Elements(txSampleQueue') \subseteq Elements(txSampleQueue) \cup Elements(m_audioBufTx)
  BY <1>4, <1>5, KeptRises
<1>7. Elements(<<>>) = {} /\ Increasing(<<>>)
  BY DEF Elements, Increasing
<1>8. UNCHANGED <<m_txBuffer, onAir, inFlight, gr, nextSample>>
  BY DEF TxPush, grVars, auxVars
<1>9. QED
  BY <1>3, <1>6, <1>7, <1>8 DEF OrderInv, Before

\* The oldest sample of the radio queue is on its way to the gate.
LEMMA DequeueKeepsOrder == TxInv /\ OrderInv /\ Dequeue => OrderInv'
<1> SUFFICES ASSUME TxInv, OrderInv, Dequeue PROVE OrderInv'
  OBVIOUS
<1>1. /\ UNCHANGED <<m_txBuffer, m_audioBufTx, onAir, nextSample>> /\ gr' = "gate"
      /\ inFlight = 0 /\ onAir \in Nat
  BY DEF Dequeue, stageVars, auxVars, OrderInv, TxInv, TypeOK
<1>2. CASE txSampleQueue = <<>>
  BY <1>1, <1>2 DEF Dequeue, OrderInv
<1>3. CASE txSampleQueue # <<>>
  <2>1. inFlight' = Head(txSampleQueue) /\ txSampleQueue' = Tail(txSampleQueue)
    BY <1>3 DEF Dequeue
  <2>2. /\ inFlight' \in Elements(txSampleQueue) /\ Increasing(txSampleQueue')
        /\ Elements(txSampleQueue') \subseteq Elements(txSampleQueue)
        /\ Before({inFlight'}, Elements(txSampleQueue'))
    BY <1>3, <2>1, FirstIsBefore DEF OrderInv, TxInv, TypeOK
  <2>3. QED
    BY <1>1, <2>2 DEF OrderInv, Before
<1>4. QED
  BY <1>2, <1>3

\* The staging frame is thrown away.
LEMMA FlushKeepsOrder == TxInv /\ OrderInv /\ Flush => OrderInv'
<1> SUFFICES ASSUME OrderInv, Flush PROVE OrderInv'
  OBVIOUS
<1>1. Elements(<<>>) = {} /\ Increasing(<<>>)
  BY DEF Elements, Increasing
<1>2. /\ UNCHANGED <<m_txBuffer, txSampleQueue, onAir, inFlight, gr, nextSample>>
      /\ m_audioBufTx' = <<>>
  BY DEF Flush, radioVars, grVars
<1>3. QED
  BY <1>1, <1>2 DEF OrderInv, Before

\* The radio threads radiate the sample between them or drop it.
LEMMA RadioKeepsOrder == TxInv /\ OrderInv /\ (SourceCheck \/ Gate) => OrderInv'
<1> SUFFICES ASSUME TxInv, OrderInv, SourceCheck \/ Gate PROVE OrderInv'
  OBVIOUS
<1>1. /\ UNCHANGED <<m_txBuffer, m_audioBufTx, txSampleQueue, nextSample>>
      /\ inFlight' = 0 /\ onAir' \in {onAir, inFlight}
      /\ gr' = "dequeue" => inFlight' = 0
      /\ onAir \in Nat /\ inFlight \in Nat /\ nextSample \in Nat
  BY DEF SourceCheck, Gate, stageVars, radioVars, auxVars, TxInv, TypeOK
<1>2. \A y \in Elements(txSampleQueue) \cup Elements(m_audioBufTx) \cup Elements(m_txBuffer)
         \cup {nextSample} : y \in Nat /\ onAir < y /\ inFlight < y /\ 0 < y
  <2>1. Elements(txSampleQueue) \cup Elements(m_audioBufTx) \cup Elements(m_txBuffer) \subseteq Nat
    BY ElementsAreNumbers DEF TxInv, TypeOK
  <2>2. QED
    BY <1>1, <2>1 DEF OrderInv, Before
<1>3. QED
  BY <1>1, <1>2 DEF OrderInv, Before

\* The others move no sample.
LEMMA OthersKeepOrder ==
  ASSUME OrderInv, UNCHANGED <<m_txBuffer, m_audioBufTx, txSampleQueue, onAir, inFlight, gr, nextSample>>
  PROVE  OrderInv'
  BY DEF OrderInv

LEMMA OrderHolds == TxInv /\ OrderInv /\ [Next]_vars => OrderInv'
<1> SUFFICES ASSUME TxInv, OrderInv, [Next]_vars PROVE OrderInv'
  OBVIOUS
<1> USE DEF flagVars, stageVars, radioVars, grVars, auxVars
<1>1. CASE PutBlock
  BY <1>1, PutKeepsOrder
<1>2. CASE TxStage
  BY <1>2, StageKeepsOrder
<1>3. CASE TxPush
  BY <1>3, PushKeepsOrder
<1>4. CASE Dequeue
  BY <1>4, DequeueKeepsOrder
<1>5. CASE Flush
  BY <1>5, FlushKeepsOrder
<1>6. CASE SourceCheck \/ Gate
  BY <1>6, RadioKeepsOrder
<1>7. CASE SetTransmit \/ WriteBegin \/ KeyUp \/ Stamp \/ ProcessPoll \/ ProcessOn \/ ProcessOff \/ Unkey
  BY <1>7, OthersKeepOrder
  DEF SetTransmit, WriteBegin, KeyUp, Stamp, ProcessPoll, ProcessOn, ProcessOff, Unkey
<1>8. CASE TxPoll \/ TxAcquire \/ TxReturn \/ Tick \/ SetDecode \/ UNCHANGED vars
  BY <1>8, OthersKeepOrder DEF TxPoll, TxAcquire, TxReturn, Tick, SetDecode, vars
<1>9. QED
  BY <1>1, <1>2, <1>3, <1>4, <1>5, <1>6, <1>7, <1>8
  DEF Next, ClockStep, TxStep, RadioStep

\* Samples and marks are staged, handed over and taken together; only the flush takes
\* samples alone, and that is recorded unless the frame was empty.
LEMMA MarksHold == TxInv /\ MarkInv /\ [Next]_vars => MarkInv'
<1> SUFFICES ASSUME TxInv, MarkInv, [Next]_vars PROVE MarkInv'
  OBVIOUS
<1> USE DEF MarkInv, flagVars, stageVars, radioVars, grVars, auxVars
<1>1. CASE TxStage \/ TxPush \/ Dequeue
  <2>1. partialFlush' = partialFlush
    BY <1>1 DEF TxStage, TxPush, Dequeue
  <2>2. ASSUME ~partialFlush PROVE m_audioBufTx' = m_controlBufTx'
    <3>1. m_audioBufTx = m_controlBufTx
      BY <2>2
    <3>2. CASE TxStage
      BY <3>1, <3>2 DEF TxStage
    <3>3. CASE TxPush
      BY <3>1, <3>3 DEF TxPush
    <3>4. CASE Dequeue
      BY <3>1, <3>4 DEF Dequeue
    <3>5. QED
      BY <1>1, <3>2, <3>3, <3>4
  <2>3. ASSUME ~partialFlush PROVE txSampleQueue' = txControlQueue'
    BY <1>1, <2>3 DEF TxStage, TxPush, Dequeue
  <2>4. QED
    BY <2>1, <2>2, <2>3
<1>2. CASE Flush
  <2>1. /\ m_audioBufTx' = <<>> /\ m_controlBufTx' = m_controlBufTx
        /\ txSampleQueue' = txSampleQueue /\ txControlQueue' = txControlQueue
        /\ partialFlush' = (partialFlush \/ m_audioBufTx # <<>>)
    BY <1>2 DEF Flush
  <2>2. CASE partialFlush \/ m_audioBufTx # <<>>
    <3>1. partialFlush' = TRUE
      BY <2>1, <2>2, Zenon
    <3>2. QED
      BY <3>1
  <2>3. CASE ~partialFlush /\ m_audioBufTx = <<>>
    BY <2>1, <2>3
  <2>4. QED
    BY <2>2, <2>3, Zenon
<1>3. CASE SetTransmit \/ WriteBegin \/ KeyUp \/ Stamp \/ ProcessPoll \/ ProcessOn \/ ProcessOff \/ Unkey
  BY <1>3
  DEF SetTransmit, WriteBegin, KeyUp, Stamp, ProcessPoll, ProcessOn, ProcessOff, Unkey
<1>4. CASE TxPoll \/ TxAcquire \/ TxReturn \/ Tick \/ SetDecode \/ UNCHANGED vars
  BY <1>4 DEF TxPoll, TxAcquire, TxReturn, Tick, SetDecode, vars
<1>5. CASE PutBlock \/ SourceCheck \/ Gate
  BY <1>5 DEF PutBlock, SourceCheck, Gate
<1>6. QED
  BY <1>1, <1>2, <1>3, <1>4, <1>5 DEF Next, ClockStep, TxStep, RadioStep

\* The whole path as one sequence rises when its parts do.
LEMMA PathRises == TxInv /\ OrderInv => SamplesInOrder
<1> SUFFICES ASSUME TxInv, OrderInv PROVE SamplesInOrder
  OBVIOUS
<1> DEFINE air == IF inFlight = 0 THEN <<onAir>> ELSE <<onAir, inFlight>>
<1>1. /\ txSampleQueue \in Seq(Nat) /\ m_audioBufTx \in Seq(Nat) /\ m_txBuffer \in Seq(Nat)
      /\ onAir \in Nat /\ inFlight \in Nat
  BY DEF TxInv, TypeOK
<1>2. air \in Seq(Nat) /\ Increasing(air) /\ Elements(air) \subseteq {onAir, inFlight}
  <2>1. CASE inFlight = 0
    BY <1>1, <2>1, OneRises
  <2>2. CASE inFlight # 0
    <3>1. air = <<onAir>> \o <<inFlight>>
      BY <2>2
    <3>2. Before({onAir}, {inFlight})
      BY <2>2 DEF OrderInv, Before
    <3>3. /\ <<onAir>> \in Seq(Nat) /\ Elements(<<onAir>>) = {onAir} /\ Increasing(<<onAir>>)
          /\ <<inFlight>> \in Seq(Nat) /\ Elements(<<inFlight>>) = {inFlight}
          /\ Increasing(<<inFlight>>)
      BY <1>1, OneRises
    <3>4. /\ <<onAir>> \o <<inFlight>> \in Seq(Nat)
          /\ Elements(<<onAir>> \o <<inFlight>>) = {onAir} \cup {inFlight}
          /\ Increasing(<<onAir>> \o <<inFlight>>)
      BY <3>2, <3>3, ConcatRises, Zenon
    <3>5. QED
      BY <3>1, <3>4, Zenon
  <2>3. QED
    BY <2>1, <2>2
<1>3. /\ air \o txSampleQueue \in Seq(Nat) /\ Increasing(air \o txSampleQueue)
      /\ Elements(air \o txSampleQueue) \subseteq {onAir, inFlight} \cup Elements(txSampleQueue)
  <2>1. Before(Elements(air), Elements(txSampleQueue)) /\ Increasing(txSampleQueue)
    BY <1>2 DEF OrderInv, Before
  <2>2. QED
    BY <1>1, <1>2, <2>1, ConcatRises
<1>4. /\ (air \o txSampleQueue) \o m_audioBufTx \in Seq(Nat)
      /\ Increasing((air \o txSampleQueue) \o m_audioBufTx)
      /\ Elements((air \o txSampleQueue) \o m_audioBufTx)
           \subseteq {onAir, inFlight} \cup Elements(txSampleQueue) \cup Elements(m_audioBufTx)
  <2>1. Before(Elements(air \o txSampleQueue), Elements(m_audioBufTx)) /\ Increasing(m_audioBufTx)
    BY <1>3 DEF OrderInv, Before
  <2>2. air \o txSampleQueue \in Seq(Nat) /\ m_audioBufTx \in Seq(Nat)
    BY <1>1, <1>3
  <2>3. /\ (air \o txSampleQueue) \o m_audioBufTx \in Seq(Nat)
        /\ Elements((air \o txSampleQueue) \o m_audioBufTx)
             = Elements(air \o txSampleQueue) \cup Elements(m_audioBufTx)
        /\ Increasing((air \o txSampleQueue) \o m_audioBufTx)
    BY <1>3, <2>1, <2>2, ConcatRises, Zenon
  <2>4. QED
    BY <1>3, <2>3
<1>5. Increasing(((air \o txSampleQueue) \o m_audioBufTx) \o m_txBuffer)
  <2>1. /\ Before(Elements((air \o txSampleQueue) \o m_audioBufTx), Elements(m_txBuffer))
        /\ Increasing(m_txBuffer)
    BY <1>4 DEF OrderInv, Before
  <2>2. QED
    BY <1>1, <1>4, <2>1, ConcatRises
<1>6. QED
  BY <1>5 DEF SamplesInOrder

-----------------------------------------------------------------------------
(* The theorems *)

\* The inductive invariant holds in every reachable state.
THEOREM TxInvariant == Spec => []TxInv
<1>1. TxInv /\ [Next]_vars => TxInv'
  BY ClockKnows, KeyingHolds, BudgetHolds, StagingHolds, TypesHold DEF TxInv
<1>2. QED
  BY InitInv, <1>1, PTL DEF Spec

\* The state keeps its types: in particular the staged frame never holds a value
\* that was not written, and every queue stays a sequence of sample numbers.
THEOREM TypeCorrect == Spec => []TypeOK
<1>1. TxInv => TypeOK
  BY DEF TxInv
<1>2. QED
  BY TxInvariant, <1>1, PTL

\* The transmitter is never off while samples wait in the transmit ring: the
\* unlocked gap between process()'s poll and its m_tx = false loses nothing.
THEOREM NoStrandedSamples == Spec => []NothingWaitsWhileOff
<1>1. TxInv => NothingWaitsWhileOff
  BY DEF TxInv, ClockInv, NothingWaitsWhileOff
<1>2. QED
  BY TxInvariant, <1>1, PTL

\* The transmit ring never overflows under the engines' space budget.
THEOREM RingNeverOverflows == Spec => []NeverOverflows
<1>1. TxInv => NeverOverflows
  BY DEF TxInv, BudgetInv
<1>2. QED
  BY TxInvariant, <1>1, PTL

\* The staging frame is complete only under m_txLock, every staged sample has a
\* mark, and the radio's two queues have one length.
THEOREM StagingIsBounded == Spec => []StagingBounded
<1>1. TxInv => StagingBounded
  BY DEF TxInv, StageInv
<1>2. QED
  BY TxInvariant, <1>1, PTL

\* Between two operations of the clock thread, m_tx, the radio channel's active
\* flag and the PTT line tell the same story.
THEOREM KeyingIsConsistent == Spec => []KeyingAgrees
<1>1. TxInv => KeyingAgrees
  <2>1. ASSUME TxInv, clk = "idle"
        PROVE  (m_tx <=> txActive) /\ (m_tx => m_ptt = ~PttInvert)
    BY <2>1 DEF TxInv, KeyedInv
  <2>2. ASSUME TxInv PROVE m_tx \in BOOLEAN /\ txActive \in BOOLEAN
    BY <2>2 DEF TxInv, TypeOK
  <2>3. QED
    BY <2>1, <2>2 DEF KeyingAgrees
<1>2. QED
  BY TxInvariant, <1>1, PTL

\* TX drops only in process(), with the hang time over and the ring empty.
THEOREM OffAfterHang == Spec => OffOnlyAfterHang
<1>1. TxInv /\ [Next]_vars => [m_tx /\ ~m_tx' => HangExpired /\ m_txBuffer = <<>>]_vars
  <2> SUFFICES ASSUME TxInv, [Next]_vars, m_tx, ~m_tx'
               PROVE  HangExpired /\ m_txBuffer = <<>>
    OBVIOUS
  <2>1. CASE Flush
    BY <2>1 DEF Flush, TxInv, ClockInv
  <2>2. CASE ClockStep /\ ~Flush
    BY <2>2 DEF ClockStep, SetTransmit, WriteBegin, KeyUp, PutBlock, Stamp, ProcessPoll,
                ProcessOn, ProcessOff, Unkey, flagVars
  <2>3. CASE TxStep \/ RadioStep \/ SetDecode \/ Tick
    BY <2>3 DEF TxStep, TxPoll, TxAcquire, TxStage, TxPush, TxReturn, RadioStep,
                SourceCheck, Dequeue, Gate, SetDecode, Tick, flagVars
  <2>4. CASE UNCHANGED vars
    BY <2>4 DEF vars, flagVars
  <2>5. QED
    BY <2>1, <2>2, <2>3, <2>4 DEF Next
<1>2. QED
  BY TxInvariant, <1>1, PTL DEF Spec, OffOnlyAfterHang

\* Samples are radiated in the order they were written, each once: from the ring to the
\* antenna no thread repeats or reorders one.
THEOREM RadiatedInOrder == Spec => []SamplesInOrder
<1>1. Init => TxInv /\ OrderInv
  BY InitInv, InitOrder
<1>2. TxInv /\ OrderInv /\ [Next]_vars => TxInv' /\ OrderInv'
  BY ClockKnows, KeyingHolds, BudgetHolds, StagingHolds, TypesHold, OrderHolds DEF TxInv
<1>3. QED
  BY <1>1, <1>2, PathRises, PTL DEF Spec

\* Until a partly filled frame is flushed, every sample handed to the radio has the mark
\* it was written with.
THEOREM MarksStayAligned == Spec => []MarksAligned
<1>1. Init => TxInv /\ MarkInv
  BY InitInv, InitOrder
<1>2. TxInv /\ MarkInv /\ [Next]_vars => TxInv' /\ MarkInv'
  BY ClockKnows, KeyingHolds, BudgetHolds, StagingHolds, TypesHold, MarksHold DEF TxInv
<1>3. MarkInv => MarksAligned
  BY DEF MarkInv, MarksAligned
<1>4. QED
  BY <1>1, <1>2, <1>3, PTL DEF Spec
=============================================================================
