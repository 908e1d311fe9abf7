---------------------------- MODULE Receivers_proofs ---------------------------
(***************************************************************************)
(* Proofs about the receivers of NXDN, P25 and DMR, each for every length  *)
(* of its frames and every pattern of syncs.                               *)
(***************************************************************************)
EXTENDS MCReceivers, FiniteSetTheorems, SequenceTheorems, TLAPS

-----------------------------------------------------------------------------
(***************************************************************************)
(* NxdnRx.  The ring is one frame long, so that a sample that comes in has *)
(* the place of the last sync plus the samples since: everything follows   *)
(* from where the pointers are with respect to the middle of the window.   *)
(***************************************************************************)

\* The place in the ring of the sample that comes since samples after the last frame was
\* taken, when that frame's sync was at fsw.
NPlace(fsw, n) == N!Wrap(fsw + FrameLen - FswLen + n)

\* Between the first sync and the lock: the pointers are those of the last sync.
NSearch ==
  m_state = "NONE" /\ m_countdown > 0 =>
    /\ seen /\ m_lostCount = MaxFrames /\ m_countdown > 1
    /\ m_fswPtr \in N!Index /\ m_endPtr = N!EndOfFrame(m_fswPtr)
    /\ m_dataPtr = NPlace(m_fswPtr, since)
    /\ since > FswLen /\ since + m_countdown <= FswLen + CorrCountdown

\* The count of frames left is that of the frames without a sync.
NCounts ==
  m_state = "DATA" =>
    /\ m_countdown = 0 /\ unsynced <= MaxFrames - 2
    /\ seen => m_lostCount = MaxFrames
    /\ ~seen => m_lostCount = MaxFrames - 1 - unsynced

\* With the lock: the window is around w, and the sync moved by d at most one sample; it
\* was seen early in the frame, whose end is still to come.
NSyncAt(w, d) ==
  /\ m_minFSWPtr = N!Wrap(w + FrameLen - 1) /\ m_maxFSWPtr = N!Wrap(w + 1)
  /\ m_dataPtr = NPlace(w, since)
  /\ m_fswPtr = N!Wrap(w + FrameLen + d) /\ m_endPtr = N!EndOfFrame(m_fswPtr)
  /\ seen => since >= FswLen
  /\ ~seen => d = 0
  /\ since <= FrameLen - 1 + d

NLocked == m_state = "DATA" => \E w \in N!Index, d \in {-1, 0, 1} : NSyncAt(w, d)

NInv == N!TypeOK /\ N!CarrierIsLock /\ N!FlagsAreTrue /\ NSearch /\ NCounts /\ NLocked

LEMMA NxdnConstants ==
  /\ FrameLen \in Nat /\ FswLen \in Nat /\ FswLen >= 2 /\ FswLen + CorrCountdown + 2 < FrameLen
  /\ MaxFrames \in Nat /\ MaxFrames >= 2 /\ CorrCountdown \in Nat /\ CorrCountdown > 1
  /\ Strengths \subseteq Nat /\ 0 \notin Strengths
  BY ConstantsFit DEF N!NxdnRxAssumption

\* Pointers wrap into the ring.
LEMMA NxdnWrap ==
  ASSUME NEW x \in Nat
  PROVE  /\ N!Wrap(x) \in N!Index
         /\ x < FrameLen => N!Wrap(x) = x
         /\ x >= FrameLen /\ x < 2 * FrameLen => N!Wrap(x) = x - FrameLen
         /\ x >= 2 * FrameLen /\ x < 3 * FrameLen => N!Wrap(x) = x - 2 * FrameLen
<1>1. FrameLen \in Nat \ {0}
  BY NxdnConstants
<1>2. N!Wrap(x) \in N!Index
  BY <1>1 DEF N!Wrap, N!Index
<1>3. x < FrameLen => N!Wrap(x) = x
  BY <1>1 DEF N!Wrap
<1>4. x >= FrameLen /\ x < 2 * FrameLen => N!Wrap(x) = x - FrameLen
  BY <1>1 DEF N!Wrap
<1>5. x >= 2 * FrameLen /\ x < 3 * FrameLen => N!Wrap(x) = x - 2 * FrameLen
  BY <1>1 DEF N!Wrap
<1>6. QED
  BY <1>2, <1>3, <1>4, <1>5

\* The next sample comes one place further on.
LEMMA NxdnNextPlace ==
  ASSUME NEW w \in N!Index, NEW n \in Nat, n <= FrameLen
  PROVE  N!Wrap(NPlace(w, n) + 1) = NPlace(w, n + 1)
<1> DEFINE x == w + FrameLen - FswLen + n
<1>1. /\ FrameLen \in Nat /\ FswLen \in Nat /\ FswLen >= 2 /\ FswLen < FrameLen
      /\ w \in Nat /\ w < FrameLen
  BY NxdnConstants DEF N!Index
<1>2. x \in Nat /\ x + 1 < 3 * FrameLen
  BY <1>1
<1>3. NPlace(w, n) = N!Wrap(x) /\ NPlace(w, n + 1) = N!Wrap(x + 1)
  <2>1. w + FrameLen - FswLen + (n + 1) = x + 1
    BY <1>1
  <2>2. QED
    BY <2>1 DEF NPlace
<1> HIDE DEF x
<1>4. CASE x < FrameLen
  <2>1. N!Wrap(x) = x
    BY <1>2, <1>4, NxdnWrap
  <2>2. QED
    BY <1>3, <2>1
<1>5. CASE x >= FrameLen /\ x < 2 * FrameLen
  <2>1. N!Wrap(x) = x - FrameLen
    BY <1>2, <1>5, NxdnWrap
  <2>2. x - FrameLen + 1 \in Nat /\ x + 1 \in Nat
    BY <1>1, <1>2, <1>5
  <2>3. CASE x + 1 < 2 * FrameLen
    <3>1. N!Wrap(x + 1) = x + 1 - FrameLen
      BY <1>1, <1>2, <1>5, <2>2, <2>3, NxdnWrap
    <3>2. N!Wrap(x - FrameLen + 1) = x - FrameLen + 1
      BY <1>1, <1>2, <1>5, <2>2, <2>3, NxdnWrap
    <3>3. QED
      BY <1>1, <1>2, <1>3, <2>1, <3>1, <3>2
  <2>4. CASE x + 1 >= 2 * FrameLen
    <3>1. N!Wrap(x + 1) = x + 1 - 2 * FrameLen
      BY <1>1, <1>2, <1>5, <2>2, <2>4, NxdnWrap
    <3>2. N!Wrap(x - FrameLen + 1) = x - FrameLen + 1 - FrameLen
      BY <1>1, <1>2, <1>5, <2>2, <2>4, NxdnWrap
    <3>3. QED
      BY <1>1, <1>2, <1>3, <2>1, <3>1, <3>2
  <2>5. QED
    BY <1>1, <1>2, <2>3, <2>4
<1>6. CASE x >= 2 * FrameLen
  <2>1. N!Wrap(x) = x - 2 * FrameLen
    BY <1>1, <1>2, <1>6, NxdnWrap
  <2>2. N!Wrap(x + 1) = x + 1 - 2 * FrameLen
    BY <1>1, <1>2, <1>6, NxdnWrap
  <2>3. x - 2 * FrameLen + 1 \in Nat /\ x - 2 * FrameLen + 1 < FrameLen
    BY <1>1, <1>2, <1>6
  <2>4. N!Wrap(x - 2 * FrameLen + 1) = x - 2 * FrameLen + 1
    BY <2>3, NxdnWrap
  <2>5. QED
    BY <1>1, <1>2, <1>3, <2>1, <2>2, <2>4
<1>7. QED
  BY <1>1, <1>2, <1>4, <1>5, <1>6

\* A sync's last sample has the place FswLen samples into the frame.
LEMMA NxdnSyncPlace ==
  ASSUME NEW w \in N!Index
  PROVE  N!Wrap(w + 1) = NPlace(w, FswLen + 1)
<1>1. /\ FrameLen \in Nat /\ FswLen \in Nat /\ FrameLen >= 2 /\ w \in Nat /\ w < FrameLen
  BY NxdnConstants DEF N!Index
<1>2. w + FrameLen - FswLen + (FswLen + 1) = w + 1 + FrameLen
  BY <1>1
<1>3. NPlace(w, FswLen + 1) = N!Wrap(w + 1 + FrameLen)
  BY <1>2 DEF NPlace
<1>4. CASE w + 1 < FrameLen
  <2>1. N!Wrap(w + 1) = w + 1 /\ N!Wrap(w + 1 + FrameLen) = w + 1 + FrameLen - FrameLen
    BY <1>1, <1>4, NxdnWrap
  <2>2. QED
    BY <1>1, <1>3, <2>1
<1>5. CASE w + 1 = FrameLen
  <2>1. N!Wrap(w + 1) = w + 1 - FrameLen
    BY <1>1, <1>5, NxdnWrap
  <2>2. N!Wrap(w + 1 + FrameLen) = w + 1 + FrameLen - 2 * FrameLen
    BY <1>1, <1>5, NxdnWrap
  <2>3. QED
    BY <1>1, <1>3, <2>1, <2>2
<1>6. QED
  BY <1>1, <1>4, <1>5

\* Where the sync may be: a sample around the middle of the window.
LEMMA NxdnMoved ==
  ASSUME NEW w \in N!Index, NEW d \in {-1, 0, 1}
  PROVE  /\ N!Wrap(w + FrameLen + d) \in N!Index
         /\ w + d < 0 => N!Wrap(w + FrameLen + d) = w + d + FrameLen
         /\ w + d \in N!Index => N!Wrap(w + FrameLen + d) = w + d
         /\ w + d >= FrameLen => N!Wrap(w + FrameLen + d) = w + d - FrameLen
<1>1. FrameLen \in Nat /\ FrameLen >= 2 /\ w \in Nat /\ w < FrameLen /\ d \in Int /\ d >= -1 /\ d <= 1
  BY NxdnConstants DEF N!Index
<1> DEFINE x == w + FrameLen + d
<1>2. x \in Nat /\ x >= FrameLen - 1 /\ x <= 2 * FrameLen
  BY <1>1
<1> HIDE DEF x
<1>3. N!Wrap(x) \in N!Index
  BY <1>2, NxdnWrap
<1>4. x = w + FrameLen + d
  BY DEF x
<1>5. w + d < 0 => N!Wrap(x) = x
  BY <1>1, <1>2, <1>4, NxdnWrap
<1>6. w + d \in N!Index => N!Wrap(x) = x - FrameLen
  BY <1>1, <1>2, <1>4, NxdnWrap DEF N!Index
<1>7. w + d >= FrameLen => N!Wrap(x) = x - 2 * FrameLen
  BY <1>1, <1>2, <1>4, NxdnWrap
<1>8. QED
  BY <1>1, <1>3, <1>4, <1>5, <1>6, <1>7

\* The place of the n-th sample, without a remainder.
LEMMA NxdnPlaceIs ==
  ASSUME NEW w \in N!Index, NEW n \in Nat, n <= FrameLen
  PROVE  LET x == w - FswLen + n IN
         /\ NPlace(w, n) \in N!Index
         /\ x < 0 => NPlace(w, n) = x + FrameLen
         /\ x \in N!Index => NPlace(w, n) = x
         /\ x >= FrameLen => NPlace(w, n) = x - FrameLen
<1>1. /\ FrameLen \in Nat /\ FswLen \in Nat /\ FswLen >= 2 /\ FswLen < FrameLen
      /\ w \in Nat /\ w < FrameLen
  BY NxdnConstants DEF N!Index
<1> DEFINE y == w + FrameLen - FswLen + n
<1>2. y \in Nat /\ y < 3 * FrameLen
  BY <1>1
<1>3. y = w + FrameLen - FswLen + n /\ NPlace(w, n) = N!Wrap(y)
  BY DEF NPlace
<1> HIDE DEF y
<1>4. N!Wrap(y) \in N!Index
  BY <1>2, NxdnWrap
<1>5. y < FrameLen => N!Wrap(y) = y
  BY <1>2, NxdnWrap
<1>6. y >= FrameLen /\ y < 2 * FrameLen => N!Wrap(y) = y - FrameLen
  BY <1>2, NxdnWrap
<1>7. y >= 2 * FrameLen => N!Wrap(y) = y - 2 * FrameLen
  BY <1>2, NxdnWrap
<1>8. QED
  BY <1>1, <1>2, <1>3, <1>4, <1>5, <1>6, <1>7 DEF N!Index

\* And the end of the frame of a sync.
LEMMA NxdnEndIs ==
  ASSUME NEW f \in N!Index
  PROVE  LET x == f - FswLen - 1 IN
         /\ N!EndOfFrame(f) \in N!Index
         /\ x < 0 => N!EndOfFrame(f) = x + FrameLen
         /\ x >= 0 => N!EndOfFrame(f) = x
<1>1. /\ FrameLen \in Nat /\ FswLen \in Nat /\ FswLen + 2 < FrameLen /\ f \in Nat /\ f < FrameLen
  BY NxdnConstants DEF N!Index
<1> DEFINE y == f + FrameLen - FswLen - 1
<1>2. y \in Nat /\ y < 2 * FrameLen
  BY <1>1
<1>3. y = f + FrameLen - FswLen - 1 /\ N!EndOfFrame(f) = N!Wrap(y)
  BY DEF N!EndOfFrame
<1> HIDE DEF y
<1>4. N!Wrap(y) \in N!Index
  BY <1>2, NxdnWrap
<1>5. y < FrameLen => N!Wrap(y) = y
  BY <1>2, NxdnWrap
<1>6. y >= FrameLen => N!Wrap(y) = y - FrameLen
  BY <1>2, NxdnWrap
<1>7. QED
  BY <1>1, <1>2, <1>3, <1>4, <1>5, <1>6

\* While a frame comes in, its end is reached after just as many samples as a frame has,
\* give or take the one its sync moved by; and the next frame is counted from that sync.
LEMMA NxdnFrameEnds ==
  ASSUME NEW w \in N!Index, NEW d \in {-1, 0, 1}, NEW n \in Nat, n <= FrameLen - 1 + d,
         d # 0 => n >= 2,
         NEW f, f = N!Wrap(w + FrameLen + d)
  PROVE  /\ NPlace(w, n) = N!EndOfFrame(f) <=> n = FrameLen - 1 + d
         /\ n = FrameLen - 1 + d => N!Wrap(NPlace(w, n) + 1) = NPlace(f, 0)
<1>1. /\ FrameLen \in Nat /\ FswLen \in Nat /\ FswLen >= 2 /\ FswLen + 2 < FrameLen
      /\ w \in Nat /\ w < FrameLen /\ d \in Int /\ d >= -1 /\ d <= 1
  BY NxdnConstants DEF N!Index
<1>2. f \in N!Index
  BY NxdnMoved
<1>3. f \in Nat /\ f < FrameLen
  BY <1>1, <1>2 DEF N!Index
<1>4. f = w + d \/ f = w + d + FrameLen \/ f = w + d - FrameLen
  BY <1>1, NxdnMoved DEF N!Index
<1>5. n <= FrameLen
  BY <1>1
<1> DEFINE place == NPlace(w, n)  end == N!EndOfFrame(f)
<1>6. place \in Nat /\ place < FrameLen
  BY <1>1, <1>5, NxdnPlaceIs DEF N!Index
<1>7. place = w - FswLen + n \/ place = w - FswLen + n + FrameLen \/ place = w - FswLen + n - FrameLen
  BY <1>1, <1>5, NxdnPlaceIs DEF N!Index
<1>8. end \in Nat /\ end < FrameLen /\ (end = f - FswLen - 1 \/ end = f - FswLen - 1 + FrameLen)
  BY <1>1, <1>2, <1>3, NxdnEndIs DEF N!Index
<1> HIDE DEF place, end
<1>9. place = end <=> n = FrameLen - 1 + d
  BY <1>1, <1>3, <1>4, <1>6, <1>7, <1>8
<1>10. ASSUME n = FrameLen - 1 + d PROVE N!Wrap(place + 1) = NPlace(f, 0)
  <2>1. place = end
    BY <1>9, <1>10
  <2>2. /\ NPlace(f, 0) \in Nat /\ NPlace(f, 0) < FrameLen
        /\ f - FswLen < 0 => NPlace(f, 0) = f - FswLen + FrameLen
        /\ f - FswLen >= 0 => NPlace(f, 0) = f - FswLen
    <3>1. 0 <= FrameLen /\ f - FswLen + 0 = f - FswLen
      BY <1>1, <1>3
    <3>2. f - FswLen < FrameLen
      BY <1>1, <1>3
    <3>3. /\ NPlace(f, 0) \in N!Index
          /\ f - FswLen + 0 < 0 => NPlace(f, 0) = f - FswLen + 0 + FrameLen
          /\ f - FswLen + 0 \in N!Index => NPlace(f, 0) = f - FswLen + 0
      BY <1>2, <3>1, NxdnPlaceIs
    <3>4. QED
      BY <1>1, <1>3, <3>1, <3>2, <3>3 DEF N!Index
  <2>3. place + 1 < FrameLen => N!Wrap(place + 1) = place + 1
    BY <1>6, NxdnWrap
  <2>4. place + 1 = FrameLen => N!Wrap(place + 1) = place + 1 - FrameLen
    BY <1>1, <1>6, NxdnWrap
  <2>5. QED
    BY <1>1, <1>3, <1>6, <1>8, <2>1, <2>2, <2>3, <2>4
<1>11. QED
  BY <1>9, <1>10 DEF place, end

\* A sync in the window is a sample around its middle, and early in the frame.
LEMMA NxdnSyncSeen ==
  ASSUME NEW w \in N!Index, NEW n \in Nat, n <= FrameLen, m_dataPtr = NPlace(w, n),
         N!InWindow(N!Wrap(w + FrameLen - 1), N!Wrap(w + 1))
  PROVE  \E d \in {-1, 0, 1} : n = FswLen + d /\ m_dataPtr = N!Wrap(w + FrameLen + d)
<1>1. /\ FrameLen \in Nat /\ FswLen \in Nat /\ FswLen >= 2 /\ FswLen + 2 < FrameLen
      /\ w \in Nat /\ w < FrameLen
  BY NxdnConstants DEF N!Index
<1> DEFINE min == N!Wrap(w + FrameLen - 1)  max == N!Wrap(w + 1)
<1>2. /\ w + FrameLen + (-1) = w + FrameLen - 1 /\ w + FrameLen + 0 = w + FrameLen
  BY <1>1
<1>3. /\ w = 0 => min = FrameLen - 1
      /\ w > 0 => min = w - 1
  <2>1. w + FrameLen - 1 \in Nat /\ w + FrameLen - 1 < 2 * FrameLen
    BY <1>1
  <2>2. w = 0 => w + FrameLen - 1 < FrameLen
    BY <1>1
  <2>3. w > 0 => w + FrameLen - 1 >= FrameLen
    BY <1>1
  <2>4. QED
    BY <1>1, <2>1, <2>2, <2>3, NxdnWrap
<1>4. /\ w + 1 = FrameLen => max = 0
      /\ w + 1 < FrameLen => max = w + 1
  BY <1>1, NxdnWrap
<1>5. m_dataPtr \in Nat /\ m_dataPtr < FrameLen
  BY <1>1, NxdnPlaceIs DEF N!Index
<1>6. \/ m_dataPtr = w - FswLen + n \/ m_dataPtr = w - FswLen + n + FrameLen
      \/ m_dataPtr = w - FswLen + n - FrameLen
  BY <1>1, NxdnPlaceIs DEF N!Index
<1>7. N!InWindow(min, max)
  OBVIOUS
<1> HIDE DEF min, max
<1>8. PICK d \in {-1, 0, 1} : n = FswLen + d
  <2>1. \/ m_dataPtr = w \/ m_dataPtr = w + 1 \/ m_dataPtr = w - 1
        \/ w = 0 /\ m_dataPtr = FrameLen - 1
        \/ w + 1 = FrameLen /\ m_dataPtr = 0
    BY <1>1, <1>3, <1>4, <1>5, <1>7 DEF N!InWindow
  <2>2. n = FswLen \/ n = FswLen + 1 \/ n = FswLen - 1
    BY <1>1, <1>5, <1>6, <2>1
  <2>3. n = FswLen + (-1) \/ n = FswLen + 0 \/ n = FswLen + 1
    BY <1>1, <2>2
  <2>4. QED
    BY <2>3
<1>9. m_dataPtr = N!Wrap(w + FrameLen + d)
  <2>1. d \in Int /\ d >= -1 /\ d <= 1
    OBVIOUS
  <2>2. m_dataPtr = w + d \/ m_dataPtr = w + d + FrameLen \/ m_dataPtr = w + d - FrameLen
    BY <1>1, <1>6, <1>8, <2>1
  <2>3. /\ w + d < 0 => m_dataPtr = w + d + FrameLen
        /\ w + d \in N!Index => m_dataPtr = w + d
        /\ w + d >= FrameLen => m_dataPtr = w + d - FrameLen
    BY <1>1, <1>5, <2>1, <2>2 DEF N!Index
  <2>4. w + d < 0 \/ w + d \in N!Index \/ w + d >= FrameLen
    BY <1>1, <2>1 DEF N!Index
  <2>5. QED
    BY <2>3, <2>4, NxdnMoved
<1>10. QED
  BY <1>8, <1>9

\* A window around the sync seen last.
LEMMA NxdnCentred ==
  ASSUME NEW w \in N!Index, NEW n \in Nat, n <= FrameLen - 1,
         m_minFSWPtr' = N!Wrap(w + FrameLen - 1), m_maxFSWPtr' = N!Wrap(w + 1), m_fswPtr' = w,
         m_endPtr' = N!EndOfFrame(w), since' = n, m_dataPtr' = NPlace(w, n),
         seen' => n >= FswLen
  PROVE  NLocked'
<1>1. FrameLen \in Nat /\ w \in Nat /\ w < FrameLen
  BY NxdnConstants DEF N!Index
<1>2. w + 0 = w /\ FrameLen - 1 + 0 = FrameLen - 1
  BY <1>1
<1>3. m_fswPtr' = N!Wrap(w + FrameLen + 0)
  <2>1. w + FrameLen + 0 = w + FrameLen /\ w + FrameLen \in Nat /\ w + FrameLen - FrameLen = w
        /\ w + FrameLen < 2 * FrameLen
    BY <1>1
  <2>2. N!Wrap(w + FrameLen) = w + FrameLen - FrameLen
    BY <1>1, <2>1, NxdnWrap
  <2>3. QED
    BY <2>1, <2>2
<1>4. NSyncAt(w, 0)'
  <2>1. m_dataPtr' = NPlace(w, since')
    OBVIOUS
  <2>2. since' <= FrameLen - 1 + 0 /\ (seen' => since' >= FswLen)
    BY <1>2
  <2>3. QED
    BY <1>3, <2>1, <2>2 DEF NSyncAt, NPlace
<1>5. 0 \in {-1, 0, 1}
  OBVIOUS
<1>6. QED
  BY <1>4, <1>5, Zenon DEF NLocked

\* A sample while a sync is looked for.
LEMMA NxdnSearches ==
  ASSUME NInv, N!SampleSearch
  PROVE  NInv'
<1>1. PICK corr \in N!Syncs :
        LET down == N!StepDown(corr)
            first == corr # 0 /\ m_countdown = 0
            fsw == IF corr = 0 THEN m_fswPtr ELSE m_dataPtr
        IN  /\ N!Seen(corr)
            /\ m_dcd' = (m_dcd \/ first)
            /\ carried' = (carried /\ ~first)
            /\ IF corr = 0 THEN UNCHANGED <<m_maxCorr, m_lostCount, m_endPtr>>
               ELSE /\ m_maxCorr' = corr /\ m_lostCount' = MaxFrames
                    /\ m_endPtr' = N!EndOfFrame(m_dataPtr)
            /\ IF down = 1
               THEN /\ m_state' = "DATA" /\ m_countdown' = 0
                    /\ m_minFSWPtr' = N!Wrap(fsw + FrameLen - 1) /\ m_maxFSWPtr' = N!Wrap(fsw + 1)
               ELSE /\ m_countdown' = down
                    /\ UNCHANGED <<m_state, m_minFSWPtr, m_maxFSWPtr>>
            /\ since' = IF corr # 0 THEN FswLen + 1 ELSE IF down = 0 THEN 0 ELSE since + 1
  BY DEF N!SampleSearch
<1>2. m_state = "NONE" /\ unsynced' = 0 /\ report' = ""
  BY DEF N!SampleSearch
<1>9. m_dataPtr' = N!Wrap(m_dataPtr + 1)
  BY DEF N!SampleSearch, N!Advance
<1> DEFINE down == N!StepDown(corr)
           fsw == IF corr = 0 THEN m_fswPtr ELSE m_dataPtr
<1>3. /\ FrameLen \in Nat /\ FswLen \in Nat /\ FswLen >= 2 /\ FswLen + CorrCountdown + 2 < FrameLen
      /\ MaxFrames \in Nat /\ MaxFrames >= 2 /\ CorrCountdown \in Nat /\ CorrCountdown > 1
      /\ corr \in Strengths \cup {0} /\ m_dataPtr \in N!Index /\ m_dataPtr \in Nat
      /\ m_countdown \in Nat /\ m_countdown <= CorrCountdown /\ since \in Nat
      /\ m_dataPtr' \in N!Index
  <2>1. corr \in Strengths \cup {0}
    BY <1>1 DEF N!Syncs
  <2>2. N!TypeOK
    BY DEF NInv
  <2>3. m_dataPtr \in Nat /\ m_countdown \in Nat /\ m_countdown <= CorrCountdown
    <3>1. m_dataPtr \in N!Index /\ m_countdown \in 0 .. CorrCountdown
      BY <2>2 DEF N!TypeOK
    <3>2. QED
      BY <3>1, NxdnConstants DEF N!Index
  <2>4. m_dataPtr' \in N!Index
    BY <1>9, <2>3, NxdnWrap
  <2>5. QED
    BY <2>1, <2>2, <2>3, <2>4, NxdnConstants DEF N!TypeOK
<1>8. m_dcd \in BOOLEAN /\ carried \in BOOLEAN /\ seen \in BOOLEAN
  BY DEF NInv, N!TypeOK
<1>4. N!FlagsAreTrue'
  BY <1>2 DEF N!FlagsAreTrue
<1>5. CASE corr # 0 \/ m_countdown > 0
  <2>1. /\ down \in Nat /\ down >= 1 /\ down < CorrCountdown
        /\ corr = 0 => down = m_countdown - 1
    <3>1. m_countdown > 0 => m_countdown > 1
      BY <1>2 DEF NInv, NSearch
    <3>2. QED
      BY <1>3, <1>5, <3>1 DEF N!StepDown
  <2>2. /\ fsw \in N!Index /\ m_fswPtr' = fsw /\ seen' /\ seen' \in BOOLEAN /\ m_lostCount' = MaxFrames
        /\ m_endPtr' = N!EndOfFrame(fsw) /\ m_maxCorr' \in Strengths \cup {0}
    BY <1>1, <1>2, <1>3, <1>5 DEF NInv, NSearch, N!Seen, N!TypeOK
  <2>3. /\ m_dataPtr' = NPlace(fsw, since') /\ since' \in Nat /\ since' > FswLen
        /\ since' + down <= FswLen + CorrCountdown
    <3>1. CASE corr # 0
      <4>1. since' = FswLen + 1 /\ fsw = m_dataPtr
        BY <1>1, <3>1
      <4>2. m_dataPtr' = NPlace(m_dataPtr, FswLen + 1)
        BY <1>3, <1>9, NxdnSyncPlace
      <4>3. QED
        BY <1>3, <2>1, <4>1, <4>2
    <3>2. CASE corr = 0
      <4>1. /\ m_dataPtr = NPlace(fsw, since) /\ since > FswLen
            /\ since + m_countdown <= FswLen + CorrCountdown
        BY <1>2, <1>5, <3>2 DEF NInv, NSearch
      <4>2. since' = since + 1 /\ since <= FrameLen
        BY <1>1, <1>3, <2>1, <3>2, <4>1
      <4>3. m_dataPtr' = NPlace(fsw, since + 1)
        <5>1. fsw \in N!Index
          BY <2>2
        <5>2. QED
          BY <1>3, <1>9, <4>1, <4>2, <5>1, NxdnNextPlace
      <4>4. QED
        BY <1>3, <2>1, <3>2, <4>1, <4>2, <4>3
    <3>3. QED
      BY <3>1, <3>2
  <2>4. m_dcd' /\ m_dcd' \in BOOLEAN /\ carried' \in BOOLEAN
    <3>1. m_countdown > 0 => m_dcd
      BY DEF NInv, N!CarrierIsLock
    <3>2. m_countdown = 0 \/ m_countdown > 0
      BY <1>3
    <3>3. m_dcd'
      BY <1>1, <1>5, <3>1, <3>2
    <3>4. QED
      BY <1>1, <1>8, <3>3
  <2>5. N!EndOfFrame(fsw) \in N!Index /\ since' <= FrameLen - 1
    <3>1. fsw \in N!Index
      BY <2>2
    <3>2. N!EndOfFrame(fsw) \in N!Index
      BY <3>1, NxdnEndIs
    <3>3. QED
      BY <1>3, <2>1, <2>3, <3>2
  <2>6. CASE down = 1
    <3>1. /\ m_state' = "DATA" /\ m_countdown' = 0
          /\ m_minFSWPtr' = N!Wrap(fsw + FrameLen - 1) /\ m_maxFSWPtr' = N!Wrap(fsw + 1)
      BY <1>1, <2>6
    <3>2. fsw + FrameLen - 1 \in Nat /\ fsw + 1 \in Nat
      BY <1>3, <2>2 DEF N!Index
    <3>3. N!TypeOK'
      <4>1. m_minFSWPtr' \in N!Index /\ m_maxFSWPtr' \in N!Index
        BY <3>1, <3>2, NxdnWrap
      <4>2. m_lostCount' \in 0 .. MaxFrames /\ 0 \in 0 .. CorrCountdown
        BY <1>3, <2>2
      <4>3. QED
        BY <1>2, <1>3, <2>2, <2>3, <2>4, <2>5, <3>1, <4>1, <4>2 DEF N!TypeOK
    <3>4. N!CarrierIsLock' /\ NSearch'
      BY <2>4, <3>1 DEF N!CarrierIsLock, NSearch
    <3>5. NCounts'
      <4>1. unsynced' <= MaxFrames - 2
        <5>1. unsynced' = 0
          BY <1>2
        <5>2. QED
          BY <1>3, <5>1
      <4>2. QED
        BY <2>2, <3>1, <4>1 DEF NCounts
    <3>6. seen' => since' >= FswLen
      BY <1>3, <2>3
    <3>7. NLocked'
      <4> DEFINE w == fsw
      <4>1. /\ w \in N!Index /\ m_fswPtr' = w /\ m_endPtr' = N!EndOfFrame(w)
        BY <2>2
      <4>2. /\ m_minFSWPtr' = N!Wrap(w + FrameLen - 1) /\ m_maxFSWPtr' = N!Wrap(w + 1)
            /\ m_dataPtr' = NPlace(w, since')
        BY <2>3, <3>1
      <4> HIDE DEF w
      <4>3. QED
        BY <2>3, <2>5, <3>6, <4>1, <4>2, NxdnCentred
    <3>8. QED
      BY <1>4, <3>3, <3>4, <3>5, <3>7 DEF NInv
  <2>7. CASE down # 1
    <3>1. /\ m_state' = "NONE" /\ m_countdown' = down
          /\ m_minFSWPtr' = m_minFSWPtr /\ m_maxFSWPtr' = m_maxFSWPtr
      BY <1>1, <1>2, <2>7
    <3>2. N!TypeOK'
      <4>1. down \in 0 .. CorrCountdown /\ m_lostCount' \in 0 .. MaxFrames
        BY <1>3, <2>1, <2>2
      <4>2. QED
        BY <1>2, <1>3, <2>2, <2>3, <2>4, <2>5, <3>1, <4>1 DEF N!TypeOK, NInv
    <3>3. NSearch'
      BY <1>3, <2>1, <2>2, <2>3, <2>7, <3>1 DEF NSearch
    <3>4. N!CarrierIsLock' /\ NCounts' /\ NLocked'
      BY <1>3, <2>1, <2>4, <3>1 DEF N!CarrierIsLock, NCounts, NLocked
    <3>5. QED
      BY <1>4, <3>2, <3>3, <3>4 DEF NInv
  <2>8. QED
    BY <2>6, <2>7
<1>6. CASE corr = 0 /\ m_countdown = 0
  <2>1. down = 0
    BY <1>6 DEF N!StepDown
  <2>2. /\ m_state' = "NONE" /\ m_countdown' = 0 /\ since' = 0
        /\ UNCHANGED <<m_maxCorr, m_lostCount, m_endPtr, m_fswPtr, seen, m_minFSWPtr, m_maxFSWPtr>>
    <3>1. /\ UNCHANGED <<m_maxCorr, m_lostCount, m_endPtr>> /\ UNCHANGED <<m_fswPtr, seen>>
      BY <1>1, <1>6 DEF N!Seen
    <3>2. m_countdown' = down /\ UNCHANGED <<m_state, m_minFSWPtr, m_maxFSWPtr>>
      BY <1>1, <2>1
    <3>3. since' = 0
      BY <1>1, <1>6, <2>1
    <3>4. QED
      BY <1>2, <2>1, <3>1, <3>2, <3>3
  <2>3. (m_dcd' <=> m_dcd) /\ (carried' <=> carried) /\ m_dcd' \in BOOLEAN /\ carried' \in BOOLEAN
    BY <1>1, <1>8, <1>6
  <2>4. N!TypeOK'
    <3>1. 0 \in 0 .. CorrCountdown
      BY <1>3
    <3>2. QED
      BY <1>2, <1>3, <2>2, <2>3, <3>1 DEF N!TypeOK, NInv
  <2>5. N!CarrierIsLock'
    BY <1>2, <1>6, <2>2, <2>3 DEF NInv, N!CarrierIsLock
  <2>6. NSearch' /\ NCounts' /\ NLocked'
    BY <2>2 DEF NSearch, NCounts, NLocked
  <2>7. QED
    BY <1>4, <2>4, <2>5, <2>6 DEF NInv
<1>7. QED
  BY <1>3, <1>5, <1>6

\* A sample within a frame.
LEMMA NxdnWithin ==
  ASSUME NInv, N!SampleInFrame
  PROVE  NInv'
<1>1. PICK corr \in IF N!InWindow(m_minFSWPtr, m_maxFSWPtr) THEN N!Syncs ELSE {0} :
        LET end == IF corr = 0 THEN m_endPtr ELSE N!EndOfFrame(m_dataPtr) IN
        /\ m_dataPtr # end
        /\ N!Seen(corr) /\ m_endPtr' = end
        /\ m_maxCorr' = (IF corr = 0 THEN m_maxCorr ELSE corr)
        /\ m_lostCount' = N!FramesLeft(corr)
  BY DEF N!SampleInFrame
<1>2. /\ m_state = "DATA" /\ report' = ""
      /\ UNCHANGED <<m_state, m_countdown, m_dcd, unsynced, carried>>
  BY DEF N!SampleInFrame
<1>3. /\ m_dataPtr' = N!Wrap(m_dataPtr + 1) /\ since' = since + 1
      /\ m_minFSWPtr' = m_minFSWPtr /\ m_maxFSWPtr' = m_maxFSWPtr
  BY DEF N!SampleInFrame, N!Advance
<1>4. PICK w \in N!Index, d \in {-1, 0, 1} : NSyncAt(w, d)
  BY <1>2 DEF NInv, NLocked
<1>5. /\ FrameLen \in Nat /\ FswLen \in Nat /\ FswLen >= 2 /\ FswLen + 2 < FrameLen
      /\ w \in Nat /\ w < FrameLen /\ d \in Int /\ d >= -1 /\ d <= 1 /\ since \in Nat
  <2>1. since \in Nat
    BY DEF NInv, N!TypeOK
  <2>2. QED
    BY <2>1, NxdnConstants DEF N!Index
<1>6. m_dataPtr = NPlace(w, since) /\ since <= FrameLen - 1 + d /\ since <= FrameLen
  BY <1>4, <1>5 DEF NSyncAt
<1>7. d # 0 => since >= 2
  BY <1>4, <1>5 DEF NSyncAt
<1>8. m_dataPtr' = NPlace(w, since') /\ m_dataPtr' \in N!Index /\ since' \in Nat
  <2>1. m_dataPtr' = NPlace(w, since + 1)
    BY <1>3, <1>5, <1>6, NxdnNextPlace
  <2>2. m_dataPtr \in N!Index
    BY DEF NInv, N!TypeOK
  <2>3. m_dataPtr + 1 \in Nat
    BY <1>5, <2>2 DEF N!Index
  <2>4. QED
    BY <1>3, <1>5, <2>1, <2>3, NxdnWrap
<1>9. N!FlagsAreTrue' /\ NSearch'
  BY <1>2 DEF N!FlagsAreTrue, NSearch
<1>10. N!CarrierIsLock'
  BY <1>2 DEF NInv, N!CarrierIsLock
<1>11. CASE corr = 0
  <2>1. m_dataPtr # m_endPtr /\ UNCHANGED <<m_endPtr, m_fswPtr, seen, m_maxCorr, m_lostCount>>
    BY <1>1, <1>11 DEF N!Seen, N!FramesLeft
  <2>2. N!TypeOK'
    BY <1>2, <1>3, <1>8, <2>1 DEF NInv, N!TypeOK
  <2>3. NCounts'
    BY <1>2, <2>1 DEF NInv, NCounts
  <2>4. m_endPtr = N!EndOfFrame(m_fswPtr) /\ m_fswPtr = N!Wrap(w + FrameLen + d)
    BY <1>4 DEF NSyncAt
  <2>5. since' <= FrameLen - 1 + d
    <3>1. since # FrameLen - 1 + d
      BY <1>5, <1>6, <1>7, <2>1, <2>4, NxdnFrameEnds
    <3>2. QED
      BY <1>3, <1>5, <1>6, <3>1
  <2>6. seen' => since' >= FswLen
    BY <1>3, <1>4, <1>5, <2>1 DEF NSyncAt
  <2>7. NSyncAt(w, d)'
    BY <1>3, <1>4, <1>8, <2>1, <2>5, <2>6 DEF NSyncAt, NPlace
  <2>8. NLocked'
    BY <2>7, Zenon DEF NLocked
  <2>9. QED
    BY <1>9, <1>10, <2>2, <2>3, <2>8 DEF NInv
<1>12. CASE corr # 0
  <2>1. /\ m_endPtr' = N!EndOfFrame(m_dataPtr) /\ m_fswPtr' = m_dataPtr
        /\ seen' /\ seen' \in BOOLEAN /\ m_maxCorr' = corr /\ m_lostCount' = MaxFrames
    BY <1>1, <1>12 DEF N!Seen, N!FramesLeft
  <2>2. corr \in Strengths /\ N!InWindow(m_minFSWPtr, m_maxFSWPtr)
    BY <1>1, <1>12 DEF N!Syncs
  <2>3. m_minFSWPtr = N!Wrap(w + FrameLen - 1) /\ m_maxFSWPtr = N!Wrap(w + 1)
    BY <1>4 DEF NSyncAt
  <2>4. PICK e \in {-1, 0, 1} : since = FswLen + e /\ m_dataPtr = N!Wrap(w + FrameLen + e)
    BY <1>5, <1>6, <2>2, <2>3, NxdnSyncSeen
  <2>5. e \in Int /\ e >= -1 /\ e <= 1
    OBVIOUS
  <2>6. since' <= FrameLen - 1 + e /\ since' >= FswLen
    BY <1>3, <1>5, <2>4, <2>5
  <2>7. m_dataPtr \in N!Index /\ N!EndOfFrame(m_dataPtr) \in N!Index
    <3>1. m_dataPtr \in N!Index
      BY DEF NInv, N!TypeOK
    <3>2. QED
      BY <3>1, NxdnEndIs
  <2>8. MaxFrames \in 0 .. MaxFrames
    BY NxdnConstants
  <2>9. N!TypeOK'
    BY <1>2, <1>3, <1>8, <2>1, <2>2, <2>7, <2>8 DEF NInv, N!TypeOK
  <2>10. NCounts'
    BY <1>2, <2>1 DEF NInv, NCounts
  <2>11. NSyncAt(w, e)'
    BY <1>3, <1>8, <2>1, <2>3, <2>4, <2>6 DEF NSyncAt, NPlace
  <2>12. NLocked'
    BY <2>11, Zenon DEF NLocked
  <2>13. QED
    BY <1>9, <1>10, <2>9, <2>10, <2>12 DEF NInv
<1>13. QED
  BY <1>11, <1>12

\* The last sample of a frame.
LEMMA NxdnEnds ==
  ASSUME NInv, N!SampleEndsFrame
  PROVE  NInv' /\ since + 1 >= FrameLen - 1
<1>1. /\ m_state = "DATA" /\ m_dataPtr = m_endPtr /\ m_dataPtr' = N!Wrap(m_dataPtr + 1)
      /\ m_minFSWPtr' = N!Window(m_fswPtr)[1] /\ m_maxFSWPtr' = N!Window(m_fswPtr)[2]
      /\ m_fswPtr' = m_fswPtr
  BY DEF N!SampleEndsFrame, N!Advance
<1>2. m_lostCount' = m_lostCount - 1 /\ m_maxCorr' = 0 /\ since' = 0
  BY DEF N!SampleEndsFrame
<1>3. /\ seen' = FALSE /\ (seen => unsynced' = 0) /\ (~seen => unsynced' = unsynced + 1)
  BY DEF N!SampleEndsFrame
<1>4. PICK w \in N!Index, d \in {-1, 0, 1} : NSyncAt(w, d)
  BY <1>1 DEF NInv, NLocked
<1>5. /\ FrameLen \in Nat /\ FswLen \in Nat /\ FswLen >= 2 /\ FswLen + 2 < FrameLen
      /\ w \in Nat /\ w < FrameLen /\ d \in Int /\ d >= -1 /\ d <= 1 /\ since \in Nat
  <2>1. since \in Nat
    BY DEF NInv, N!TypeOK
  <2>2. QED
    BY <2>1, NxdnConstants DEF N!Index
<1>6. /\ MaxFrames \in Nat /\ MaxFrames >= 2 /\ unsynced \in Nat /\ unsynced <= MaxFrames - 2
      /\ m_lostCount \in Int
  <2>1. unsynced \in Nat /\ unsynced <= MaxFrames - 2 /\ m_lostCount \in 0 .. MaxFrames
    BY <1>1 DEF NInv, N!TypeOK, NCounts
  <2>2. QED
    BY <2>1, NxdnConstants
<1>7. (seen => m_lostCount = MaxFrames) /\ (~seen => m_lostCount = MaxFrames - 1 - unsynced)
  BY <1>1 DEF NInv, NCounts
<1>8. /\ m_dataPtr = NPlace(w, since) /\ since <= FrameLen - 1 + d
      /\ m_endPtr = N!EndOfFrame(m_fswPtr) /\ m_fswPtr = N!Wrap(w + FrameLen + d)
  BY <1>4 DEF NSyncAt
<1>9. d # 0 => since >= 2
  BY <1>4, <1>5 DEF NSyncAt
<1>10. since = FrameLen - 1 + d /\ m_dataPtr' = NPlace(m_fswPtr, 0)
  <2>1. m_dataPtr = m_endPtr /\ m_dataPtr' = N!Wrap(m_dataPtr + 1)
    BY <1>1
  <2>2. NPlace(w, since) = N!EndOfFrame(m_fswPtr) /\ m_dataPtr' = N!Wrap(NPlace(w, since) + 1)
    BY <1>8, <2>1
  <2>3. /\ NPlace(w, since) = N!EndOfFrame(m_fswPtr) <=> since = FrameLen - 1 + d
        /\ since = FrameLen - 1 + d => N!Wrap(NPlace(w, since) + 1) = NPlace(m_fswPtr, 0)
    BY <1>5, <1>8, <1>9, NxdnFrameEnds
  <2>4. QED
    BY <2>2, <2>3
<1>11. since + 1 >= FrameLen - 1
  BY <1>5, <1>10
<1>12. m_fswPtr \in N!Index /\ m_dataPtr' \in N!Index /\ m_endPtr \in N!Index
  <2>1. m_fswPtr \in N!Index
    BY <1>8, NxdnMoved
  <2>2. 0 <= FrameLen
    BY <1>5
  <2>3. NPlace(m_fswPtr, 0) \in N!Index
    BY <2>1, <2>2, NxdnPlaceIs
  <2>4. N!EndOfFrame(m_fswPtr) \in N!Index
    BY <2>1, NxdnEndIs
  <2>5. QED
    BY <1>8, <1>10, <2>1, <2>3, <2>4
<1>13. /\ m_minFSWPtr' = N!Wrap(m_fswPtr + FrameLen - 1) /\ m_maxFSWPtr' = N!Wrap(m_fswPtr + 1)
       /\ m_minFSWPtr' \in N!Index /\ m_maxFSWPtr' \in N!Index
  <2>1. m_fswPtr + FrameLen - 1 \in Nat /\ m_fswPtr + 1 \in Nat
    BY <1>5, <1>12 DEF N!Index
  <2>2. CASE m_lostCount = MaxFrames
    <3>1. /\ m_minFSWPtr' = N!Wrap(m_fswPtr + FrameLen - 1) /\ m_maxFSWPtr' = N!Wrap(m_fswPtr + 1)
      BY <1>1, <2>2 DEF N!Window
    <3>2. QED
      BY <2>1, <3>1, NxdnWrap
  <2>3. CASE m_lostCount # MaxFrames
    <3>1. m_minFSWPtr' = m_minFSWPtr /\ m_maxFSWPtr' = m_maxFSWPtr
      BY <1>1, <2>3 DEF N!Window
    <3>2. ~seen
      BY <1>7, <2>3
    <3>3. d = 0 /\ m_minFSWPtr = N!Wrap(w + FrameLen - 1) /\ m_maxFSWPtr = N!Wrap(w + 1)
      BY <1>4, <3>2 DEF NSyncAt
    <3>4. m_fswPtr = w
      <4>1. w + 0 = w
        BY <1>5
      <4>2. QED
        BY <1>8, <3>3, <4>1, NxdnMoved
    <3>5. QED
      BY <2>1, <3>1, <3>3, <3>4, NxdnWrap
  <2>4. QED
    BY <2>2, <2>3
<1>14. m_lostCount' \in 0 .. MaxFrames /\ unsynced' \in Nat
  BY <1>2, <1>3, <1>6, <1>7
<1>15. m_countdown = 0 /\ m_countdown \in 0 .. CorrCountdown
  BY <1>1 DEF NInv, NCounts, N!TypeOK
<1>16. CASE m_lostCount = 1
  <2>1. N!Lose
    BY <1>16 DEF N!SampleEndsFrame, N!LastChance
  <2>2. /\ m_dcd' = FALSE /\ carried' = FALSE /\ report' = "lost" /\ m_state' = "NONE"
        /\ m_endPtr' = N!NOENDPTR /\ m_countdown' = 0
    BY <2>1 DEF N!Lose
  <2>3. N!TypeOK'
    BY <1>1, <1>2, <1>3, <1>12, <1>13, <1>14, <1>15, <2>2 DEF NInv, N!TypeOK
  <2>4. N!CarrierIsLock' /\ NSearch' /\ NCounts' /\ NLocked'
    BY <2>2 DEF N!CarrierIsLock, NSearch, NCounts, NLocked
  <2>5. unsynced' = MaxFrames - 1
    <3>1. ~seen /\ unsynced = MaxFrames - 2
      BY <1>6, <1>7, <1>16
    <3>2. QED
      BY <1>3, <1>6, <3>1
  <2>6. N!FlagsAreTrue'
    BY <2>2, <2>5 DEF N!FlagsAreTrue
  <2>7. QED
    BY <1>11, <2>3, <2>4, <2>6 DEF NInv
<1>17. CASE m_lostCount # 1
  <2>1. /\ report' = IF m_lostCount = MaxFrames THEN "sync" ELSE "data"
        /\ UNCHANGED <<m_dcd, carried, m_state, m_endPtr, m_countdown>>
    BY <1>17 DEF N!SampleEndsFrame, N!LastChance
  <2>2. N!TypeOK'
    BY <1>1, <1>2, <1>3, <1>12, <1>13, <1>14, <1>15, <2>1 DEF NInv, N!TypeOK
  <2>3. N!CarrierIsLock' /\ NSearch'
    BY <1>1, <2>1 DEF NInv, N!CarrierIsLock, NSearch
  <2>4. unsynced' <= MaxFrames - 2 /\ m_lostCount' = MaxFrames - 1 - unsynced'
    BY <1>2, <1>3, <1>6, <1>7, <1>17
  <2>5. NCounts'
    BY <1>3, <1>15, <2>1, <2>4 DEF NCounts
  <2>6. N!FlagsAreTrue'
    <3>1. m_lostCount = MaxFrames => unsynced' = 0
      BY <1>3, <1>6, <1>7
    <3>2. m_lostCount # MaxFrames => unsynced' \in 1 .. MaxFrames - 1
      BY <1>3, <1>6, <1>7, <2>4
    <3>3. QED
      BY <2>1, <3>1, <3>2 DEF N!FlagsAreTrue
  <2>7. NLocked'
    <3>1. /\ 0 \in Nat /\ 0 <= FrameLen - 1
      BY <1>5
    <3>2. m_endPtr' = N!EndOfFrame(m_fswPtr)
      BY <1>8, <2>1
    <3>3. QED
      BY <1>1, <1>2, <1>3, <1>10, <1>12, <1>13, <3>1, <3>2, NxdnCentred
  <2>8. QED
    BY <1>11, <2>2, <2>3, <2>5, <2>6, <2>7 DEF NInv
<1>18. QED
  BY <1>16, <1>17

\* The receiver keeps its invariant, and takes its frames a frame apart.
LEMMA NxdnSteps ==
  ASSUME NInv, N!Next
  PROVE  NInv' /\ N!FrameTiles
<1>1. ASSUME NInv', report' # "" => since + 1 >= FrameLen - 1 PROVE N!FrameTiles
  <2>1. m_state' = "DATA" => since' <= FrameLen
    <3>1. ASSUME m_state' = "DATA" PROVE since' <= FrameLen
      <4>1. PICK w \in N!Index, d \in {-1, 0, 1} : NSyncAt(w, d)'
        BY <1>1, <3>1 DEF NInv, NLocked
      <4>2. /\ since' <= FrameLen - 1 + d /\ since' \in Nat /\ FrameLen \in Nat /\ d \in Int /\ d <= 1
        <5>1. since' <= FrameLen - 1 + d /\ since' \in Nat
          BY <1>1, <4>1 DEF NSyncAt, NInv, N!TypeOK
        <5>2. d \in Int /\ d <= 1
          OBVIOUS
        <5>3. QED
          BY <5>1, <5>2, NxdnConstants
      <4>3. QED
        BY <4>2
    <3>2. QED
      BY <3>1
  <2>2. QED
    BY <1>1, <2>1 DEF N!FrameTiles
<1>2. CASE N!SampleSearch
  <2>1. report' = ""
    BY <1>2 DEF N!SampleSearch
  <2>2. QED
    BY <1>1, <1>2, <2>1, NxdnSearches
<1>3. CASE N!SampleInFrame
  <2>1. report' = ""
    BY <1>3 DEF N!SampleInFrame
  <2>2. QED
    BY <1>1, <1>3, <2>1, NxdnWithin
<1>4. CASE N!SampleEndsFrame
  BY <1>1, <1>4, NxdnEnds
<1>5. CASE N!Reset
  <2>1. 0 \in N!Index /\ 0 \in 0 .. MaxFrames /\ 0 \in 0 .. CorrCountdown
    BY NxdnConstants DEF N!Index
  <2>2. N!TypeOK'
    BY <1>5, <2>1 DEF N!Reset, NInv, N!TypeOK
  <2>3. m_state' = "NONE" /\ report' = "" /\ (carried' <=> m_dcd') /\ ~(m_countdown' > 0)
    <3>1. m_countdown' = 0 /\ carried' = m_dcd /\ m_dcd' = m_dcd
      BY <1>5 DEF N!Reset
    <3>2. ~(m_countdown' > 0)
      BY <3>1
    <3>3. QED
      <4>1. m_state' = "NONE" /\ report' = ""
        BY <1>5 DEF N!Reset
      <4>2. carried' = m_dcd'
        BY <3>1
      <4>3. QED
        BY <3>2, <4>1, <4>2
  <2>4. N!CarrierIsLock' /\ N!FlagsAreTrue' /\ NSearch' /\ NCounts' /\ NLocked'
    BY <2>3 DEF N!CarrierIsLock, N!FlagsAreTrue, NSearch, NCounts, NLocked
  <2>5. QED
    BY <1>1, <2>2, <2>3, <2>4 DEF NInv
<1>6. QED
  BY <1>2, <1>3, <1>4, <1>5 DEF N!Next, N!Sample

\* And begins with it.
LEMMA NxdnBegins ==
  ASSUME N!Init
  PROVE  NInv
<1>1. 0 \in N!Index /\ 0 \in 0 .. MaxFrames /\ 0 \in 0 .. CorrCountdown
  BY NxdnConstants DEF N!Index
<1>2. N!TypeOK
  BY <1>1 DEF N!Init, N!TypeOK
<1>3. m_state = "NONE" /\ report = "" /\ ~m_dcd /\ ~(m_countdown > 0)
  <2>1. m_countdown = 0 /\ m_dcd = FALSE
    BY DEF N!Init
  <2>2. ~(m_countdown > 0)
    BY <2>1
  <2>3. QED
    BY <2>1, <2>2 DEF N!Init
<1>4. N!CarrierIsLock /\ N!FlagsAreTrue /\ NSearch /\ NCounts /\ NLocked
  BY <1>3 DEF N!CarrierIsLock, N!FlagsAreTrue, NSearch, NCounts, NLocked
<1>5. QED
  BY <1>2, <1>4 DEF NInv

\* A lock has its last frame to come.
LEMMA NxdnLock ==
  ASSUME NInv
  PROVE  N!LockIsLive
<1>1. ASSUME m_state = "DATA" PROVE m_lostCount \in 1 .. MaxFrames /\ m_endPtr \in N!Index
  <2>1. PICK w \in N!Index, d \in {-1, 0, 1} : NSyncAt(w, d)
    BY <1>1 DEF NInv, NLocked
  <2>2. m_endPtr \in N!Index
    <3>1. m_fswPtr \in N!Index /\ m_endPtr = N!EndOfFrame(m_fswPtr)
      BY <2>1, NxdnMoved DEF NSyncAt
    <3>2. QED
      BY <3>1, NxdnEndIs
  <2>3. /\ unsynced \in Nat /\ unsynced <= MaxFrames - 2
        /\ (seen => m_lostCount = MaxFrames) /\ (~seen => m_lostCount = MaxFrames - 1 - unsynced)
    BY <1>1 DEF NInv, NCounts, N!TypeOK
  <2>4. m_lostCount \in 1 .. MaxFrames
    BY <2>3, NxdnConstants
  <2>5. QED
    BY <2>2, <2>4
<1>2. QED
  BY <1>1 DEF N!LockIsLive

-----------------------------------------------------------------------------
(***************************************************************************)
(* P25Rx.  Up to the end of an LDU the ring is one LDU long, and a sample  *)
(* has the place of the last sync plus the samples since, but for rounds   *)
(* of the ring.                                                            *)
(***************************************************************************)

\* The place of the sample that comes n samples after the sync at sync was seen.
PAt(place, sync, n) ==
  \/ place = sync + 1 + n \/ place = sync + 1 + n - LduLen
  \/ place = sync + 1 + n - 2 * LduLen \/ place = sync + 1 + n + LduLen

\* The pointers are those of the sync at m_syncPtr, which is in the ring.
PPointers ==
  /\ m_dataPtr < LduLen /\ m_syncPtr < LduLen
  /\ PAt(m_dataPtr, m_syncPtr, since)
  /\ m_endPtr = P!EndOfLdu(m_syncPtr)

\* Between the first sync and the decision to look for the data unit.
PSearch ==
  m_state = "NONE" /\ m_countdown > 0 =>
    /\ PPointers /\ m_pduEndPtr = P!EndOfPdu(m_syncPtr) /\ m_dcd /\ m_countdown > 1
    /\ since >= 0 /\ since + m_countdown <= CorrCountdown - 2

\* The wait for the data unit: an LDU when one is expected, a header otherwise.
PWait ==
  m_state = "SYNC" =>
    /\ PPointers /\ m_pduEndPtr = P!EndOfPdu(m_syncPtr) /\ m_dcd /\ m_countdown = 0
    /\ m_lduSyncPos => m_maxSyncPtr = P!WrapBy(m_syncPtr + 1, LduLen) /\ since <= LduLen
    /\ ~m_lduSyncPos => m_maxSyncPtr = P!WrapBy(m_syncPtr + HduLen + 1, LduLen) /\ since <= HduLen
    /\ since >= 0

\* Voice: an LDU comes in, and its end is still to come.
PVoice ==
  m_state = "VOICE" =>
    /\ PPointers /\ m_dcd /\ m_countdown = 0
    /\ m_lostCount \in 1 .. MaxFrames
    /\ since >= -SyncLen - 1 /\ since <= LduLen - SyncLen - 2

\* Data: a packet has an end.
PData ==
  m_state = "DATA" =>
    m_dcd /\ m_countdown = 0 /\ m_lostCount \in 1 .. MaxFrames /\ m_pduEndPtr \in P!Index

\* What a sample may give the host.
PReports == {"", "single", "ldu", "pdu", "lost"}

PInv == P!TypeOK /\ PSearch /\ PWait /\ PVoice /\ PData

LEMMA P25Constants ==
  /\ SyncLen \in Nat /\ SyncLen >= 2 /\ CorrCountdown \in Nat /\ CorrCountdown > 2
  /\ HduLen \in Nat /\ LduLen \in Nat /\ PduLen \in Nat
  /\ CorrCountdown - 1 < HduLen /\ HduLen + SyncLen + 3 < LduLen /\ LduLen < PduLen
  /\ MaxFrames \in Nat /\ MaxFrames >= 2 /\ Strengths \subseteq Nat /\ 0 \notin Strengths
<1>1. P!P25RxAssumption /\ CorrCountdown \in Nat
  BY ConstantsFit, NxdnConstants
<1>2. QED
  BY <1>1 DEF P!P25RxAssumption

\* One length is enough to wrap the sum of an index and an offset within the ring.
LEMMA P25Wrap ==
  ASSUME NEW length \in Nat, NEW x \in Nat, x < 2 * length
  PROVE  P!WrapBy(x, length) \in Nat /\ P!WrapBy(x, length) < length
  BY DEF P!WrapBy

\* The next sample comes one place further on.
LEMMA P25NextPlace ==
  ASSUME NEW place \in Nat, place < LduLen, NEW sync \in Nat, sync < LduLen,
         NEW n \in Int, n <= LduLen, PAt(place, sync, n),
         NEW next, next = (IF place + 1 >= LduLen THEN 0 ELSE place + 1)
  PROVE  PAt(next, sync, n + 1) /\ next \in Nat /\ next < LduLen
<1>1. LduLen \in Nat /\ LduLen > 1
  BY P25Constants
<1>2. CASE place + 1 >= LduLen
  <2>1. place + 1 = LduLen /\ next = 0
    BY <1>1, <1>2
  <2>2. \/ LduLen = sync + 1 + n + 1 \/ LduLen = sync + 1 + n + 1 - LduLen
        \/ LduLen = sync + 1 + n + 1 + LduLen
    BY <1>1, <2>1 DEF PAt
  <2>3. \/ 0 = sync + 1 + (n + 1) - LduLen \/ 0 = sync + 1 + (n + 1) - 2 * LduLen
        \/ 0 = sync + 1 + (n + 1)
    BY <1>1, <2>2
  <2>4. QED
    BY <1>1, <2>1, <2>3 DEF PAt
<1>3. CASE place + 1 < LduLen
  BY <1>1, <1>3 DEF PAt
<1>4. QED
  BY <1>1, <1>2, <1>3

\* A sync has just been seen at place.
LEMMA P25FirstPlace ==
  ASSUME NEW place \in Nat, place < LduLen,
         NEW next, next = (IF place + 1 >= LduLen THEN 0 ELSE place + 1)
  PROVE  PAt(next, place, 0) /\ next \in Nat /\ next < LduLen
<1>1. LduLen \in Nat /\ LduLen > 0
  BY P25Constants
<1>2. QED
  BY <1>1 DEF PAt

\* The end of an LDU is reached after as many samples as it has.
LEMMA P25LduEnds ==
  ASSUME NEW place \in Nat, place < LduLen, NEW sync \in Nat, sync < LduLen,
         NEW n \in Int, n >= -SyncLen - 1, n <= LduLen - SyncLen - 2, PAt(place, sync, n)
  PROVE  place = P!EndOfLdu(sync) <=> n = LduLen - SyncLen - 2
<1>1. LduLen \in Nat /\ SyncLen \in Nat /\ SyncLen + 3 < LduLen
  BY P25Constants
<1>2. \/ P!EndOfLdu(sync) = sync - SyncLen - 1 /\ P!EndOfLdu(sync) >= 0
      \/ P!EndOfLdu(sync) = sync + LduLen - SyncLen - 1 /\ P!EndOfLdu(sync) < LduLen
  BY <1>1 DEF P!EndOfLdu, P!WrapBy
<1> DEFINE end == P!EndOfLdu(sync)
<1>3. end \in Int /\ ((end = sync - SyncLen - 1 /\ end >= 0) \/ (end = sync + LduLen - SyncLen - 1 /\ end < LduLen))
  BY <1>1, <1>2
<1> HIDE DEF end
<1>4. place = end <=> n = LduLen - SyncLen - 2
  BY <1>1, <1>3 DEF PAt
<1>5. QED
  BY <1>4 DEF end

\* The wait for an LDU ends at once or after a round, that for a header after its length.
LEMMA P25WaitEnds ==
  ASSUME NEW place \in Nat, place < LduLen, NEW sync \in Nat, sync < LduLen,
         NEW n \in Nat, n <= LduLen, PAt(place, sync, n)
  PROVE  /\ place = P!WrapBy(sync + 1, LduLen) <=> n = 0 \/ n = LduLen
         /\ n <= HduLen => (place = P!WrapBy(sync + HduLen + 1, LduLen) <=> n = HduLen)
<1>1. LduLen \in Nat /\ HduLen \in Nat /\ HduLen + 3 < LduLen
  BY P25Constants
<1>2. place = P!WrapBy(sync + 1, LduLen) <=> n = 0 \/ n = LduLen
  BY <1>1 DEF PAt, P!WrapBy
<1>3. n <= HduLen => (place = P!WrapBy(sync + HduLen + 1, LduLen) <=> n = HduLen)
  BY <1>1 DEF PAt, P!WrapBy
<1>4. QED
  BY <1>2, <1>3

\* Where a frame ends and where the windows are, for a sync in the ring.
LEMMA P25Places ==
  ASSUME NEW sync \in Nat
  PROVE  /\ sync < LduLen => /\ P!EndOfLdu(sync) \in Nat /\ P!EndOfLdu(sync) < LduLen
                             /\ P!WindowAround(sync, LduLen).min \in P!Index
                             /\ P!WindowAround(sync, LduLen).max \in P!Index
                             /\ P!WindowAround(sync, LduLen).max = P!WrapBy(sync + 1, LduLen)
                             /\ P!WindowAtHdu(sync).min \in P!Index
                             /\ P!WindowAtHdu(sync).max \in P!Index
                             /\ P!WindowAtHdu(sync).max = P!WrapBy(sync + HduLen + 1, LduLen)
         /\ sync < PduLen => /\ P!EndOfPdu(sync) \in P!Index /\ P!EndOfLdu(sync) \in P!Index
                             /\ P!WindowAround(sync, PduLen).min \in P!Index
                             /\ P!WindowAround(sync, PduLen).max \in P!Index
<1>1. /\ LduLen \in Nat /\ HduLen \in Nat /\ HduLen + SyncLen + 3 < LduLen /\ SyncLen \in Nat
      /\ LduLen < PduLen /\ PduLen \in Nat /\ HduLen > 1
  BY P25Constants
<1>2. \A x \in Nat : x < 2 * LduLen => P!WrapBy(x, LduLen) \in Nat /\ P!WrapBy(x, LduLen) < LduLen
  BY <1>1, P25Wrap
<1>3. \A x \in Nat : x < 2 * PduLen => P!WrapBy(x, PduLen) \in Nat /\ P!WrapBy(x, PduLen) < PduLen
  BY <1>1, P25Wrap
<1>4. \A x \in Nat : x < PduLen => x \in P!Index
  BY <1>1 DEF P!Index
<1>5. ASSUME sync < LduLen
      PROVE  /\ P!EndOfLdu(sync) \in Nat /\ P!EndOfLdu(sync) < LduLen
             /\ P!WindowAround(sync, LduLen).min \in P!Index
             /\ P!WindowAround(sync, LduLen).max \in P!Index
             /\ P!WindowAround(sync, LduLen).max = P!WrapBy(sync + 1, LduLen)
             /\ P!WindowAtHdu(sync).min \in P!Index
             /\ P!WindowAtHdu(sync).max \in P!Index
             /\ P!WindowAtHdu(sync).max = P!WrapBy(sync + HduLen + 1, LduLen)
  <2>1. sync + LduLen - SyncLen - 1 \in Nat /\ sync + LduLen - SyncLen - 1 < 2 * LduLen
    BY <1>1, <1>5
  <2>2. sync + LduLen - 1 \in Nat /\ sync + LduLen - 1 < 2 * LduLen
    BY <1>1, <1>5
  <2>3. sync + 1 \in Nat /\ sync + 1 < 2 * LduLen
    BY <1>1, <1>5
  <2>4. /\ sync + HduLen - 1 \in Nat /\ sync + HduLen - 1 < 2 * LduLen
        /\ sync + HduLen + 1 \in Nat /\ sync + HduLen + 1 < 2 * LduLen
    BY <1>1, <1>5
  <2>5. P!EndOfLdu(sync) \in Nat /\ P!EndOfLdu(sync) < LduLen
    BY <1>2, <2>1 DEF P!EndOfLdu
  <2>6. ASSUME NEW x \in Nat, x < 2 * LduLen PROVE P!WrapBy(x, LduLen) \in P!Index
    BY <1>1, <1>2, <1>4, <2>6
  <2>7. QED
    BY <2>2, <2>3, <2>4, <2>5, <2>6 DEF P!WindowAround, P!WindowAtHdu
<1>6. ASSUME sync < PduLen
      PROVE  /\ P!EndOfPdu(sync) \in P!Index /\ P!EndOfLdu(sync) \in P!Index
             /\ P!WindowAround(sync, PduLen).min \in P!Index
             /\ P!WindowAround(sync, PduLen).max \in P!Index
  <2>1. sync + PduLen - SyncLen - 1 \in Nat /\ sync + PduLen - SyncLen - 1 < 2 * PduLen
    BY <1>1, <1>6
  <2>2. sync + PduLen - 1 \in Nat /\ sync + PduLen - 1 < 2 * PduLen
    BY <1>1, <1>6
  <2>3. sync + 1 \in Nat /\ sync + 1 < 2 * PduLen
    BY <1>1, <1>6
  <2>4. ASSUME NEW x \in Nat, x < 2 * PduLen PROVE P!WrapBy(x, PduLen) \in P!Index
    BY <1>1, <1>3, <1>4, <2>4
  <2>5. P!EndOfLdu(sync) \in P!Index
    BY <1>1, <1>6 DEF P!EndOfLdu, P!WrapBy, P!Index
  <2>6. QED
    BY <2>1, <2>2, <2>3, <2>4, <2>5 DEF P!WindowAround, P!EndOfPdu
<1>7. QED
  BY <1>5, <1>6

\* The pointers after a sample with a sync, or without.
LEMMA P25Pointers ==
  ASSUME NEW corr
  PROVE  /\ corr = 0 =>
              /\ P!Pointers(corr).sync = m_syncPtr /\ P!Pointers(corr).end = m_endPtr
              /\ P!Pointers(corr).pduEnd = m_pduEndPtr /\ P!Pointers(corr).lost = m_lostCount
              /\ P!Pointers(corr).corr = m_maxCorr /\ P!Pointers(corr).since = since + 1
              /\ P!Pointers(corr).fresh = IF fresh < SyncLen THEN fresh + 1 ELSE fresh
         /\ corr # 0 =>
              /\ P!Pointers(corr).sync = m_dataPtr /\ P!Pointers(corr).end = P!EndOfLdu(m_dataPtr)
              /\ P!Pointers(corr).pduEnd = P!EndOfPdu(m_dataPtr)
              /\ P!Pointers(corr).lost = MaxFrames /\ P!Pointers(corr).corr = corr
              /\ P!Pointers(corr).since = 0 /\ P!Pointers(corr).fresh = 0
  BY DEF P!Pointers

LEMMA P25PointersBut ==
  ASSUME NEW corr, NEW x
  PROVE  P!Place([P!Pointers(corr) EXCEPT !.since = x]) =>
           /\ m_syncPtr' = P!Pointers(corr).sync /\ m_endPtr' = P!Pointers(corr).end
           /\ m_pduEndPtr' = P!Pointers(corr).pduEnd
           /\ since' = x /\ fresh' = P!Pointers(corr).fresh
  BY DEF P!Place, P!Pointers

\* Types, as numbers.
LEMMA P25Numbers ==
  ASSUME PInv
  PROVE  /\ m_dataPtr \in Nat /\ m_dataPtr < PduLen /\ m_syncPtr \in Nat /\ m_syncPtr < PduLen
         /\ m_countdown \in Nat /\ m_countdown <= CorrCountdown - 1
         /\ since \in Int /\ fresh \in Nat /\ fresh <= SyncLen
         /\ m_lostCount \in Nat /\ m_lostCount <= MaxFrames
<1>1. /\ m_dataPtr \in P!Index /\ m_syncPtr \in P!Index /\ m_countdown \in 0 .. CorrCountdown - 1
      /\ since \in Int /\ fresh \in 0 .. SyncLen /\ m_lostCount \in 0 .. MaxFrames
  BY DEF PInv, P!TypeOK
<1>2. QED
  BY <1>1, P25Constants DEF P!Index

\* The sample pointer stays in the ring, which a packet makes longer.
LEMMA P25Advances ==
  ASSUME PInv, NEW state, P!Advance(state)
  PROVE  m_dataPtr' \in P!Index
<1>1. m_dataPtr \in Nat /\ m_dataPtr < PduLen
  BY P25Numbers
<1>2. LduLen \in Nat /\ PduLen \in Nat /\ LduLen < PduLen
  BY P25Constants
<1>3. CASE state = "DATA"
  <2>1. m_dataPtr' = (IF m_dataPtr + 1 >= PduLen THEN 0 ELSE m_dataPtr + 1)
    BY <1>3 DEF P!Advance
  <2>2. QED
    BY <1>1, <1>2, <2>1 DEF P!Index
<1>4. CASE state # "DATA"
  <2>1. m_dataPtr' = (IF m_dataPtr + 1 >= LduLen THEN 0 ELSE m_dataPtr + 1)
    BY <1>4 DEF P!Advance
  <2>2. QED
    BY <1>1, <1>2, <2>1 DEF P!Index
<1>5. QED
  BY <1>3, <1>4

\* Nothing is waited for after a reset.
LEMMA P25Forgets ==
  ASSUME PInv, P!ResetFields, m_dataPtr' \in P!Index, m_lduSyncPos' \in BOOLEAN,
         m_dcd' \in BOOLEAN, report' \in PReports
  PROVE  PInv'
<1>1. 0 \in P!Index /\ 0 \in 0 .. CorrCountdown - 1 /\ 0 \in 0 .. SyncLen /\ 0 \in 0 .. MaxFrames
  <2>1. /\ PduLen \in Nat /\ 0 < PduLen /\ CorrCountdown \in Nat /\ CorrCountdown > 2
        /\ SyncLen \in Nat /\ MaxFrames \in Nat
    BY P25Constants
  <2>2. QED
    BY <2>1 DEF P!Index
<1>2. m_state' = "NONE" /\ m_endPtr' = P!NOENDPTR /\ m_pduEndPtr' = P!NOENDPTR /\ m_maxSyncPtr' = P!NOENDPTR
  BY DEF P!ResetFields
<1>3. /\ m_syncPtr' = 0 /\ m_minSyncPtr' = 0 /\ m_maxCorr' = 0 /\ m_lostCount' = 0 /\ m_countdown' = 0
      /\ since' = 0 /\ fresh' = 0
  BY DEF P!ResetFields
<1>4. /\ m_syncPtr' \in P!Index /\ m_minSyncPtr' \in P!Index /\ m_maxCorr' \in Strengths \cup {0}
      /\ m_lostCount' \in 0 .. MaxFrames /\ m_countdown' \in 0 .. CorrCountdown - 1
      /\ since' \in Int /\ fresh' \in 0 .. SyncLen /\ ~(m_countdown' > 0)
  <2>1. ~(m_countdown' > 0)
    BY <1>3
  <2>2. QED
    BY <1>1, <1>3, <2>1
<1>5. P!TypeOK'
  BY <1>2, <1>4 DEF P!TypeOK, PReports
<1>6. PSearch'
  BY <1>4 DEF PSearch
<1>7. PWait' /\ PVoice' /\ PData'
  BY <1>2 DEF PWait, PVoice, PData
<1>8. QED
  BY <1>5, <1>6, <1>7 DEF PInv

\* A sample while a sync is looked for.
LEMMA P25Searches ==
  ASSUME PInv, P!SampleSearch
  PROVE  PInv' /\ P!LduTiles
<1>1. PICK corr \in P!Syncs :
       LET p == P!Pointers(corr)
           first == corr # 0 /\ m_countdown = 0
           started == IF first THEN CorrCountdown - 1 ELSE m_countdown
           down == IF started > 0 THEN started - 1 ELSE 0
           w == IF m_lduSyncPos THEN P!WindowAround(p.sync, LduLen) ELSE P!WindowAtHdu(p.sync)
       IN  /\ m_dataPtr < LduLen \/ corr = 0
           /\ P!Place([p EXCEPT !.since = IF down = 0 THEN 0 ELSE @])
           /\ m_maxCorr' = p.corr /\ m_dcd' = P!Carrier(first, down)
           /\ IF down = 1
              THEN /\ m_state' = "SYNC" /\ m_countdown' = 0
                   /\ m_minSyncPtr' = w.min /\ m_maxSyncPtr' = w.max
                   /\ m_lostCount' = IF m_lduSyncPos THEN MaxFrames ELSE p.lost
              ELSE /\ m_countdown' = down /\ m_lostCount' = p.lost
                   /\ UNCHANGED <<m_state, m_minSyncPtr, m_maxSyncPtr>>
  <2>1. 0 \in P!Syncs
    BY DEF P!Syncs
  <2>2. (IF m_dataPtr < LduLen THEN P!Syncs ELSE {0}) =
           {corr \in P!Syncs : m_dataPtr < LduLen \/ corr = 0}
    BY <2>1
  <2>3. QED
    BY <2>2 DEF P!SampleSearch
<1>2. m_state = "NONE" /\ report' = "" /\ m_lduSyncPos' = m_lduSyncPos /\ P!Advance("NONE")
  BY DEF P!SampleSearch
<1>3. m_dataPtr' = (IF m_dataPtr + 1 >= LduLen THEN 0 ELSE m_dataPtr + 1) /\ m_dataPtr' \in P!Index
  BY <1>2, P25Advances DEF P!Advance
<1> DEFINE p == P!Pointers(corr)
           first == corr # 0 /\ m_countdown = 0
           started == IF first THEN CorrCountdown - 1 ELSE m_countdown
           down == IF started > 0 THEN started - 1 ELSE 0
           w == IF m_lduSyncPos THEN P!WindowAround(p.sync, LduLen) ELSE P!WindowAtHdu(p.sync)
<1>4. /\ m_syncPtr' = p.sync /\ m_endPtr' = p.end /\ m_pduEndPtr' = p.pduEnd
      /\ since' = (IF down = 0 THEN 0 ELSE p.since) /\ fresh' = p.fresh
  <2>1. P!Place([p EXCEPT !.since = IF down = 0 THEN 0 ELSE p.since])
    BY <1>1
  <2>2. QED
    BY <2>1, P25PointersBut
<1>5. m_maxCorr' = p.corr /\ (m_dcd' <=> m_dcd \/ first) /\ m_dcd' \in BOOLEAN
  <2>1. m_dcd \in BOOLEAN
    BY DEF PInv, P!TypeOK
  <2>2. m_dcd' = (m_dcd \/ first)
    BY <1>1 DEF P!Carrier
  <2>3. m_maxCorr' = p.corr
    BY <1>1
  <2>4. QED
    BY <2>1, <2>2, <2>3
<1>6. /\ down = 1 => /\ m_state' = "SYNC" /\ m_countdown' = 0
                     /\ m_minSyncPtr' = w.min /\ m_maxSyncPtr' = w.max
                     /\ m_lostCount' = IF m_lduSyncPos THEN MaxFrames ELSE p.lost
      /\ down # 1 => /\ m_countdown' = down /\ m_lostCount' = p.lost
                     /\ UNCHANGED <<m_state, m_minSyncPtr, m_maxSyncPtr>>
  BY <1>1
<1>7. /\ LduLen \in Nat /\ PduLen \in Nat /\ LduLen < PduLen /\ CorrCountdown \in Nat /\ CorrCountdown > 2
      /\ HduLen \in Nat /\ CorrCountdown - 1 < HduLen /\ HduLen + 3 < LduLen
      /\ m_dataPtr \in Nat /\ m_syncPtr \in Nat /\ m_countdown \in Nat /\ m_countdown <= CorrCountdown - 1
      /\ since \in Int /\ fresh \in Nat /\ fresh <= SyncLen /\ SyncLen \in Nat
      /\ m_lostCount \in Nat /\ m_lostCount <= MaxFrames /\ MaxFrames \in Nat
  BY P25Constants, P25Numbers
<1>8. /\ corr \in Strengths \cup {0} /\ (corr # 0 => m_dataPtr < LduLen)
  BY <1>1 DEF P!Syncs
<1>9. m_maxCorr' \in Strengths \cup {0} /\ m_lduSyncPos' \in BOOLEAN
  <2>1. m_maxCorr \in Strengths \cup {0} /\ m_lduSyncPos \in BOOLEAN
    BY DEF PInv, P!TypeOK
  <2>2. QED
    BY <1>2, <1>5, <1>8, <2>1, P25Pointers
<1>10. fresh' \in 0 .. SyncLen /\ p.lost \in 0 .. MaxFrames
  <2>1. CASE corr = 0
    BY <1>4, <1>7, <2>1, P25Pointers
  <2>2. CASE corr # 0
    BY <1>4, <1>7, <2>2, P25Pointers
  <2>3. QED
    BY <2>1, <2>2
<1>11. CASE corr # 0 \/ m_countdown > 0
  <2>1. /\ down \in Nat /\ down >= 1 /\ down < CorrCountdown - 1
        /\ corr = 0 => down = m_countdown - 1
    <3>1. m_countdown > 0 => m_countdown > 1
      BY <1>2 DEF PInv, PSearch
    <3>2. QED
      BY <1>7, <1>11, <3>1
  <2>2. /\ m_syncPtr' \in Nat /\ m_syncPtr' < LduLen /\ PAt(m_dataPtr', m_syncPtr', since')
        /\ m_endPtr' = P!EndOfLdu(m_syncPtr') /\ m_pduEndPtr' = P!EndOfPdu(m_syncPtr')
        /\ m_dataPtr' < LduLen /\ since' \in Int /\ since' >= 0
        /\ since' + down <= CorrCountdown - 2
    <3>1. CASE corr # 0
      <4>1. /\ m_syncPtr' = m_dataPtr /\ m_endPtr' = P!EndOfLdu(m_dataPtr)
            /\ m_pduEndPtr' = P!EndOfPdu(m_dataPtr) /\ since' = 0
        BY <1>4, <2>1, <3>1, P25Pointers
      <4>2. PAt(m_dataPtr', m_dataPtr, 0) /\ m_dataPtr' < LduLen
        BY <1>3, <1>7, <1>8, <3>1, P25FirstPlace
      <4>3. QED
        BY <1>7, <1>8, <2>1, <3>1, <4>1, <4>2
    <3>2. CASE corr = 0
      <4>1. PPointers /\ m_pduEndPtr = P!EndOfPdu(m_syncPtr) /\ since >= 0 /\ since + m_countdown <= CorrCountdown - 2
        BY <1>2, <1>11, <3>2 DEF PInv, PSearch
      <4>2. /\ m_syncPtr' = m_syncPtr /\ m_endPtr' = m_endPtr /\ m_pduEndPtr' = m_pduEndPtr
            /\ since' = since + 1
        BY <1>4, <2>1, <3>2, P25Pointers
      <4>3. /\ m_dataPtr < LduLen /\ m_syncPtr < LduLen /\ PAt(m_dataPtr, m_syncPtr, since)
            /\ m_endPtr = P!EndOfLdu(m_syncPtr) /\ since <= LduLen
        BY <1>7, <4>1 DEF PPointers
      <4>4. PAt(m_dataPtr', m_syncPtr, since + 1) /\ m_dataPtr' < LduLen
        BY <1>3, <1>7, <4>3, P25NextPlace
      <4>5. since' \in Int /\ since' >= 0 /\ since' + down <= CorrCountdown - 2
        BY <1>7, <2>1, <3>2, <4>1, <4>2
      <4>6. QED
        BY <1>7, <4>1, <4>2, <4>3, <4>4, <4>5
    <3>3. QED
      BY <3>1, <3>2
  <2>3. PPointers'
    BY <2>2 DEF PPointers, PAt
  <2>4. m_dcd'
    <3>1. m_countdown > 0 => m_dcd
      BY <1>2 DEF PInv, PSearch
    <3>2. m_countdown = 0 \/ m_countdown > 0
      BY <1>7
    <3>3. QED
      BY <1>5, <1>11, <3>1, <3>2
  <2>5. /\ m_endPtr' \in P!Index /\ m_pduEndPtr' \in P!Index /\ m_syncPtr' \in P!Index
    BY <1>7, <2>2, P25Places DEF P!Index
  <2>6. CASE down = 1
    <3>1. /\ m_state' = "SYNC" /\ m_countdown' = 0 /\ m_minSyncPtr' = w.min /\ m_maxSyncPtr' = w.max
          /\ m_lostCount' = IF m_lduSyncPos THEN MaxFrames ELSE p.lost
      BY <1>6, <2>6
    <3>2. /\ m_minSyncPtr' \in P!Index /\ m_maxSyncPtr' \in P!Index
          /\ m_lduSyncPos => m_maxSyncPtr' = P!WrapBy(m_syncPtr' + 1, LduLen)
          /\ ~m_lduSyncPos => m_maxSyncPtr' = P!WrapBy(m_syncPtr' + HduLen + 1, LduLen)
      <4>1. p.sync = m_syncPtr'
        BY <1>4
      <4>2. CASE m_lduSyncPos
        <5>1. m_minSyncPtr' = P!WindowAround(m_syncPtr', LduLen).min /\ m_maxSyncPtr' = P!WindowAround(m_syncPtr', LduLen).max
          BY <3>1, <4>1, <4>2
        <5>2. QED
          BY <2>2, <4>2, <5>1, P25Places
      <4>3. CASE ~m_lduSyncPos
        <5>1. m_minSyncPtr' = P!WindowAtHdu(m_syncPtr').min /\ m_maxSyncPtr' = P!WindowAtHdu(m_syncPtr').max
          BY <3>1, <4>1, <4>3
        <5>2. QED
          BY <2>2, <4>3, <5>1, P25Places
      <4>4. QED
        BY <4>2, <4>3
    <3>3. m_lostCount' \in 0 .. MaxFrames /\ 0 \in 0 .. CorrCountdown - 1
      BY <1>7, <1>10, <3>1
    <3>4. P!TypeOK'
      BY <1>2, <1>3, <1>5, <1>9, <1>10, <2>2, <2>5, <3>1, <3>2, <3>3 DEF P!TypeOK
    <3>5. since' <= HduLen /\ since' <= LduLen
      <4>1. PICK n \in Nat : n = down
        BY <2>1
      <4>2. PICK i \in Int : i = since' /\ i + n <= CorrCountdown - 2
        BY <2>2, <4>1
      <4>3. i <= HduLen /\ i <= LduLen
        <5>1. CorrCountdown \in Nat /\ HduLen \in Nat /\ LduLen \in Nat /\ CorrCountdown - 1 < HduLen /\ HduLen < LduLen
          BY <1>7
        <5>2. i + n <= CorrCountdown - 2
          BY <4>2
        <5>3. QED
          BY <5>1, <5>2
      <4>4. QED
        BY <4>2, <4>3
    <3>6. PWait'
      <4>1. (m_lduSyncPos' <=> m_lduSyncPos)
        BY <1>2
      <4>2. QED
        BY <2>2, <2>3, <2>4, <3>1, <3>2, <3>5, <4>1 DEF PWait
    <3>7. PSearch' /\ PVoice' /\ PData' /\ P!LduTiles
      BY <1>2, <3>1 DEF PSearch, PVoice, PData, P!LduTiles
    <3>8. QED
      BY <3>4, <3>6, <3>7 DEF PInv
  <2>7. CASE down # 1
    <3>1. /\ m_state' = "NONE" /\ m_countdown' = down /\ m_lostCount' = p.lost
          /\ m_minSyncPtr' = m_minSyncPtr /\ m_maxSyncPtr' = m_maxSyncPtr
      BY <1>2, <1>6, <2>7
    <3>2. down \in 0 .. CorrCountdown - 1
      BY <1>7, <2>1
    <3>3. P!TypeOK'
      BY <1>2, <1>3, <1>5, <1>9, <1>10, <2>2, <2>5, <3>1, <3>2 DEF P!TypeOK, PInv
    <3>4. m_countdown' > 1 /\ since' + m_countdown' <= CorrCountdown - 2
      <4>1. m_countdown' = down /\ down \in Nat /\ down >= 1 /\ down # 1
        BY <2>1, <2>7, <3>1
      <4>2. since' + down <= CorrCountdown - 2
        BY <2>2
      <4> HIDE DEF down
      <4>3. QED
        BY <4>1, <4>2
    <3>5. PSearch'
      BY <2>2, <2>3, <2>4, <3>4 DEF PSearch
    <3>6. PWait' /\ PVoice' /\ PData' /\ P!LduTiles
      BY <1>2, <3>1 DEF PWait, PVoice, PData, P!LduTiles
    <3>7. QED
      BY <3>3, <3>5, <3>6 DEF PInv
  <2>8. QED
    BY <2>6, <2>7
<1>12. CASE corr = 0 /\ m_countdown = 0
  <2>1. down = 0
    BY <1>12
  <2>2. /\ m_syncPtr' = m_syncPtr /\ m_endPtr' = m_endPtr /\ m_pduEndPtr' = m_pduEndPtr /\ since' = 0
    BY <1>4, <1>12, <2>1, P25Pointers
  <2>3. /\ m_state' = "NONE" /\ m_countdown' = 0 /\ m_lostCount' = p.lost
        /\ m_minSyncPtr' = m_minSyncPtr /\ m_maxSyncPtr' = m_maxSyncPtr
    <3>1. down # 1
      BY <2>1
    <3>2. m_countdown' = down /\ m_lostCount' = p.lost /\ UNCHANGED <<m_state, m_minSyncPtr, m_maxSyncPtr>>
      BY <1>6, <3>1
    <3>3. QED
      BY <1>2, <2>1, <3>2
  <2>4. 0 \in 0 .. CorrCountdown - 1 /\ ~(m_countdown' > 0) /\ m_countdown' \in 0 .. CorrCountdown - 1
    BY <1>7, <2>3
  <2>5. P!TypeOK'
    <3>1. /\ {m_endPtr', m_pduEndPtr', m_maxSyncPtr'} \subseteq P!Index \cup {P!NOENDPTR}
          /\ {m_syncPtr', m_minSyncPtr'} \subseteq P!Index
      BY <2>2, <2>3 DEF P!TypeOK, PInv
    <3>2. m_lostCount' \in 0 .. MaxFrames /\ since' \in Int
      BY <1>10, <2>2, <2>3
    <3>3. m_state' \in {"NONE", "SYNC", "VOICE", "DATA"} /\ report' \in {"", "single", "ldu", "pdu", "lost"}
      BY <1>2, <2>3
    <3>4. QED
      BY <1>3, <1>5, <1>9, <1>10, <2>4, <3>1, <3>2, <3>3 DEF P!TypeOK
  <2>6. QED
    BY <1>2, <2>3, <2>4, <2>5 DEF PInv, PSearch, PWait, PVoice, PData, P!LduTiles
<1>13. QED
  BY <1>7, <1>11, <1>12


\* Types of the pointers after a sample.
LEMMA P25PointerTypes ==
  ASSUME PInv, NEW corr \in Strengths \cup {0}
  PROVE  /\ P!Pointers(corr).sync \in P!Index
         /\ {P!Pointers(corr).end, P!Pointers(corr).pduEnd} \subseteq P!Index \cup {P!NOENDPTR}
         /\ P!Pointers(corr).lost \in 0 .. MaxFrames
         /\ P!Pointers(corr).corr \in Strengths \cup {0}
         /\ P!Pointers(corr).since \in Int /\ P!Pointers(corr).fresh \in 0 .. SyncLen
<1>1. /\ m_dataPtr \in P!Index /\ m_syncPtr \in P!Index
      /\ {m_endPtr, m_pduEndPtr} \subseteq P!Index \cup {P!NOENDPTR}
      /\ m_lostCount \in 0 .. MaxFrames /\ m_maxCorr \in Strengths \cup {0}
      /\ since \in Int /\ fresh \in 0 .. SyncLen
  BY DEF PInv, P!TypeOK
<1>2. P!EndOfLdu(m_dataPtr) \in P!Index /\ P!EndOfPdu(m_dataPtr) \in P!Index
  BY P25Numbers, P25Places
<1>3. SyncLen \in Nat /\ MaxFrames \in Nat
  BY P25Constants
<1>4. since + 1 \in Int /\ (IF fresh < SyncLen THEN fresh + 1 ELSE fresh) \in 0 .. SyncLen
  BY <1>1, <1>3
<1>5. 0 \in Int /\ 0 \in 0 .. SyncLen /\ MaxFrames \in 0 .. MaxFrames
  BY <1>3
<1>6. CASE corr = 0
  BY <1>1, <1>4, <1>6, P25Pointers
<1>7. CASE corr # 0
  <2>1. /\ P!Pointers(corr).sync = m_dataPtr /\ P!Pointers(corr).end = P!EndOfLdu(m_dataPtr)
        /\ P!Pointers(corr).pduEnd = P!EndOfPdu(m_dataPtr)
        /\ P!Pointers(corr).lost = MaxFrames /\ P!Pointers(corr).corr = corr
        /\ P!Pointers(corr).since = 0 /\ P!Pointers(corr).fresh = 0
    BY <1>7, P25Pointers
  <2>2. QED
    BY <1>1, <1>2, <1>5, <2>1
<1>8. QED
  BY <1>6, <1>7

LEMMA P25Placed ==
  ASSUME NEW corr, P!Place(P!Pointers(corr))
  PROVE  /\ m_syncPtr' = P!Pointers(corr).sync /\ m_endPtr' = P!Pointers(corr).end
         /\ m_pduEndPtr' = P!Pointers(corr).pduEnd
         /\ since' = P!Pointers(corr).since /\ fresh' = P!Pointers(corr).fresh
  BY DEF P!Place

\* A round of the ring does not change where a sample is.
LEMMA P25Round ==
  ASSUME NEW place \in Nat, place < LduLen, NEW sync \in Nat, NEW n \in Nat, PAt(place, sync, n)
  PROVE  PAt(place, sync, n - LduLen)
<1>1. LduLen \in Nat
  BY P25Constants
<1>2. ~(place = sync + 1 + n + LduLen)
  BY <1>1
<1>3. \/ place = sync + 1 + (n - LduLen) + LduLen \/ place = sync + 1 + (n - LduLen)
      \/ place = sync + 1 + (n - LduLen) - LduLen
  BY <1>1, <1>2 DEF PAt
<1>4. QED
  BY <1>3 DEF PAt

\* What is said of the tiles holds of every step that takes LDUs at their end.
LEMMA P25Tiles ==
  ASSUME PInv, m_state = "VOICE" /\ report' = "ldu" => since = LduLen - SyncLen - 2
  PROVE  P!LduTiles
<1>1. LduLen \in Nat /\ SyncLen \in Nat /\ HduLen \in Nat /\ HduLen < LduLen /\ since \in Int
  BY P25Constants, P25Numbers
<1>2. m_state = "VOICE" => since <= LduLen - SyncLen - 2
  BY DEF PInv, PVoice
<1>3. m_state = "SYNC" => since <= LduLen \/ since <= HduLen
  BY DEF PInv, PWait
<1>4. since <= LduLen - SyncLen - 2 => since < LduLen - SyncLen - 1
  BY <1>1
<1>5. since <= LduLen \/ since <= HduLen => since <= LduLen
  BY <1>1
<1>6. QED
  BY <1>2, <1>3, <1>4, <1>5 DEF P!LduTiles

\* The wait for a data unit.
LEMMA P25Waits ==
  ASSUME PInv, P!SampleWait
  PROVE  PInv' /\ P!LduTiles
<1>1. /\ m_state = "SYNC" /\ m_dataPtr # m_maxSyncPtr /\ report' = "" /\ P!Advance("SYNC")
      /\ P!Place(P!Pointers(0))
      /\ UNCHANGED <<m_state, m_maxCorr, m_lostCount, m_countdown, m_lduSyncPos,
                     m_minSyncPtr, m_maxSyncPtr, m_dcd>>
  BY DEF P!SampleWait, P!syncVars
<1>2. /\ m_dataPtr' = (IF m_dataPtr + 1 >= LduLen THEN 0 ELSE m_dataPtr + 1) /\ m_dataPtr' \in P!Index
  BY <1>1, P25Advances DEF P!Advance
<1>3. /\ m_syncPtr' = m_syncPtr /\ m_endPtr' = m_endPtr /\ m_pduEndPtr' = m_pduEndPtr
      /\ since' = since + 1 /\ fresh' \in 0 .. SyncLen /\ since' \in Int
  <2>1. 0 \in Strengths \cup {0}
    OBVIOUS
  <2>2. /\ P!Pointers(0).sync = m_syncPtr /\ P!Pointers(0).end = m_endPtr
        /\ P!Pointers(0).pduEnd = m_pduEndPtr /\ P!Pointers(0).since = since + 1
    BY P25Pointers, Zenon
  <2>3. P!Pointers(0).since \in Int /\ P!Pointers(0).fresh \in 0 .. SyncLen
    BY <2>1, P25PointerTypes, Zenon
  <2>4. /\ m_syncPtr' = P!Pointers(0).sync /\ m_endPtr' = P!Pointers(0).end
        /\ m_pduEndPtr' = P!Pointers(0).pduEnd
        /\ since' = P!Pointers(0).since /\ fresh' = P!Pointers(0).fresh
    BY <1>1, P25Placed, Zenon
  <2>5. QED
    BY <2>2, <2>3, <2>4, Zenon
<1>4. /\ PPointers /\ m_pduEndPtr = P!EndOfPdu(m_syncPtr) /\ m_dcd /\ m_countdown = 0 /\ since >= 0
      /\ m_lduSyncPos => m_maxSyncPtr = P!WrapBy(m_syncPtr + 1, LduLen) /\ since <= LduLen
      /\ ~m_lduSyncPos => m_maxSyncPtr = P!WrapBy(m_syncPtr + HduLen + 1, LduLen) /\ since <= HduLen
  BY <1>1 DEF PInv, PWait
<1>5. /\ LduLen \in Nat /\ HduLen \in Nat /\ HduLen < LduLen /\ m_dataPtr \in Nat /\ m_syncPtr \in Nat
      /\ since \in Nat
  BY <1>4, P25Constants, P25Numbers
<1>6. since <= LduLen
  BY <1>4, <1>5
<1>7. /\ m_dataPtr < LduLen /\ m_syncPtr < LduLen /\ PAt(m_dataPtr, m_syncPtr, since)
      /\ m_endPtr = P!EndOfLdu(m_syncPtr)
  BY <1>4 DEF PPointers
<1>8. PAt(m_dataPtr', m_syncPtr, since + 1) /\ m_dataPtr' < LduLen
  BY <1>2, <1>5, <1>6, <1>7, P25NextPlace
<1>9. PPointers'
  BY <1>3, <1>7, <1>8 DEF PPointers, PAt
<1>10. /\ m_lduSyncPos => since' <= LduLen
       /\ ~m_lduSyncPos => since' <= HduLen
  <2>1. /\ m_dataPtr = P!WrapBy(m_syncPtr + 1, LduLen) <=> since = 0 \/ since = LduLen
        /\ since <= HduLen => (m_dataPtr = P!WrapBy(m_syncPtr + HduLen + 1, LduLen) <=> since = HduLen)
    BY <1>5, <1>6, <1>7, P25WaitEnds
  <2>2. m_lduSyncPos => since # LduLen
    BY <1>1, <1>4, <2>1
  <2>3. ~m_lduSyncPos => since # HduLen /\ since <= HduLen
    BY <1>1, <1>4, <2>1
  <2>4. since # LduLen => since' <= LduLen
    BY <1>3, <1>5, <1>6
  <2>5. since # HduLen /\ since <= HduLen => since' <= HduLen
    BY <1>3, <1>5
  <2>6. QED
    BY <2>2, <2>3, <2>4, <2>5
<1>11. since' >= 0
  BY <1>3, <1>5
<1>12. m_lduSyncPos' <=> m_lduSyncPos
  BY <1>1
<1>13. PWait'
  BY <1>1, <1>3, <1>4, <1>9, <1>10, <1>11, <1>12 DEF PWait
<1>14. P!TypeOK'
  BY <1>1, <1>2, <1>3 DEF P!TypeOK, PInv
<1>15. PSearch' /\ PVoice' /\ PData'
  BY <1>1 DEF PSearch, PVoice, PData
<1>16. P!LduTiles
  BY <1>1, P25Tiles
<1>17. QED
  BY <1>13, <1>14, <1>15, <1>16 DEF PInv

\* Voice begins.
LEMMA P25VoiceBegins ==
  ASSUME PInv, NEW duid, P!SyncVoice(duid)
  PROVE  PInv' /\ P!LduTiles
<1>1. /\ m_state = "SYNC" /\ m_dataPtr = m_maxSyncPtr /\ P!Advance("VOICE") /\ m_state' = "VOICE"
      /\ m_minSyncPtr' = P!VoiceWindow.min /\ m_maxSyncPtr' = P!VoiceWindow.max
      /\ m_lostCount' = MaxFrames /\ UNCHANGED <<m_countdown, m_lduSyncPos, m_dcd>>
      /\ report' \in PReports
  BY DEF P!SyncVoice, PReports
<1>2. PICK corr \in P!Syncs :
        LET p == P!Pointers(corr) IN
        /\ corr # 0 => m_lduSyncPos
        /\ P!Place([p EXCEPT !.since = IF @ >= LduLen THEN @ - LduLen ELSE @])
        /\ m_maxCorr' = (IF m_lduSyncPos THEN p.corr ELSE 0)
  <2>1. 0 \in P!Syncs
    BY DEF P!Syncs
  <2>2. (IF m_lduSyncPos THEN P!Syncs ELSE {0}) = {corr \in P!Syncs : corr # 0 => m_lduSyncPos}
    BY <2>1
  <2>3. QED
    BY <2>2 DEF P!SyncVoice
<1> DEFINE p == P!Pointers(corr)
<1>3. corr \in Strengths \cup {0} /\ (corr # 0 => m_lduSyncPos)
  BY <1>2 DEF P!Syncs
<1>4. /\ m_syncPtr' = p.sync /\ m_endPtr' = p.end /\ m_pduEndPtr' = p.pduEnd /\ fresh' = p.fresh
      /\ since' = IF p.since >= LduLen THEN p.since - LduLen ELSE p.since
  <2>1. P!Place([p EXCEPT !.since = IF p.since >= LduLen THEN p.since - LduLen ELSE p.since])
    BY <1>2
  <2>2. QED
    BY <2>1, P25PointersBut
<1>5. /\ p.sync \in P!Index /\ {p.end, p.pduEnd} \subseteq P!Index \cup {P!NOENDPTR}
      /\ p.corr \in Strengths \cup {0} /\ p.since \in Int /\ p.fresh \in 0 .. SyncLen
  BY <1>3, P25PointerTypes
<1>6. /\ m_dataPtr' = (IF m_dataPtr + 1 >= LduLen THEN 0 ELSE m_dataPtr + 1) /\ m_dataPtr' \in P!Index
  BY <1>1, P25Advances DEF P!Advance
<1>7. /\ PPointers /\ m_dcd /\ m_countdown = 0 /\ since >= 0
      /\ m_lduSyncPos => m_maxSyncPtr = P!WrapBy(m_syncPtr + 1, LduLen) /\ since <= LduLen
      /\ ~m_lduSyncPos => m_maxSyncPtr = P!WrapBy(m_syncPtr + HduLen + 1, LduLen) /\ since <= HduLen
  BY <1>1 DEF PInv, PWait
<1>8. /\ LduLen \in Nat /\ HduLen \in Nat /\ SyncLen \in Nat /\ HduLen + SyncLen + 3 < LduLen
      /\ MaxFrames \in Nat /\ MaxFrames >= 2
      /\ m_dataPtr \in Nat /\ m_syncPtr \in Nat /\ since \in Nat
  BY <1>7, P25Constants, P25Numbers
<1>9. /\ m_dataPtr < LduLen /\ m_syncPtr < LduLen /\ PAt(m_dataPtr, m_syncPtr, since)
      /\ m_endPtr = P!EndOfLdu(m_syncPtr)
  BY <1>7 DEF PPointers
<1>10. since <= LduLen
  BY <1>7, <1>8
<1>11. /\ m_syncPtr' < LduLen /\ m_dataPtr' < LduLen /\ PAt(m_dataPtr', m_syncPtr', since')
       /\ m_endPtr' = P!EndOfLdu(m_syncPtr') /\ since' \in Int
       /\ since' >= -SyncLen - 1 /\ since' <= LduLen - SyncLen - 2
  <2>1. CASE corr # 0
    <3>1. /\ m_syncPtr' = m_dataPtr /\ m_endPtr' = P!EndOfLdu(m_dataPtr) /\ p.since = 0
      BY <1>4, <2>1, P25Pointers
    <3>2. since' = 0
      BY <1>4, <1>8, <3>1
    <3>3. PAt(m_dataPtr', m_dataPtr, 0) /\ m_dataPtr' < LduLen
      BY <1>6, <1>8, <1>9, P25FirstPlace
    <3>4. 0 >= -SyncLen - 1 /\ 0 <= LduLen - SyncLen - 2
      BY <1>8
    <3>5. QED
      BY <1>9, <3>1, <3>2, <3>3, <3>4
  <2>2. CASE corr = 0
    <3>1. m_syncPtr' = m_syncPtr /\ m_endPtr' = m_endPtr /\ p.since = since + 1
      BY <1>4, <2>2, P25Pointers
    <3>2. PAt(m_dataPtr', m_syncPtr, since + 1) /\ m_dataPtr' < LduLen /\ m_dataPtr' \in Nat
      BY <1>6, <1>8, <1>9, <1>10, P25NextPlace
    <3>3. /\ m_dataPtr = P!WrapBy(m_syncPtr + 1, LduLen) <=> since = 0 \/ since = LduLen
          /\ since <= HduLen => (m_dataPtr = P!WrapBy(m_syncPtr + HduLen + 1, LduLen) <=> since = HduLen)
      BY <1>8, <1>9, <1>10, P25WaitEnds
    <3>4. since = 0 \/ since = LduLen \/ since = HduLen
      BY <1>1, <1>7, <3>3
    <3>5. CASE since = LduLen
      <4>1. since' = since + 1 - LduLen /\ since' = 1 /\ since + 1 \in Nat
        BY <1>4, <1>8, <3>1, <3>5
      <4>2. PAt(m_dataPtr', m_syncPtr, since + 1 - LduLen)
        BY <1>8, <3>2, <4>1, P25Round
      <4>3. 1 >= -SyncLen - 1 /\ 1 <= LduLen - SyncLen - 2
        BY <1>8
      <4>4. QED
        BY <1>9, <3>1, <3>2, <4>1, <4>2, <4>3
    <3>6. CASE since = 0 \/ since = HduLen
      <4>1. since' = since + 1
        BY <1>4, <1>8, <3>1, <3>6
      <4>2. since + 1 \in Int /\ since + 1 >= -SyncLen - 1 /\ since + 1 <= LduLen - SyncLen - 2
        BY <1>8, <3>6
      <4>3. QED
        BY <1>9, <3>1, <3>2, <4>1, <4>2
    <3>7. QED
      BY <3>4, <3>5, <3>6
  <2>3. QED
    BY <2>1, <2>2
<1>12. PPointers'
  BY <1>11 DEF PPointers, PAt
<1>13. m_lostCount' \in 1 .. MaxFrames /\ m_lostCount' \in 0 .. MaxFrames
  BY <1>1, <1>8
<1>14. m_minSyncPtr' \in P!Index /\ m_maxSyncPtr' \in P!Index \cup {P!NOENDPTR}
  <2>1. m_minSyncPtr \in P!Index /\ m_maxSyncPtr \in P!Index \cup {P!NOENDPTR}
    BY DEF PInv, P!TypeOK
  <2>2. /\ P!WindowAround(m_syncPtr, LduLen).min \in P!Index
        /\ P!WindowAround(m_syncPtr, LduLen).max \in P!Index
    BY <1>8, <1>9, P25Places
  <2>3. CASE m_lduSyncPos
    BY <1>1, <2>1, <2>3 DEF P!VoiceWindow
  <2>4. CASE ~m_lduSyncPos
    BY <1>1, <2>2, <2>4 DEF P!VoiceWindow
  <2>5. QED
    BY <2>3, <2>4
<1>15. m_maxCorr' \in Strengths \cup {0}
  BY <1>2, <1>5
<1>16. P!TypeOK'
  BY <1>1, <1>4, <1>5, <1>6, <1>11, <1>13, <1>14, <1>15 DEF P!TypeOK, PInv, PReports
<1>17. PVoice'
  BY <1>1, <1>7, <1>11, <1>12, <1>13 DEF PVoice
<1>18. PSearch' /\ PWait' /\ PData'
  BY <1>1 DEF PSearch, PWait, PData
<1>19. P!LduTiles
  BY <1>1, P25Tiles
<1>20. QED
  BY <1>16, <1>17, <1>18, <1>19 DEF PInv

\* A packet begins.
LEMMA P25DataBegins ==
  ASSUME PInv, P!SyncData
  PROVE  PInv' /\ P!LduTiles
<1>1. /\ m_state = "SYNC" /\ P!Advance("DATA") /\ m_state' = "DATA" /\ report' = ""
      /\ m_lostCount' = MaxFrames
      /\ UNCHANGED <<m_minSyncPtr, m_maxSyncPtr, m_countdown, m_lduSyncPos, m_dcd>>
  BY DEF P!SyncData
<1>2. PICK corr \in {0} \cup Strengths : P!Place(P!Pointers(corr)) /\ m_maxCorr' = corr
  BY DEF P!SyncData
<1>3. /\ m_syncPtr' \in P!Index /\ {m_endPtr', m_pduEndPtr'} \subseteq P!Index \cup {P!NOENDPTR}
      /\ since' \in Int /\ fresh' \in 0 .. SyncLen /\ m_dataPtr' \in P!Index
  <2>1. corr \in Strengths \cup {0}
    BY <1>2
  <2>2. m_dataPtr' \in P!Index
    BY <1>1, P25Advances
  <2>3. /\ m_syncPtr' = P!Pointers(corr).sync /\ m_endPtr' = P!Pointers(corr).end
        /\ m_pduEndPtr' = P!Pointers(corr).pduEnd
        /\ since' = P!Pointers(corr).since /\ fresh' = P!Pointers(corr).fresh
    BY <1>2, P25Placed
  <2>4. QED
    BY <2>1, <2>2, <2>3, P25PointerTypes
<1>4. m_pduEndPtr' \in P!Index
  <2>1. m_pduEndPtr = P!EndOfPdu(m_syncPtr)
    BY <1>1 DEF PInv, PWait
  <2>2. P!EndOfPdu(m_syncPtr) \in P!Index /\ P!EndOfPdu(m_dataPtr) \in P!Index
    BY P25Numbers, P25Places
  <2>3. m_pduEndPtr' = P!Pointers(corr).pduEnd
    BY <1>2, P25Placed
  <2>4. QED
    BY <2>1, <2>2, <2>3, P25Pointers
<1>5. m_lostCount' \in 1 .. MaxFrames /\ m_lostCount' \in 0 .. MaxFrames
  <2>1. MaxFrames \in 1 .. MaxFrames /\ MaxFrames \in 0 .. MaxFrames
    BY P25Constants
  <2>2. QED
    BY <1>1, <2>1
<1>6. P!TypeOK'
  BY <1>1, <1>2, <1>3, <1>5 DEF P!TypeOK, PInv
<1>7. PData'
  BY <1>1, <1>4, <1>5 DEF PData, PInv, PWait
<1>8. PSearch' /\ PWait' /\ PVoice'
  BY <1>1 DEF PSearch, PWait, PVoice
<1>9. P!LduTiles
  BY <1>1, P25Tiles
<1>10. QED
  BY <1>6, <1>7, <1>8, <1>9 DEF PInv

\* A sample of an LDU before its last.
LEMMA P25VoiceWithin ==
  ASSUME PInv, P!VoiceInFrame
  PROVE  PInv' /\ P!LduTiles
<1>1. /\ m_state = "VOICE" /\ report' = "" /\ P!Advance("VOICE")
      /\ UNCHANGED <<m_state, m_minSyncPtr, m_maxSyncPtr, m_countdown, m_lduSyncPos, m_dcd>>
  BY DEF P!VoiceInFrame, P!SampleInFrame
<1>2. PICK corr \in P!Syncs :
        /\ m_dataPtr # P!Pointers(corr).end /\ P!Place(P!Pointers(corr))
        /\ m_maxCorr' = P!Pointers(corr).corr /\ m_lostCount' = P!Pointers(corr).lost
  <2>1. 0 \in P!Syncs
    BY DEF P!Syncs
  <2>2. PICK corr \in (IF P!InWindow THEN P!Syncs ELSE {0}) :
          /\ m_dataPtr # P!Pointers(corr)["end"] /\ P!Place(P!Pointers(corr))
          /\ m_maxCorr' = P!Pointers(corr).corr /\ m_lostCount' = P!Pointers(corr).lost
    BY DEF P!VoiceInFrame, P!SampleInFrame
  <2>3. corr \in P!Syncs
    BY <2>1, <2>2
  <2>4. QED
    BY <2>2, <2>3
<1>3. corr \in Strengths \cup {0}
  BY DEF P!Syncs
<1>4. /\ m_syncPtr' = P!Pointers(corr).sync /\ m_endPtr' = P!Pointers(corr).end
      /\ m_pduEndPtr' = P!Pointers(corr).pduEnd
      /\ since' = P!Pointers(corr).since /\ fresh' = P!Pointers(corr).fresh
  BY <1>2, P25Placed
<1>5. /\ m_syncPtr' \in P!Index /\ {m_endPtr', m_pduEndPtr'} \subseteq P!Index \cup {P!NOENDPTR}
      /\ since' \in Int /\ fresh' \in 0 .. SyncLen /\ m_lostCount' \in 0 .. MaxFrames
      /\ m_maxCorr' \in Strengths \cup {0}
  BY <1>2, <1>3, <1>4, P25PointerTypes
<1>6. /\ m_dataPtr' = (IF m_dataPtr + 1 >= LduLen THEN 0 ELSE m_dataPtr + 1) /\ m_dataPtr' \in P!Index
  BY <1>1, P25Advances DEF P!Advance
<1>7. /\ PPointers /\ m_dcd /\ m_countdown = 0 /\ m_lostCount \in 1 .. MaxFrames
      /\ since >= -SyncLen - 1 /\ since <= LduLen - SyncLen - 2
  BY <1>1 DEF PInv, PVoice
<1>8. /\ LduLen \in Nat /\ SyncLen \in Nat /\ SyncLen + 3 < LduLen /\ MaxFrames \in Nat /\ MaxFrames >= 2
      /\ m_dataPtr \in Nat /\ m_syncPtr \in Nat /\ since \in Int
  BY P25Constants, P25Numbers
<1>9. /\ m_dataPtr < LduLen /\ m_syncPtr < LduLen /\ PAt(m_dataPtr, m_syncPtr, since)
      /\ m_endPtr = P!EndOfLdu(m_syncPtr)
  BY <1>7 DEF PPointers
<1>10. CASE corr # 0
  <2>1. /\ m_syncPtr' = m_dataPtr /\ m_endPtr' = P!EndOfLdu(m_dataPtr) /\ since' = 0
        /\ m_lostCount' = MaxFrames
    BY <1>2, <1>4, <1>10, P25Pointers
  <2>2. PAt(m_dataPtr', m_dataPtr, 0) /\ m_dataPtr' < LduLen
    BY <1>6, <1>8, <1>9, P25FirstPlace
  <2>3. 0 >= -SyncLen - 1 /\ 0 <= LduLen - SyncLen - 2 /\ MaxFrames \in 1 .. MaxFrames
    BY <1>8
  <2>4. PPointers'
    BY <1>9, <2>1, <2>2 DEF PPointers, PAt
  <2>5. since' >= -SyncLen - 1 /\ since' <= LduLen - SyncLen - 2 /\ m_lostCount' \in 1 .. MaxFrames
    BY <2>1, <2>3
  <2>6. PVoice'
    BY <1>1, <1>7, <2>4, <2>5 DEF PVoice
  <2>7. P!TypeOK'
    BY <1>1, <1>5, <1>6 DEF P!TypeOK, PInv
  <2>8. PSearch' /\ PWait' /\ PData'
    BY <1>1 DEF PSearch, PWait, PData
  <2>9. P!LduTiles
    BY <1>1, P25Tiles
  <2>10. QED
    BY <2>6, <2>7, <2>8, <2>9 DEF PInv
<1>11. CASE corr = 0
  <2>1. /\ m_syncPtr' = m_syncPtr /\ m_endPtr' = m_endPtr /\ since' = since + 1
        /\ m_lostCount' = m_lostCount /\ m_dataPtr # m_endPtr
    BY <1>2, <1>4, <1>11, P25Pointers
  <2>2. since # LduLen - SyncLen - 2
    BY <1>7, <1>8, <1>9, <2>1, P25LduEnds
  <2>3. since' >= -SyncLen - 1 /\ since' <= LduLen - SyncLen - 2 /\ since <= LduLen
    BY <1>7, <1>8, <2>1, <2>2
  <2>4. PAt(m_dataPtr', m_syncPtr, since + 1) /\ m_dataPtr' < LduLen
    BY <1>6, <1>8, <1>9, <2>3, P25NextPlace
  <2>5. PPointers'
    BY <1>9, <2>1, <2>4 DEF PPointers, PAt
  <2>6. PVoice'
    BY <1>1, <1>7, <2>1, <2>3, <2>5 DEF PVoice
  <2>7. P!TypeOK'
    BY <1>1, <1>5, <1>6 DEF P!TypeOK, PInv
  <2>8. PSearch' /\ PWait' /\ PData'
    BY <1>1 DEF PSearch, PWait, PData
  <2>9. P!LduTiles
    BY <1>1, P25Tiles
  <2>10. QED
    BY <2>6, <2>7, <2>8, <2>9 DEF PInv
<1>12. QED
  BY <1>10, <1>11

\* An LDU is taken.
LEMMA P25VoiceTaken ==
  ASSUME PInv, P!VoiceLdu
  PROVE  PInv' /\ P!LduTiles
<1>1. /\ m_state = "VOICE" /\ report' = "ldu" /\ P!Advance("VOICE")
      /\ UNCHANGED <<m_state, m_syncPtr, m_endPtr, m_pduEndPtr, m_countdown, m_lduSyncPos, m_dcd>>
  BY DEF P!VoiceLdu, P!FrameTaken
<1>2. /\ m_dataPtr = m_endPtr /\ m_lostCount # 1
      /\ m_lostCount' = m_lostCount - 1 /\ m_maxCorr' = 0
      /\ since' = since + 1 - LduLen /\ fresh' = P!Pointers(0).fresh
  BY DEF P!VoiceLdu, P!FrameTaken, P!OutOfFrames
<1>3. \/ /\ m_minSyncPtr' = P!WindowAround(m_syncPtr, LduLen).min
         /\ m_maxSyncPtr' = P!WindowAround(m_syncPtr, LduLen).max
      \/ m_minSyncPtr' = m_minSyncPtr /\ m_maxSyncPtr' = m_maxSyncPtr
  BY DEF P!VoiceLdu, P!FrameTaken
<1>4. /\ m_dataPtr' = (IF m_dataPtr + 1 >= LduLen THEN 0 ELSE m_dataPtr + 1) /\ m_dataPtr' \in P!Index
  BY <1>1, P25Advances DEF P!Advance
<1>5. /\ PPointers /\ m_dcd /\ m_countdown = 0 /\ m_lostCount \in 1 .. MaxFrames
      /\ since >= -SyncLen - 1 /\ since <= LduLen - SyncLen - 2
  BY <1>1 DEF PInv, PVoice
<1>6. /\ LduLen \in Nat /\ SyncLen \in Nat /\ SyncLen + 3 < LduLen /\ MaxFrames \in Nat /\ MaxFrames >= 2
      /\ m_dataPtr \in Nat /\ m_syncPtr \in Nat /\ since \in Int
  BY P25Constants, P25Numbers
<1>7. /\ m_dataPtr < LduLen /\ m_syncPtr < LduLen /\ PAt(m_dataPtr, m_syncPtr, since)
      /\ m_endPtr = P!EndOfLdu(m_syncPtr)
  BY <1>5 DEF PPointers
<1>8. since = LduLen - SyncLen - 2
  BY <1>2, <1>5, <1>6, <1>7, P25LduEnds
<1>9. since + 1 \in Nat /\ since <= LduLen /\ since' = -SyncLen - 1
  BY <1>2, <1>6, <1>8
<1>10. PAt(m_dataPtr', m_syncPtr, since + 1) /\ m_dataPtr' < LduLen /\ m_dataPtr' \in Nat
  BY <1>4, <1>6, <1>7, <1>9, P25NextPlace
<1>11. PAt(m_dataPtr', m_syncPtr, since + 1 - LduLen)
  BY <1>6, <1>9, <1>10, P25Round
<1>12. PPointers'
  BY <1>1, <1>2, <1>7, <1>10, <1>11 DEF PPointers, PAt
<1>13. m_lostCount' \in 1 .. MaxFrames /\ m_lostCount' \in 0 .. MaxFrames
  BY <1>2, <1>5, <1>6
<1>14. since' >= -SyncLen - 1 /\ since' <= LduLen - SyncLen - 2 /\ since' \in Int
  BY <1>6, <1>9
<1>15. m_minSyncPtr' \in P!Index /\ m_maxSyncPtr' \in P!Index \cup {P!NOENDPTR}
  <2>1. m_minSyncPtr \in P!Index /\ m_maxSyncPtr \in P!Index \cup {P!NOENDPTR}
    BY DEF PInv, P!TypeOK
  <2>2. /\ P!WindowAround(m_syncPtr, LduLen).min \in P!Index
        /\ P!WindowAround(m_syncPtr, LduLen).max \in P!Index
    BY <1>6, <1>7, P25Places
  <2>3. QED
    BY <1>3, <2>1, <2>2
<1>16. fresh' \in 0 .. SyncLen /\ m_maxCorr' \in Strengths \cup {0}
  <2>1. 0 \in Strengths \cup {0}
    OBVIOUS
  <2>2. QED
    BY <1>2, <2>1, P25PointerTypes
<1>17. PVoice'
  BY <1>1, <1>5, <1>12, <1>13, <1>14 DEF PVoice
<1>18. P!TypeOK'
  BY <1>1, <1>4, <1>13, <1>14, <1>15, <1>16 DEF P!TypeOK, PInv
<1>19. PSearch' /\ PWait' /\ PData'
  BY <1>1 DEF PSearch, PWait, PData
<1>20. P!LduTiles
  BY <1>8, P25Tiles
<1>21. QED
  BY <1>17, <1>18, <1>19, <1>20 DEF PInv

\* A sample of a packet before its last.
LEMMA P25DataWithin ==
  ASSUME PInv, P!DataInFrame
  PROVE  PInv' /\ P!LduTiles
<1>1. /\ m_state = "DATA" /\ report' = "" /\ P!Advance("DATA")
      /\ UNCHANGED <<m_state, m_minSyncPtr, m_maxSyncPtr, m_countdown, m_lduSyncPos, m_dcd>>
  BY DEF P!DataInFrame, P!SampleInFrame
<1>2. PICK corr \in P!Syncs :
        /\ P!Place(P!Pointers(corr))
        /\ m_maxCorr' = P!Pointers(corr).corr /\ m_lostCount' = P!Pointers(corr).lost
  <2>1. 0 \in P!Syncs
    BY DEF P!Syncs
  <2>2. PICK corr \in (IF P!InWindow THEN P!Syncs ELSE {0}) :
          /\ P!Place(P!Pointers(corr))
          /\ m_maxCorr' = P!Pointers(corr).corr /\ m_lostCount' = P!Pointers(corr).lost
    BY DEF P!DataInFrame, P!SampleInFrame
  <2>3. corr \in P!Syncs
    BY <2>1, <2>2
  <2>4. QED
    BY <2>2, <2>3
<1>3. corr \in Strengths \cup {0}
  BY DEF P!Syncs
<1>4. /\ m_syncPtr' = P!Pointers(corr).sync /\ m_endPtr' = P!Pointers(corr).end
      /\ m_pduEndPtr' = P!Pointers(corr).pduEnd
      /\ since' = P!Pointers(corr).since /\ fresh' = P!Pointers(corr).fresh
  BY <1>2, P25Placed
<1>5. /\ m_syncPtr' \in P!Index /\ {m_endPtr', m_pduEndPtr'} \subseteq P!Index \cup {P!NOENDPTR}
      /\ since' \in Int /\ fresh' \in 0 .. SyncLen /\ m_lostCount' \in 0 .. MaxFrames
      /\ m_maxCorr' \in Strengths \cup {0}
  BY <1>2, <1>3, <1>4, P25PointerTypes
<1>6. m_dataPtr' \in P!Index
  BY <1>1, P25Advances
<1>7. m_dcd /\ m_countdown = 0 /\ m_lostCount \in 1 .. MaxFrames /\ m_pduEndPtr \in P!Index
  BY <1>1 DEF PInv, PData
<1>8. m_pduEndPtr' \in P!Index /\ m_lostCount' \in 1 .. MaxFrames
  <2>1. P!EndOfPdu(m_dataPtr) \in P!Index
    BY P25Numbers, P25Places
  <2>2. MaxFrames \in 1 .. MaxFrames
    BY P25Constants
  <2>3. QED
    BY <1>2, <1>4, <1>7, <2>1, <2>2, P25Pointers
<1>9. P!TypeOK'
  BY <1>1, <1>5, <1>6 DEF P!TypeOK, PInv
<1>10. PData'
  BY <1>1, <1>7, <1>8 DEF PData
<1>11. PSearch' /\ PWait' /\ PVoice'
  BY <1>1 DEF PSearch, PWait, PVoice
<1>12. P!LduTiles
  BY <1>1, P25Tiles
<1>13. QED
  BY <1>9, <1>10, <1>11, <1>12 DEF PInv

\* A packet is taken.
LEMMA P25DataTaken ==
  ASSUME PInv, P!DataPdu
  PROVE  PInv' /\ P!LduTiles
<1>1. /\ m_state = "DATA" /\ report' = "pdu" /\ P!Advance("DATA")
      /\ UNCHANGED <<m_state, m_syncPtr, m_endPtr, m_pduEndPtr, m_countdown, m_lduSyncPos, m_dcd>>
  BY DEF P!DataPdu, P!FrameTaken
<1>2. /\ m_lostCount # 1 /\ m_lostCount' = m_lostCount - 1 /\ m_maxCorr' = 0
      /\ since' = since + 1 - PduLen /\ fresh' = P!Pointers(0).fresh
  BY DEF P!DataPdu, P!FrameTaken, P!OutOfFrames
<1>3. \/ /\ m_minSyncPtr' = P!WindowAround(m_syncPtr, PduLen).min
         /\ m_maxSyncPtr' = P!WindowAround(m_syncPtr, PduLen).max
      \/ m_minSyncPtr' = m_minSyncPtr /\ m_maxSyncPtr' = m_maxSyncPtr
  BY DEF P!DataPdu, P!FrameTaken
<1>4. m_dataPtr' \in P!Index
  BY <1>1, P25Advances
<1>5. m_dcd /\ m_countdown = 0 /\ m_lostCount \in 1 .. MaxFrames /\ m_pduEndPtr \in P!Index
  BY <1>1 DEF PInv, PData
<1>6. /\ PduLen \in Nat /\ MaxFrames \in Nat /\ m_syncPtr \in Nat /\ m_syncPtr < PduLen /\ since \in Int
  BY P25Constants, P25Numbers
<1>7. m_lostCount' \in 1 .. MaxFrames /\ m_lostCount' \in 0 .. MaxFrames /\ since' \in Int
  BY <1>2, <1>5, <1>6
<1>8. m_minSyncPtr' \in P!Index /\ m_maxSyncPtr' \in P!Index \cup {P!NOENDPTR}
  <2>1. m_minSyncPtr \in P!Index /\ m_maxSyncPtr \in P!Index \cup {P!NOENDPTR}
    BY DEF PInv, P!TypeOK
  <2>2. /\ P!WindowAround(m_syncPtr, PduLen).min \in P!Index
        /\ P!WindowAround(m_syncPtr, PduLen).max \in P!Index
    BY <1>6, P25Places
  <2>3. QED
    BY <1>3, <2>1, <2>2
<1>9. fresh' \in 0 .. SyncLen /\ m_maxCorr' \in Strengths \cup {0}
  <2>1. 0 \in Strengths \cup {0}
    OBVIOUS
  <2>2. QED
    BY <1>2, <2>1, P25PointerTypes
<1>10. P!TypeOK'
  BY <1>1, <1>4, <1>7, <1>8, <1>9 DEF P!TypeOK, PInv
<1>11. PData'
  BY <1>1, <1>5, <1>7 DEF PData
<1>12. PSearch' /\ PWait' /\ PVoice'
  BY <1>1 DEF PSearch, PWait, PVoice
<1>13. P!LduTiles
  BY <1>1, P25Tiles
<1>14. QED
  BY <1>10, <1>11, <1>12, <1>13 DEF PInv

\* A step that forgets the lock.
LEMMA P25Loses ==
  ASSUME PInv, P!ResetFields, m_dataPtr' \in P!Index, m_lduSyncPos' \in BOOLEAN,
         m_dcd' \in BOOLEAN, report' \in PReports \ {"ldu"}
  PROVE  PInv' /\ P!LduTiles
<1>1. report' \in PReports
  OBVIOUS
<1>2. PInv'
  BY <1>1, P25Forgets
<1>3. P!LduTiles
  BY P25Tiles
<1>4. QED
  BY <1>2, <1>3

\* The receiver keeps its invariant, and takes its LDUs where they end.
LEMMA P25Steps ==
  ASSUME PInv, P!Next
  PROVE  PInv' /\ P!LduTiles
<1>1. m_lduSyncPos \in BOOLEAN /\ m_dcd \in BOOLEAN /\ m_dataPtr \in P!Index
  BY DEF PInv, P!TypeOK
<1>2. CASE P!SampleSearch
  BY <1>2, P25Searches
<1>3. CASE P!SampleWait
  BY <1>3, P25Waits
<1>4. CASE P!SyncNidFails
  <2>1. /\ P!ResetFields /\ m_lduSyncPos' = FALSE /\ m_dcd' = FALSE /\ report' = "lost"
        /\ P!Advance("NONE")
    BY <1>4 DEF P!SyncNidFails
  <2>2. m_dataPtr' \in P!Index /\ report' \in PReports \ {"ldu"}
    BY <2>1, P25Advances DEF PReports
  <2>3. QED
    BY <2>1, <2>2, P25Loses
<1>5. CASE P!SyncData
  BY <1>5, P25DataBegins
<1>6. ASSUME NEW duid \in P!Duids, P!SyncSingle(duid)
      PROVE  PInv' /\ P!LduTiles
  <2>1. /\ P!ResetFields /\ m_lduSyncPos' = (duid = "HDU") /\ m_dcd' = m_dcd
        /\ report' = (IF duid = "illegal" THEN "" ELSE "single") /\ P!Advance("NONE")
    BY <1>6 DEF P!SyncSingle
  <2>2. m_dataPtr' \in P!Index /\ report' \in PReports \ {"ldu"}
    BY <2>1, P25Advances DEF PReports
  <2>3. m_lduSyncPos' \in BOOLEAN /\ m_dcd' \in BOOLEAN
    BY <1>1, <2>1
  <2>4. QED
    BY <2>1, <2>2, <2>3, P25Loses
<1>7. ASSUME NEW duid \in P!Duids, P!SyncVoice(duid)
      PROVE  PInv' /\ P!LduTiles
  BY <1>7, P25VoiceBegins
<1>8. CASE P!VoiceInFrame
  BY <1>8, P25VoiceWithin
<1>9. CASE P!VoiceLdu
  BY <1>9, P25VoiceTaken
<1>10. CASE P!VoiceLost \/ P!DataLost \/ P!VoiceTerminator
  <2>1. /\ P!ResetFields /\ m_lduSyncPos' = FALSE /\ m_dcd' = FALSE /\ report' \in {"lost", "single"}
        /\ P!Advance("NONE")
    BY <1>10 DEF P!VoiceLost, P!DataLost, P!FrameLost, P!VoiceTerminator
  <2>2. m_dataPtr' \in P!Index /\ report' \in PReports \ {"ldu"}
    BY <2>1, P25Advances DEF PReports
  <2>3. QED
    BY <2>1, <2>2, P25Loses
<1>11. CASE P!DataInFrame
  BY <1>11, P25DataWithin
<1>12. CASE P!DataPdu
  BY <1>12, P25DataTaken
<1>13. CASE P!Reset
  <2>1. /\ P!ResetFields /\ m_lduSyncPos' = FALSE /\ report' = "" /\ m_dataPtr' = m_dataPtr
        /\ m_dcd' = m_dcd
    BY <1>13 DEF P!Reset
  <2>2. report' \in PReports \ {"ldu"}
    BY <2>1 DEF PReports
  <2>3. QED
    BY <1>1, <2>1, <2>2, P25Loses
<1>14. QED
  BY <1>2, <1>3, <1>4, <1>5, <1>6, <1>7, <1>8, <1>9, <1>10, <1>11, <1>12, <1>13
  DEF P!Next, P!Sync, P!Voice, P!Data

\* And begins with it.
LEMMA P25Begins ==
  ASSUME P!Init
  PROVE  PInv
<1>1. 0 \in P!Index /\ 0 \in 0 .. MaxFrames /\ 0 \in 0 .. CorrCountdown - 1 /\ 0 \in 0 .. SyncLen
  <2>1. /\ PduLen \in Nat /\ 0 < PduLen /\ CorrCountdown \in Nat /\ CorrCountdown > 2
        /\ SyncLen \in Nat /\ MaxFrames \in Nat
    BY P25Constants
  <2>2. QED
    BY <2>1 DEF P!Index
<1>2. /\ m_countdown = 0 /\ m_lostCount = 0 /\ m_maxCorr = 0 /\ since = 0 /\ fresh = 0 /\ m_dataPtr = 0
      /\ m_syncPtr = 0 /\ m_minSyncPtr = 0
  BY DEF P!Init
<1>3. /\ m_state = "NONE" /\ report = "" /\ m_lduSyncPos = FALSE /\ m_dcd = FALSE
      /\ m_endPtr = P!NOENDPTR /\ m_pduEndPtr = P!NOENDPTR /\ m_maxSyncPtr = P!NOENDPTR
  BY DEF P!Init
<1>4. /\ m_countdown \in 0 .. CorrCountdown - 1 /\ m_lostCount \in 0 .. MaxFrames
      /\ m_maxCorr \in Strengths \cup {0} /\ since \in Int /\ fresh \in 0 .. SyncLen
      /\ m_dataPtr \in P!Index /\ m_syncPtr \in P!Index /\ m_minSyncPtr \in P!Index
  BY <1>1, <1>2
<1>5. ~(m_countdown > 0)
  BY <1>2
<1>6. P!TypeOK
  BY <1>3, <1>4 DEF P!TypeOK
<1>7. PSearch /\ PWait /\ PVoice /\ PData
  BY <1>3, <1>5 DEF PSearch, PWait, PVoice, PData
<1>8. QED
  BY <1>6, <1>7 DEF PInv

\* A lock has its carrier, an end to wait for, and frames left.
LEMMA P25Lock ==
  ASSUME PInv
  PROVE  P!LockIsLive /\ P!LockIsCarrier
<1>1. m_state \in {"NONE", "SYNC", "VOICE", "DATA"} /\ m_dcd \in BOOLEAN
  BY DEF PInv, P!TypeOK
<1>2. LduLen \in Nat /\ HduLen \in Nat /\ HduLen + 3 < LduLen /\ m_syncPtr \in Nat
  BY P25Constants, P25Numbers
<1>3. ASSUME m_syncPtr < LduLen
      PROVE  /\ P!WrapBy(m_syncPtr + 1, LduLen) \in 0 .. LduLen - 1
             /\ P!WrapBy(m_syncPtr + HduLen + 1, LduLen) \in 0 .. LduLen - 1
             /\ P!EndOfLdu(m_syncPtr) \in 0 .. LduLen - 1
  <2>1. m_syncPtr + 1 \in Nat /\ m_syncPtr + 1 < 2 * LduLen
    BY <1>2, <1>3
  <2>2. m_syncPtr + HduLen + 1 \in Nat /\ m_syncPtr + HduLen + 1 < 2 * LduLen
    BY <1>2, <1>3
  <2>3. P!EndOfLdu(m_syncPtr) \in Nat /\ P!EndOfLdu(m_syncPtr) < LduLen
    BY <1>2, <1>3, P25Places
  <2>4. P!WrapBy(m_syncPtr + 1, LduLen) \in Nat /\ P!WrapBy(m_syncPtr + 1, LduLen) < LduLen
    BY <1>2, <2>1, P25Wrap
  <2>5. /\ P!WrapBy(m_syncPtr + HduLen + 1, LduLen) \in Nat
        /\ P!WrapBy(m_syncPtr + HduLen + 1, LduLen) < LduLen
    BY <1>2, <2>2, P25Wrap
  <2>6. QED
    BY <1>2, <2>3, <2>4, <2>5
<1>4. CASE m_state = "NONE"
  BY <1>4 DEF PInv, PSearch, P!LockIsLive, P!LockIsCarrier
<1>5. CASE m_state = "SYNC"
  <2>1. /\ PPointers /\ m_dcd
        /\ m_lduSyncPos => m_maxSyncPtr = P!WrapBy(m_syncPtr + 1, LduLen)
        /\ ~m_lduSyncPos => m_maxSyncPtr = P!WrapBy(m_syncPtr + HduLen + 1, LduLen)
    BY <1>5 DEF PInv, PWait
  <2>2. m_maxSyncPtr \in 0 .. LduLen - 1
    BY <1>3, <2>1 DEF PPointers
  <2>3. QED
    BY <1>5, <2>1, <2>2 DEF P!LockIsLive, P!LockIsCarrier
<1>6. CASE m_state = "VOICE"
  <2>1. PPointers /\ m_dcd /\ m_lostCount \in 1 .. MaxFrames
    BY <1>6 DEF PInv, PVoice
  <2>2. m_endPtr \in 0 .. LduLen - 1
    BY <1>3, <2>1 DEF PPointers
  <2>3. QED
    BY <1>6, <2>1, <2>2 DEF P!LockIsLive, P!LockIsCarrier
<1>7. CASE m_state = "DATA"
  BY <1>7 DEF PInv, PData, P!LockIsLive, P!LockIsCarrier
<1>8. QED
  BY <1>1, <1>4, <1>5, <1>6, <1>7

-----------------------------------------------------------------------------
(***************************************************************************)
(* DmrRx, for any bursts in any order, any number of bursts without a sync *)
(* that ends a call, any superframe and any slots: those of a repeater and *)
(* the one of direct mode.                                                 *)
(***************************************************************************)
M(slots) == INSTANCE DmrRx WITH Slots <- slots

DmrCalls == {"NONE", "VOICE", "DATA"}

\* A burst without a sync is told at most once, and a call is lost in time.
DmrCounts(slots) ==
  \A s \in slots : /\ noise[s] <= m_syncCount[s] /\ noise[s] < MaxSyncLost
                   /\ m_state[s] # "NONE" => m_syncCount[s] < MaxSyncLost

\* The number of a voice burst is its place in the superframe.
DmrNumbers(slots) ==
  \A s \in slots : m_state[s] = "VOICE" => m_n[s] = since[s] % (LastOfSuperframe + 1)

DmrInv(slots) ==
  /\ M(slots)!TypeOK /\ M(slots)!CarrierIsCall /\ DmrCounts(slots) /\ DmrNumbers(slots)
  /\ M(slots)!VoiceInPlace

\* What a burst with a sync may be told as.
DmrReports == {"header", "payload", "PI", "terminator", "CSBK", "voice"}

\* The next number is that of the next burst, after the last of a superframe that of the
\* sync.
LEMMA DmrNextInPlace ==
  ASSUME NEW m \in Nat \ {0}, NEW k \in Nat
  PROVE  /\ k % m \in 0 .. m - 1
         /\ k % m = m - 1 => (k + 1) % m = 0
         /\ k % m < m - 1 => (k + 1) % m = (k % m) + 1
<1>1. k % m \in 0 .. m - 1 /\ (k + 1) % m \in 0 .. m - 1
  OBVIOUS
<1>2. PICK q \in Int : k = m * q + (k % m)
  <2>1. k \div m \in Int /\ k = m * (k \div m) + (k % m)
    OBVIOUS
  <2>2. QED
    BY <2>1
<1>3. PICK p \in Int : k + 1 = m * p + ((k + 1) % m)
  <2>1. (k + 1) \div m \in Int /\ k + 1 = m * ((k + 1) \div m) + ((k + 1) % m)
    OBVIOUS
  <2>2. QED
    BY <2>1
<1>4. PICK r \in 0 .. m - 1, t \in 0 .. m - 1 : r = k % m /\ t = (k + 1) % m
  BY <1>1
<1>5. m * (p - q) = r + 1 - t
  BY <1>2, <1>3, <1>4
<1>6. p - q >= 2 => m * (p - q) >= 2 * m
  OBVIOUS
<1>7. p - q <= -1 => m * (p - q) <= -m
  OBVIOUS
<1>8. p - q = 1 => m * (p - q) = m
  OBVIOUS
<1>9. p - q = 0 => m * (p - q) = 0
  OBVIOUS
<1>10. p - q = 0 \/ p - q = 1
  BY <1>5, <1>6, <1>7
<1>11. r = m - 1 => t = 0
  BY <1>5, <1>8, <1>9, <1>10
<1>12. r < m - 1 => t = r + 1
  BY <1>5, <1>8, <1>9, <1>10
<1>13. QED
  BY <1>1, <1>4, <1>11, <1>12

\* The number of the next burst is its place.
LEMMA DmrNextIs ==
  ASSUME NEW slots, M(slots)!DmrRxAssumption, NEW n, NEW i \in Nat, n = i % (LastOfSuperframe + 1)
  PROVE  M(slots)!NextNumber(n) \in Nat /\ M(slots)!NextNumber(n) = (i + 1) % (LastOfSuperframe + 1)
<1>1. LastOfSuperframe \in Nat /\ LastOfSuperframe + 1 \in Nat \ {0}
  BY DEF M!DmrRxAssumption
<1>2. PICK m \in Nat \ {0} : m = LastOfSuperframe + 1
  BY <1>1
<1>3. /\ n \in 0 .. LastOfSuperframe
      /\ n = LastOfSuperframe => (i + 1) % (LastOfSuperframe + 1) = 0
      /\ n < LastOfSuperframe => (i + 1) % (LastOfSuperframe + 1) = n + 1
  <2>1. /\ i % m \in 0 .. m - 1
        /\ i % m = m - 1 => (i + 1) % m = 0
        /\ i % m < m - 1 => (i + 1) % m = (i % m) + 1
    BY DmrNextInPlace
  <2>2. PICK t : t = (i + 1) % m
    OBVIOUS
  <2>3. /\ n \in 0 .. m - 1 /\ (n = m - 1 => t = 0) /\ (n < m - 1 => t = n + 1)
    BY <1>2, <2>1, <2>2
  <2>4. /\ n \in 0 .. LastOfSuperframe /\ (n = LastOfSuperframe => t = 0)
        /\ (n < LastOfSuperframe => t = n + 1)
    BY <1>1, <1>2, <2>3
  <2>5. QED
    BY <1>2, <2>2, <2>4
<1>4. QED
  BY <1>1, <1>3 DEF M!NextNumber

\* A burst that does not end the call leaves room for the next.
LEMMA DmrCountIs ==
  ASSUME NEW slots, M(slots)!DmrRxAssumption, NEW i \in Nat, NEW j \in Nat, NEW k \in Nat, j <= k, j < MaxSyncLost
  PROVE  /\ ~M(slots)!TooManyLost(k + 1) => k + 1 < MaxSyncLost /\ j + 1 < MaxSyncLost /\ j + 1 <= k + 1
         /\ 0 <= k + 1 /\ 0 <= k /\ 0 < MaxSyncLost
         /\ k + 1 \in Nat /\ j + 1 \in Nat /\ i + 1 \in Nat /\ 0 \in Nat
  BY DEF M!DmrRxAssumption, M!TooManyLost

\* What the constants are, as numbers.
LEMMA DmrConstants ==
  ASSUME NEW slots, M(slots)!DmrRxAssumption
  PROVE  /\ MaxSyncLost \in Nat /\ 0 < MaxSyncLost /\ LastOfSuperframe \in Nat /\ 0 <= 0
         /\ 0 = 0 % (LastOfSuperframe + 1) /\ slots \subseteq {1, 2}
<1>1. MaxSyncLost \in Nat /\ 0 < MaxSyncLost /\ LastOfSuperframe \in Nat /\ slots \subseteq {1, 2}
  BY DEF M!DmrRxAssumption
<1>2. 0 <= 0 /\ 0 = 0 % (LastOfSuperframe + 1)
  BY <1>1
<1>3. QED
  BY <1>1, <1>2

\* The state of a slot after a burst of slot s.
LEMMA DmrEntered ==
  ASSUME NEW slots, m_state \in [slots -> DmrCalls], NEW s \in slots, NEW call \in DmrCalls, M(slots)!Enter(s, call)
  PROVE  /\ m_state' \in [slots -> DmrCalls] /\ m_dcd' \in BOOLEAN
         /\ m_state'[s] = call /\ \A t \in slots : t # s => m_state'[t] = m_state[t]
         /\ m_dcd' <=> \E t \in slots : m_state'[t] # "NONE"
<1>1. m_state' = [m_state EXCEPT ![s] = call]
  BY DEF M!Enter
<1>2. m_dcd' = \E t \in slots : m_state'[t] # "NONE"
  BY DEF M!Enter, M!Carrier
<1>3. m_state' \in [slots -> DmrCalls]
  BY <1>1
<1>4. m_state'[s] = call /\ \A t \in slots : t # s => m_state'[t] = m_state[t]
  BY <1>1
<1>5. QED
  BY <1>2, <1>3, <1>4

\* The slot a burst with a sync is told as.
LEMMA DmrSlotTold ==
  ASSUME NEW slots, NEW s, NEW what
  PROVE  M(slots)!Synced(s, what).slot \in {s, 1}
  BY DEF M!Synced, M!SlotToldSynced

\* A burst with a sync starts the counts again, and is told as what it is.
LEMMA DmrRenews ==
  ASSUME NEW slots, M(slots)!DmrRxAssumption, DmrInv(slots), NEW s \in slots, NEW call \in DmrCalls,
         M(slots)!Renew(s), M(slots)!Enter(s, call), m_type' \in [slots -> M(slots)!RateData \cup {""}],
         report' = M(slots)!None \/ \E what \in DmrReports : report' = M(slots)!Synced(s, what)
  PROVE  DmrInv(slots)'
<1>1. /\ m_state \in [slots -> DmrCalls] /\ m_syncCount \in [slots -> Nat] /\ m_n \in [slots -> Nat]
      /\ since \in [slots -> Nat] /\ noise \in [slots -> Nat] /\ foreign \in [slots -> BOOLEAN]
  BY DEF DmrInv, M!TypeOK, DmrCalls
<1>2. /\ m_state' \in [slots -> DmrCalls] /\ m_dcd' \in BOOLEAN
      /\ m_state'[s] = call /\ \A t \in slots : t # s => m_state'[t] = m_state[t]
      /\ m_dcd' <=> \E t \in slots : m_state'[t] # "NONE"
  BY <1>1, DmrEntered
<1>3. /\ m_syncCount' = [m_syncCount EXCEPT ![s] = 0] /\ m_n' = [m_n EXCEPT ![s] = 0]
      /\ since' = [since EXCEPT ![s] = 0] /\ noise' = [noise EXCEPT ![s] = 0]
      /\ foreign' = [foreign EXCEPT ![s] = FALSE]
  BY DEF M!Renew
<1>4. /\ m_syncCount' \in [slots -> Nat] /\ m_n' \in [slots -> Nat] /\ since' \in [slots -> Nat]
      /\ noise' \in [slots -> Nat] /\ foreign' \in [slots -> BOOLEAN]
  <2>1. 0 \in Nat
    OBVIOUS
  <2>2. QED
    BY <1>1, <1>3, <2>1
<1>5. /\ m_syncCount'[s] = 0 /\ m_n'[s] = 0 /\ since'[s] = 0 /\ noise'[s] = 0
      /\ \A t \in slots : t # s => /\ m_syncCount'[t] = m_syncCount[t] /\ m_n'[t] = m_n[t]
                                   /\ since'[t] = since[t] /\ noise'[t] = noise[t]
  BY <1>1, <1>3
<1>6. 0 < MaxSyncLost /\ 0 <= 0 /\ 0 = 0 % (LastOfSuperframe + 1) /\ slots \subseteq {1, 2}
  BY DmrConstants
<1>7. M(slots)!TypeOK'
  <2>1. report' = M(slots)!None \/ report'.slot \in {1, 2}
    <3>1. ASSUME NEW what \in DmrReports, report' = M(slots)!Synced(s, what) PROVE report'.slot \in {1, 2}
      <4>1. report'.slot \in {s, 1}
        BY <3>1, DmrSlotTold
      <4>2. QED
        BY <1>6, <4>1
    <3>2. QED
      BY <3>1
  <2>2. QED
    BY <1>2, <1>4, <2>1 DEF M!TypeOK, DmrCalls
<1>8. M(slots)!CarrierIsCall'
  BY <1>2 DEF M!CarrierIsCall
<1>9. DmrCounts(slots)'
  BY <1>2, <1>5, <1>6 DEF DmrCounts, DmrInv
<1>10. DmrNumbers(slots)'
  BY <1>2, <1>5, <1>6 DEF DmrNumbers, DmrInv
<1>11. M(slots)!VoiceInPlace'
  <2>1. report'.what # "late voice"
    <3>1. ASSUME NEW what \in DmrReports, report' = M(slots)!Synced(s, what) PROVE report'.what # "late voice"
      BY <3>1 DEF M!Synced, DmrReports
    <3>2. M(slots)!None.what # "late voice"
      BY DEF M!None
    <3>3. QED
      BY <3>1, <3>2
  <2>2. QED
    BY <2>1 DEF M!VoiceInPlace
<1>12. QED
  BY <1>7, <1>8, <1>9, <1>10, <1>11 DEF DmrInv

\* A report with a sync is of its slot.
LEMMA DmrSyncedIs ==
  ASSUME NEW slots, NEW s, NEW what
  PROVE  M(slots)!Synced(s, what).of = s /\ M(slots)!Synced(s, what).what = what
  BY DEF M!Synced

\* A data burst of the own colour keeps the invariant, and is told as payload, as an
\* encryption header or as a terminator only in a call.
LEMMA DmrDataSteps ==
  ASSUME NEW slots, M(slots)!DmrRxAssumption, DmrInv(slots), NEW s \in slots,
         NEW type \in M(slots)!DataTypes, M(slots)!BurstData(s, type)
  PROVE  DmrInv(slots)' /\ M(slots)!CallBegins
<1>1. m_state[s] \in DmrCalls /\ m_type \in [slots -> M(slots)!RateData \cup {""}]
  BY DEF DmrInv, M!TypeOK, DmrCalls
<1> DEFINE Begins(what) == what \in {"header", "voice", "CSBK"}
<1>2. ASSUME NEW call \in DmrCalls, M(slots)!Renew(s), M(slots)!Enter(s, call),
             m_type' \in [slots -> M(slots)!RateData \cup {""}],
             NEW what \in DmrReports, report' = M(slots)!Synced(s, what), m_state[s] # "NONE" \/ Begins(what)
      PROVE  DmrInv(slots)' /\ M(slots)!CallBegins
  <2>1. DmrInv(slots)'
    BY <1>2, DmrRenews
  <2>2. report'.of = s /\ report'.what = what
    <3>1. report' = M(slots)!Synced(s, what)
      BY <1>2
    <3>2. QED
      BY ONLY <3>1, DmrSyncedIs
  <2>3. QED
    BY <1>2, <2>1, <2>2 DEF M!CallBegins
<1>3. ASSUME NEW call \in DmrCalls, M(slots)!Renew(s), M(slots)!Enter(s, call),
             m_type' \in [slots -> M(slots)!RateData \cup {""}],
             report' = M(slots)!None
      PROVE  DmrInv(slots)' /\ M(slots)!CallBegins
  BY <1>3, DmrRenews DEF M!CallBegins
<1>4. CASE M(slots)!BurstDataHeader(s)
  <2>1. /\ M(slots)!Renew(s) /\ M(slots)!Enter(s, "DATA") /\ report' = M(slots)!Synced(s, "header")
        /\ m_type' = [m_type EXCEPT ![s] = ""]
    BY <1>4 DEF M!BurstDataHeader
  <2>2. m_type' \in [slots -> M(slots)!RateData \cup {""}]
    BY <1>1, <2>1
  <2>3. QED
    BY <1>2, <2>1, <2>2 DEF DmrCalls, DmrReports
<1>5. CASE M(slots)!BurstRateData(s, type)
  <2>1. M(slots)!Renew(s) /\ M(slots)!Enter(s, m_state[s]) /\ type \in M(slots)!RateData
    BY <1>5 DEF M!BurstRateData
  <2>2. CASE M(slots)!PayloadTaken(s)
    <3>1. report' = M(slots)!Synced(s, "payload") /\ m_type' = [m_type EXCEPT ![s] = type]
      BY <1>5, <2>2 DEF M!BurstRateData
    <3>2. m_type' \in [slots -> M(slots)!RateData \cup {""}] /\ m_state[s] # "NONE"
      BY <1>1, <2>1, <2>2, <3>1 DEF M!PayloadTaken
    <3>3. QED
      BY <1>1, <1>2, <2>1, <3>1, <3>2 DEF DmrReports
  <2>3. CASE ~M(slots)!PayloadTaken(s)
    <3>1. report' = M(slots)!None /\ m_type' = m_type
      BY <1>5, <2>3 DEF M!BurstRateData
    <3>2. QED
      BY <1>1, <1>3, <2>1, <3>1
  <2>4. QED
    BY <2>2, <2>3
<1>6. CASE M(slots)!BurstVoiceHeader(s)
  BY <1>1, <1>2, <1>6 DEF M!BurstVoiceHeader, DmrCalls, DmrReports
<1>7. CASE M(slots)!BurstVoicePI(s)
  <2>1. /\ M(slots)!Renew(s) /\ M(slots)!Enter(s, "VOICE") /\ m_type' = m_type
        /\ report' = (IF m_state[s] = "VOICE" THEN M(slots)!Synced(s, "PI") ELSE M(slots)!None)
    BY <1>7 DEF M!BurstVoicePI
  <2>2. CASE m_state[s] = "VOICE"
    BY <1>1, <1>2, <2>1, <2>2 DEF DmrCalls, DmrReports
  <2>3. CASE m_state[s] # "VOICE"
    BY <1>1, <1>3, <2>1, <2>3 DEF DmrCalls
  <2>4. QED
    BY <2>2, <2>3
<1>8. CASE M(slots)!BurstTerminator(s)
  <2>1. M(slots)!Renew(s) /\ m_type' = m_type
    BY <1>8 DEF M!BurstTerminator
  <2>2. CASE m_state[s] = "VOICE"
    <3>1. report' = M(slots)!Synced(s, "terminator") /\ M(slots)!Enter(s, "NONE")
      BY <1>8, <2>2 DEF M!BurstTerminator
    <3>2. QED
      BY <1>1, <1>2, <2>1, <2>2, <3>1 DEF DmrCalls, DmrReports
  <2>3. CASE m_state[s] # "VOICE"
    <3>1. report' = M(slots)!None /\ M(slots)!Enter(s, m_state[s])
      BY <1>8, <2>3 DEF M!BurstTerminator
    <3>2. QED
      BY <1>1, <1>3, <2>1, <3>1
  <2>4. QED
    BY <2>2, <2>3
<1>9. CASE M(slots)!BurstCSBK(s)
  BY <1>1, <1>2, <1>9 DEF M!BurstCSBK, DmrCalls, DmrReports
<1>10. QED
  BY <1>4, <1>5, <1>6, <1>7, <1>8, <1>9 DEF M!BurstData, M!DataTypes, M!RateData

\* A burst without a sync in a call: it is told by its place, or the call is lost.
LEMMA DmrWithoutSync ==
  ASSUME NEW slots, M(slots)!DmrRxAssumption, DmrInv(slots), NEW s \in slots, M(slots)!BurstWithoutSync(s)
  PROVE  DmrInv(slots)' /\ M(slots)!CallBegins
<1> DEFINE count == m_syncCount[s] + 1
           call == IF M(slots)!TooManyLost(count) THEN "NONE" ELSE m_state[s]
           counted == m_state[s] # "NONE"
           past == \/ call = "VOICE"
                   \/ call = "DATA" /\ m_type[s] # ""
<1>1. /\ m_state \in [slots -> DmrCalls] /\ m_syncCount \in [slots -> Nat] /\ m_n \in [slots -> Nat]
      /\ since \in [slots -> Nat] /\ noise \in [slots -> Nat] /\ foreign \in [slots -> BOOLEAN]
      /\ m_type \in [slots -> M(slots)!RateData \cup {""}]
  BY DEF DmrInv, M!TypeOK, DmrCalls
<1>2. /\ m_syncCount' = [m_syncCount EXCEPT ![s] = IF counted THEN count ELSE @]
      /\ M(slots)!Enter(s, call) /\ m_type' = m_type
      /\ m_n' = [m_n EXCEPT ![s] = IF call = "VOICE" THEN M(slots)!NextNumber(@) ELSE @]
      /\ since' = [since EXCEPT ![s] = IF call = "VOICE" THEN @ + 1 ELSE 0]
      /\ noise' = [noise EXCEPT ![s] = IF past THEN @ + 1 ELSE 0]
      /\ foreign' = [foreign EXCEPT ![s] = @ /\ call # "NONE"]
  BY DEF M!BurstWithoutSync
<1>3. report' = CASE call = "VOICE" -> M(slots)!Told(s, "late voice", M(slots)!NextNumber(m_n[s]))
                  [] call # "VOICE" /\ past -> M(slots)!Told(s, "late data", 0)
                  [] counted /\ call = "NONE" -> M(slots)!Told(s, "lost", 0)
                  [] OTHER -> M(slots)!None
  BY DEF M!BurstWithoutSync
<1>4. call \in DmrCalls /\ (counted \/ call = "NONE") /\ (past => call # "NONE")
  BY <1>1 DEF DmrCalls
<1>5. call # "NONE" => ~M(slots)!TooManyLost(count) /\ call = m_state[s] /\ counted
  OBVIOUS
<1>6. /\ m_state' \in [slots -> DmrCalls] /\ m_dcd' \in BOOLEAN
      /\ m_state'[s] = call /\ \A t \in slots : t # s => m_state'[t] = m_state[t]
      /\ m_dcd' <=> \E t \in slots : m_state'[t] # "NONE"
  BY <1>1, <1>2, <1>4, DmrEntered
<1> HIDE DEF call, counted, past
<1>7. /\ m_syncCount'[s] = (IF counted THEN count ELSE m_syncCount[s])
      /\ m_n'[s] = (IF call = "VOICE" THEN M(slots)!NextNumber(m_n[s]) ELSE m_n[s])
      /\ since'[s] = (IF call = "VOICE" THEN since[s] + 1 ELSE 0)
      /\ noise'[s] = (IF past THEN noise[s] + 1 ELSE 0)
      /\ \A t \in slots : t # s => /\ m_syncCount'[t] = m_syncCount[t] /\ m_n'[t] = m_n[t]
                                   /\ since'[t] = since[t] /\ noise'[t] = noise[t]
  BY <1>1, <1>2
<1>8. PICK k \in Nat, n \in Nat, i \in Nat, j \in Nat :
        k = m_syncCount[s] /\ n = m_n[s] /\ i = since[s] /\ j = noise[s]
  BY <1>1
<1>9. j <= k /\ j < MaxSyncLost
  BY <1>8 DEF DmrInv, DmrCounts
<1>10. /\ call = "VOICE" => M(slots)!NextNumber(n) \in Nat /\ M(slots)!NextNumber(n) = (i + 1) % (LastOfSuperframe + 1)
  <2>1. ASSUME call = "VOICE"
        PROVE  M(slots)!NextNumber(n) \in Nat /\ M(slots)!NextNumber(n) = (i + 1) % (LastOfSuperframe + 1)
    <3>1. n = i % (LastOfSuperframe + 1)
      BY <1>5, <1>8, <2>1 DEF DmrInv, DmrNumbers
    <3>2. QED
      BY <1>8, <3>1, DmrNextIs
  <2>2. QED
    BY <2>1
<1>11. /\ ~M(slots)!TooManyLost(k + 1) => k + 1 < MaxSyncLost /\ j + 1 < MaxSyncLost /\ j + 1 <= k + 1
       /\ 0 <= k + 1 /\ 0 <= k /\ 0 < MaxSyncLost /\ k + 1 \in Nat /\ j + 1 \in Nat /\ i + 1 \in Nat /\ 0 \in Nat
  BY <1>9, DmrCountIs
<1>12. /\ m_syncCount' \in [slots -> Nat] /\ m_n' \in [slots -> Nat] /\ since' \in [slots -> Nat]
       /\ noise' \in [slots -> Nat] /\ foreign' \in [slots -> BOOLEAN]
  <2>1. (IF counted THEN count ELSE m_syncCount[s]) \in Nat
    BY <1>8, <1>11
  <2>2. (IF call = "VOICE" THEN M(slots)!NextNumber(m_n[s]) ELSE m_n[s]) \in Nat
    BY <1>8, <1>10
  <2>3. (IF call = "VOICE" THEN since[s] + 1 ELSE 0) \in Nat /\ (IF past THEN noise[s] + 1 ELSE 0) \in Nat
    BY <1>8, <1>11
  <2>4. (foreign[s] /\ call # "NONE") \in BOOLEAN
    OBVIOUS
  <2>5. foreign' \in [slots -> BOOLEAN]
    BY <1>1, <1>2, <2>4
  <2>6. QED
    BY <1>1, <1>2, <2>1, <2>2, <2>3, <2>5
<1>13. M(slots)!CarrierIsCall'
  BY <1>6 DEF M!CarrierIsCall
<1>14. DmrCounts(slots)'
  <2>1. /\ noise'[s] <= m_syncCount'[s] /\ noise'[s] < MaxSyncLost
        /\ m_state'[s] # "NONE" => m_syncCount'[s] < MaxSyncLost
    <3>1. CASE past
      BY <1>4, <1>5, <1>7, <1>8, <1>11, <3>1
    <3>2. CASE ~past
      <4>1. noise'[s] = 0 /\ (m_syncCount'[s] = k + 1 \/ m_syncCount'[s] = k)
        BY <1>7, <1>8, <3>2
      <4>2. m_state'[s] # "NONE" => m_syncCount'[s] = k + 1 /\ ~M(slots)!TooManyLost(k + 1)
        BY <1>5, <1>6, <1>7, <1>8
      <4>3. QED
        BY <1>11, <4>1, <4>2
    <3>3. QED
      BY <3>1, <3>2
  <2>2. QED
    BY <1>6, <1>7, <2>1 DEF DmrCounts, DmrInv
<1>15. DmrNumbers(slots)'
  <2>1. m_state'[s] = "VOICE" => m_n'[s] = since'[s] % (LastOfSuperframe + 1)
    BY <1>6, <1>7, <1>8, <1>10
  <2>2. QED
    BY <1>6, <1>7, <2>1 DEF DmrNumbers, DmrInv
<1>16. /\ call = "VOICE" => report' = M(slots)!Told(s, "late voice", M(slots)!NextNumber(n))
       /\ call # "VOICE" => report' = M(slots)!None \/ \E what \in {"late data", "lost"} : report' = M(slots)!Told(s, what, 0)
       /\ ~counted => report' = M(slots)!None
  <2>1. call = "VOICE" => report' = M(slots)!Told(s, "late voice", M(slots)!NextNumber(n))
    BY <1>3, <1>8
  <2>2. call # "VOICE" => report' = M(slots)!None \/ \E what \in {"late data", "lost"} : report' = M(slots)!Told(s, what, 0)
    <3>1. CASE call # "VOICE" /\ past
      <4>1. report' = M(slots)!Told(s, "late data", 0)
        BY <1>3, <1>4, <3>1
      <4>2. QED
        BY <4>1
    <3>2. CASE call # "VOICE" /\ ~past /\ counted /\ call = "NONE"
      <4>1. report' = M(slots)!Told(s, "lost", 0)
        BY <1>3, <3>2
      <4>2. QED
        BY <4>1
    <3>3. CASE call # "VOICE" /\ ~past /\ ~(counted /\ call = "NONE")
      <4>1. report' = M(slots)!None
        BY <1>3, <3>3
      <4>2. QED
        BY <4>1
    <3>4. QED
      BY <3>1, <3>2, <3>3
  <2>3. ~counted => report' = M(slots)!None
    <3>1. ~counted => call # "VOICE" /\ ~past
      BY <1>4
    <3>2. QED
      BY <1>3, <3>1
  <2>4. QED
    BY <2>1, <2>2, <2>3
<1>17. ASSUME NEW what, NEW num, report' = M(slots)!Told(s, what, num)
       PROVE  report'.what = what /\ report'.slot = s /\ report'.of = s /\ report'.n = num
  BY <1>17 DEF M!Told
<1>18. M(slots)!VoiceInPlace'
  <2>1. CASE call = "VOICE"
    <3>1. report'.of = s /\ report'.n = since'[s] % (LastOfSuperframe + 1)
      BY <1>7, <1>8, <1>10, <1>16, <1>17, <2>1
    <3>2. QED
      BY <3>1 DEF M!VoiceInPlace
  <2>2. CASE call # "VOICE"
    <3>1. M(slots)!None.what # "late voice"
      BY DEF M!None
    <3>2. report'.what # "late voice"
      BY <1>16, <1>17, <2>2, <3>1
    <3>3. QED
      BY <3>2 DEF M!VoiceInPlace
  <2>3. QED
    BY <2>1, <2>2
<1>19. M(slots)!TypeOK'
  <2>1. s \in {1, 2}
    BY DmrConstants
  <2>2. report' = M(slots)!None \/ report'.slot \in {1, 2}
    BY <1>16, <1>17, <2>1
  <2>3. QED
    BY <1>1, <1>2, <1>6, <1>12, <2>2 DEF M!TypeOK, DmrCalls
<1>20. M(slots)!CallBegins
  <2>1. report' # M(slots)!None => report'.of = s /\ counted
    BY <1>16, <1>17
  <2>2. QED
    BY <2>1 DEF M!CallBegins, counted
<1>21. QED
  BY <1>13, <1>14, <1>15, <1>18, <1>19, <1>20 DEF DmrInv

\* A burst of another colour: nothing at all.
LEMMA DmrForeignSteps ==
  ASSUME NEW slots, M(slots)!DmrRxAssumption, DmrInv(slots), NEW s \in slots, M(slots)!BurstForeign(s)
  PROVE  DmrInv(slots)' /\ M(slots)!CallBegins
<1>1. /\ report' = M(slots)!None /\ foreign' = [foreign EXCEPT ![s] = TRUE] /\ M(slots)!Enter(s, m_state[s])
      /\ m_syncCount' = m_syncCount /\ m_n' = m_n /\ m_type' = m_type /\ since' = since /\ noise' = noise
  BY DEF M!BurstForeign
<1>2. m_state \in [slots -> DmrCalls] /\ m_state[s] \in DmrCalls /\ foreign \in [slots -> BOOLEAN]
  BY DEF DmrInv, M!TypeOK, DmrCalls
<1>3. /\ m_state' \in [slots -> DmrCalls] /\ m_dcd' \in BOOLEAN
      /\ m_state'[s] = m_state[s] /\ \A t \in slots : t # s => m_state'[t] = m_state[t]
      /\ m_dcd' <=> \E t \in slots : m_state'[t] # "NONE"
  BY <1>1, <1>2, DmrEntered
<1>4. \A t \in slots : m_state'[t] = m_state[t]
  BY <1>3
<1>5. foreign' \in [slots -> BOOLEAN]
  BY <1>1, <1>2
<1>6. M(slots)!TypeOK'
  BY <1>1, <1>3, <1>5 DEF M!TypeOK, DmrInv, DmrCalls
<1>7. M(slots)!CarrierIsCall' /\ M(slots)!CallBegins
  BY <1>1, <1>3 DEF M!CarrierIsCall, M!CallBegins
<1>8. DmrCounts(slots)' /\ DmrNumbers(slots)'
  BY <1>1, <1>4 DEF DmrInv, DmrCounts, DmrNumbers
<1>9. M(slots)!VoiceInPlace'
  <2>1. M(slots)!None.what # "late voice"
    BY DEF M!None
  <2>2. QED
    BY <1>1, <2>1 DEF M!VoiceInPlace
<1>10. QED
  BY <1>6, <1>7, <1>8, <1>9 DEF DmrInv

\* Every step keeps the invariant, and what is told of a call is told in it.
LEMMA DmrSteps ==
  ASSUME NEW slots, M(slots)!DmrRxAssumption, DmrInv(slots), M(slots)!Next
  PROVE  DmrInv(slots)' /\ M(slots)!CallBegins
<1>1. CASE M(slots)!Reset
  <2>1. /\ m_state' = [s \in slots |-> "NONE"] /\ m_syncCount' = [s \in slots |-> 0] /\ report' = M(slots)!None
        /\ since' = [s \in slots |-> 0] /\ noise' = [s \in slots |-> 0]
        /\ foreign' = [s \in slots |-> FALSE] /\ m_n' = m_n /\ m_type' = m_type /\ m_dcd' = m_dcd
    BY <1>1 DEF M!Reset
  <2>2. M(slots)!TypeOK'
    <3>1. 0 \in Nat
      OBVIOUS
    <3>2. QED
      BY <2>1, <3>1 DEF M!TypeOK, DmrInv
  <2>3. M(slots)!CarrierIsCall' /\ M(slots)!CallBegins
    BY <2>1 DEF M!CarrierIsCall, M!CallBegins
  <2>4. DmrCounts(slots)' /\ DmrNumbers(slots)'
    BY <2>1, DmrConstants DEF DmrCounts, DmrNumbers
  <2>5. M(slots)!None.what # "late voice"
    BY DEF M!None
  <2>6. M(slots)!VoiceInPlace'
    BY <2>1, <2>5 DEF M!VoiceInPlace
  <2>7. QED
    BY <2>2, <2>3, <2>4, <2>6 DEF DmrInv
<1>2. ASSUME NEW s \in slots, NEW sync \in M(slots)!Syncs, M(slots)!Burst(s, sync)
      PROVE  DmrInv(slots)' /\ M(slots)!CallBegins
  <2>1. CASE sync.kind = ""
    BY <1>2, <2>1, DmrWithoutSync DEF M!Burst
  <2>2. CASE sync.kind = "voice"
    <3>1. M(slots)!BurstVoiceSync(s)
      BY <1>2, <2>2 DEF M!Burst
    <3>2. M(slots)!Renew(s) /\ report' = M(slots)!Synced(s, "voice") /\ M(slots)!Enter(s, "VOICE") /\ m_type' = m_type
      BY <3>1 DEF M!BurstVoiceSync
    <3>3. m_type' \in [slots -> M(slots)!RateData \cup {""}]
      BY <3>2 DEF DmrInv, M!TypeOK
    <3>4. DmrInv(slots)'
      BY <3>2, <3>3, DmrRenews DEF DmrReports, DmrCalls
    <3>5. M(slots)!CallBegins
      BY <3>2, DmrSyncedIs DEF M!CallBegins
    <3>6. QED
      BY <3>4, <3>5
  <2>3. CASE sync.kind = "foreign"
    <3>1. M(slots)!BurstForeign(s)
      BY <1>2, <2>3 DEF M!Burst
    <3>2. QED
      BY <3>1, DmrForeignSteps
  <2>4. CASE sync.kind = "data"
    <3>1. M(slots)!BurstData(s, sync.type) /\ sync.type \in M(slots)!DataTypes
      BY <1>2, <2>4 DEF M!Burst, M!Syncs
    <3>2. QED
      BY <3>1, DmrDataSteps
  <2>5. sync.kind \in {"", "voice", "foreign", "data"}
    BY DEF M!Syncs
  <2>6. QED
    BY <2>1, <2>2, <2>3, <2>4, <2>5
<1>3. QED
  BY <1>1, <1>2 DEF M!Next

\* And the receivers begin with it.
LEMMA DmrBegins ==
  ASSUME NEW slots, M(slots)!DmrRxAssumption, M(slots)!Init
  PROVE  DmrInv(slots)
<1>1. /\ m_state = [s \in slots |-> "NONE"] /\ m_syncCount = [s \in slots |-> 0]
      /\ m_n = [s \in slots |-> 0] /\ m_type = [s \in slots |-> ""] /\ m_dcd = FALSE
      /\ report = M(slots)!None /\ since = [s \in slots |-> 0] /\ noise = [s \in slots |-> 0]
      /\ foreign = [s \in slots |-> FALSE]
  BY DEF M!Init
<1>2. M(slots)!TypeOK
  <2>1. 0 \in Nat
    OBVIOUS
  <2>2. QED
    BY <1>1, <2>1 DEF M!TypeOK
<1>3. M(slots)!CarrierIsCall
  BY <1>1 DEF M!CarrierIsCall
<1>4. DmrCounts(slots) /\ DmrNumbers(slots)
  BY <1>1, DmrConstants DEF DmrCounts, DmrNumbers
<1>5. M(slots)!None.what # "late voice"
  BY DEF M!None
<1>6. M(slots)!VoiceInPlace
  BY <1>1, <1>5 DEF M!VoiceInPlace
<1>7. QED
  BY <1>2, <1>3, <1>4, <1>6 DEF DmrInv

LEMMA DmrNoise ==
  ASSUME NEW slots, DmrInv(slots)
  PROVE  M(slots)!NoiseIsBounded
  BY DEF DmrInv, DmrCounts, M!NoiseIsBounded
LEMMA DmrStays ==
  ASSUME NEW slots, DmrInv(slots), UNCHANGED M(slots)!vars
  PROVE  DmrInv(slots)'
<1>1. /\ m_state' = m_state /\ m_syncCount' = m_syncCount /\ m_n' = m_n /\ m_type' = m_type
      /\ m_dcd' = m_dcd /\ report' = report /\ since' = since /\ noise' = noise /\ foreign' = foreign
  BY Zenon DEF M!vars
<1>2. M(slots)!TypeOK'
  BY <1>1, Zenon DEF DmrInv, M!TypeOK
<1>3. M(slots)!CarrierIsCall'
  BY <1>1, Zenon DEF DmrInv, M!CarrierIsCall
<1>4. DmrCounts(slots)' /\ DmrNumbers(slots)'
  BY <1>1, Zenon DEF DmrInv, DmrCounts, DmrNumbers
<1>5. M(slots)!VoiceInPlace'
  BY <1>1, Zenon DEF DmrInv, M!VoiceInPlace
<1>6. QED
  BY <1>2, <1>3, <1>4, <1>5 DEF DmrInv

LEMMA RepeaterSame ==
  /\ R!Init <=> M({1, 2})!Init
  /\ R!Next <=> M({1, 2})!Next
  /\ R!TypeOK <=> M({1, 2})!TypeOK
  /\ R!CarrierIsCall <=> M({1, 2})!CarrierIsCall
  /\ R!NoiseIsBounded <=> M({1, 2})!NoiseIsBounded
  /\ R!VoiceInPlace <=> M({1, 2})!VoiceInPlace
  /\ R!CallBegins <=> M({1, 2})!CallBegins
<1>1. R!Init <=> M({1, 2})!Init
  BY DEF R!Init, M!Init, R!None, M!None
<1>2. R!Next <=> M({1, 2})!Next
  BY DEF R!Next, R!Reset, R!Burst, R!Syncs, R!DataTypes, R!RateData, R!BurstWithoutSync,
     R!BurstVoiceSync, R!BurstForeign, R!BurstData, R!BurstDataHeader, R!BurstRateData,
     R!BurstVoiceHeader, R!BurstVoicePI, R!BurstTerminator, R!BurstCSBK, R!Renew, R!Enter,
     R!Carrier, R!Synced, R!SlotToldSynced, R!Told, R!None, R!PayloadTaken, R!TooManyLost,
     R!NextNumber, M!Next, M!Reset, M!Burst, M!Syncs, M!DataTypes, M!RateData,
     M!BurstWithoutSync, M!BurstVoiceSync, M!BurstForeign, M!BurstData,
     M!BurstDataHeader, M!BurstRateData, M!BurstVoiceHeader, M!BurstVoicePI,
     M!BurstTerminator, M!BurstCSBK, M!Renew, M!Enter, M!Carrier, M!Synced,
     M!SlotToldSynced, M!Told, M!None, M!PayloadTaken, M!TooManyLost, M!NextNumber
<1>3. R!TypeOK <=> M({1, 2})!TypeOK
  BY DEF R!TypeOK, M!TypeOK, R!None, M!None, R!RateData, M!RateData
<1>4. R!CarrierIsCall <=> M({1, 2})!CarrierIsCall
  BY DEF R!CarrierIsCall, M!CarrierIsCall, R!None, M!None
<1>5. R!NoiseIsBounded <=> M({1, 2})!NoiseIsBounded
  BY DEF R!NoiseIsBounded, M!NoiseIsBounded
<1>6. R!VoiceInPlace <=> M({1, 2})!VoiceInPlace
  BY DEF R!VoiceInPlace, M!VoiceInPlace
<1>7. R!CallBegins <=> M({1, 2})!CallBegins
  BY DEF R!CallBegins, M!CallBegins, R!None, M!None
<1>8. QED
  BY <1>1, <1>2, <1>3, <1>4, <1>5, <1>6, <1>7

LEMMA RepeaterAssumed ==
  M({1, 2})!DmrRxAssumption
BY ConstantsFit DEF R!DmrRxAssumption, M!DmrRxAssumption

LEMMA RepeaterSteps ==
  ASSUME DmrInv({1, 2}), R!Next
  PROVE  DmrInv({1, 2})' /\ R!CallBegins
<1>1. M({1, 2})!Next
  BY RepeaterSame
<1>2. DmrInv({1, 2})' /\ M({1, 2})!CallBegins
  BY <1>1, RepeaterAssumed, DmrSteps
<1>3. QED
  BY <1>2, RepeaterSame

LEMMA RepeaterBegins ==
  ASSUME R!Init
  PROVE  DmrInv({1, 2})
<1>1. M({1, 2})!Init
  BY RepeaterSame
<1>2. QED
  BY <1>1, RepeaterAssumed, DmrBegins

LEMMA RepeaterKept ==
  ASSUME DmrInv({1, 2})
  PROVE  R!TypeOK /\ R!CarrierIsCall /\ R!NoiseIsBounded /\ R!VoiceInPlace
<1>1. M({1, 2})!TypeOK /\ M({1, 2})!CarrierIsCall /\ M({1, 2})!VoiceInPlace
  BY DEF DmrInv
<1>2. M({1, 2})!NoiseIsBounded
  BY DmrNoise
<1>3. QED
  BY <1>1, <1>2, RepeaterSame

LEMMA DirectSame ==
  /\ D!Init <=> M({2})!Init
  /\ D!Next <=> M({2})!Next
  /\ D!TypeOK <=> M({2})!TypeOK
  /\ D!CarrierIsCall <=> M({2})!CarrierIsCall
  /\ D!NoiseIsBounded <=> M({2})!NoiseIsBounded
  /\ D!VoiceInPlace <=> M({2})!VoiceInPlace
  /\ D!CallBegins <=> M({2})!CallBegins
<1>1. D!Init <=> M({2})!Init
  BY DEF D!Init, M!Init, D!None, M!None
<1>2. D!Next <=> M({2})!Next
  BY DEF D!Next, D!Reset, D!Burst, D!Syncs, D!DataTypes, D!RateData, D!BurstWithoutSync,
     D!BurstVoiceSync, D!BurstForeign, D!BurstData, D!BurstDataHeader, D!BurstRateData,
     D!BurstVoiceHeader, D!BurstVoicePI, D!BurstTerminator, D!BurstCSBK, D!Renew, D!Enter,
     D!Carrier, D!Synced, D!SlotToldSynced, D!Told, D!None, D!PayloadTaken, D!TooManyLost,
     D!NextNumber, M!Next, M!Reset, M!Burst, M!Syncs, M!DataTypes, M!RateData,
     M!BurstWithoutSync, M!BurstVoiceSync, M!BurstForeign, M!BurstData,
     M!BurstDataHeader, M!BurstRateData, M!BurstVoiceHeader, M!BurstVoicePI,
     M!BurstTerminator, M!BurstCSBK, M!Renew, M!Enter, M!Carrier, M!Synced,
     M!SlotToldSynced, M!Told, M!None, M!PayloadTaken, M!TooManyLost, M!NextNumber
<1>3. D!TypeOK <=> M({2})!TypeOK
  BY DEF D!TypeOK, M!TypeOK, D!None, M!None, D!RateData, M!RateData
<1>4. D!CarrierIsCall <=> M({2})!CarrierIsCall
  BY DEF D!CarrierIsCall, M!CarrierIsCall, D!None, M!None
<1>5. D!NoiseIsBounded <=> M({2})!NoiseIsBounded
  BY DEF D!NoiseIsBounded, M!NoiseIsBounded
<1>6. D!VoiceInPlace <=> M({2})!VoiceInPlace
  BY DEF D!VoiceInPlace, M!VoiceInPlace
<1>7. D!CallBegins <=> M({2})!CallBegins
  BY DEF D!CallBegins, M!CallBegins, D!None, M!None
<1>8. QED
  BY <1>1, <1>2, <1>3, <1>4, <1>5, <1>6, <1>7

LEMMA DirectAssumed ==
  M({2})!DmrRxAssumption
BY ConstantsFit DEF D!DmrRxAssumption, M!DmrRxAssumption

LEMMA DirectSteps ==
  ASSUME DmrInv({2}), D!Next
  PROVE  DmrInv({2})' /\ D!CallBegins
<1>1. M({2})!Next
  BY DirectSame
<1>2. DmrInv({2})' /\ M({2})!CallBegins
  BY <1>1, DirectAssumed, DmrSteps
<1>3. QED
  BY <1>2, DirectSame

LEMMA DirectBegins ==
  ASSUME D!Init
  PROVE  DmrInv({2})
<1>1. M({2})!Init
  BY DirectSame
<1>2. QED
  BY <1>1, DirectAssumed, DmrBegins

LEMMA DirectKept ==
  ASSUME DmrInv({2})
  PROVE  D!TypeOK /\ D!CarrierIsCall /\ D!NoiseIsBounded /\ D!VoiceInPlace
<1>1. M({2})!TypeOK /\ M({2})!CarrierIsCall /\ M({2})!VoiceInPlace
  BY DEF DmrInv
<1>2. M({2})!NoiseIsBounded
  BY DmrNoise
<1>3. QED
  BY <1>1, <1>2, DirectSame
=============================================================================
