------------------------------- MODULE NxdnRx -------------------------------
(***************************************************************************)
(* NXDNRX: the NXDN receiver of a modem.                                   *)
(*                                                                         *)
(* The receiver writes each sample into a ring of one frame and looks for  *)
(* the frame sync word (FSW).  What the correlator makes of the samples is *)
(* data: Correlate chooses whether a sync is seen, and how strong it is.   *)
(* The pointers into the ring, the window the sync is looked for in, the   *)
(* count of frames without a sync and the reports to the host are the      *)
(* code's.  Centre and threshold, the RSSI and the bit ring are left out.  *)
(***************************************************************************)
EXTENDS Integers, FiniteSets

CONSTANTS
  FrameLen,        \* NXDN_FRAME_LENGTH_SAMPLES
  FswLen,          \* NXDN_FSW_LENGTH_SAMPLES
  MaxFswFrames,    \* MAX_FSW_FRAMES
  CorrCountdown,   \* m_corrCountdown
  Strengths        \* strengths of a correlation, above 0

\* What is assumed of the constants; the module that gives them values checks it.
NxdnRxAssumption ==
  /\ FrameLen \in Nat /\ FswLen \in Nat \ {0, 1}
  /\ FswLen + CorrCountdown + 2 < FrameLen
  /\ MaxFswFrames \in Nat \ {0, 1}
  /\ CorrCountdown \in Nat /\ CorrCountdown > 1
  /\ Strengths \subseteq Nat \ {0}

NOENDPTR == FrameLen \* any value no index of the ring has; the code's is 9999

VARIABLES
  m_state,         \* "NONE" or "DATA"
  m_dataPtr,       \* where the next sample goes
  m_endPtr,        \* the sample at which the frame is taken
  m_fswPtr,        \* where the last sync was seen
  m_minFSWPtr, m_maxFSWPtr,  \* the window of the next sync
  m_maxCorr,       \* the strongest sync of this frame
  m_lostCount,     \* frames without a sync until the lock is lost
  m_countdown,     \* samples until the lock, 0 when no sync was seen
  m_dcd,           \* Modem::m_dcd
  \* bookkeeping
  report,          \* what the last sample gave the host: "", "sync", "data" or "lost"
  since,           \* samples since the last frame was taken, or since the lock's first one began
  unsynced,        \* frames since the last one that saw a sync
  seen,            \* a sync was seen since the last frame
  carried          \* m_dcd was on when the receiver was reset

ringVars == <<m_dataPtr, m_endPtr, m_fswPtr, m_minFSWPtr, m_maxFSWPtr>>
syncVars == <<m_state, m_maxCorr, m_lostCount, m_countdown>>
obsVars  == <<report, since, unsynced, seen, carried>>
vars == <<ringVars, syncVars, m_dcd, obsVars>>

\* Sums of pointers wrap at the end of the ring.
Wrap(ptr) == ptr % FrameLen

Init ==
  /\ m_state = "NONE" /\ m_dataPtr = 0 /\ m_endPtr = NOENDPTR
  /\ m_fswPtr = NOENDPTR /\ m_minFSWPtr = NOENDPTR /\ m_maxFSWPtr = NOENDPTR
  /\ m_maxCorr = 0 /\ m_lostCount = 0 /\ m_countdown = 0 /\ m_dcd = FALSE
  /\ report = "" /\ since = 0 /\ unsynced = 0 /\ seen = FALSE /\ carried = FALSE

-----------------------------------------------------------------------------
(* The correlator *)

\* Mutant: the end is counted from the start of the sync.
EndOfFrameFromStart(fsw) == Wrap(fsw + FrameLen - 1)

\* The sync is the first part of a frame, and fsw its last sample.  A frame is
\* taken one sample before the last one it is read from has come in.
EndOfFrame(fsw) == Wrap(fsw + FrameLen - FswLen - 1)

\* correlateSync(): 0 for no sync, or the strength of one that beats those
\* before it.
Syncs == {0} \cup {c \in Strengths : c > m_maxCorr}

\* The window around the place of the last sync, which may span the ring's end.
InWindow(min, max) ==
  IF min < max THEN m_dataPtr >= min /\ m_dataPtr <= max
               ELSE m_dataPtr >= min \/ m_dataPtr <= max

\* What a sync does, or its absence.
Seen(corr) ==
  IF corr = 0 THEN UNCHANGED <<m_fswPtr, seen>>
  ELSE m_fswPtr' = m_dataPtr /\ seen' = TRUE

Advance == m_dataPtr' = Wrap(m_dataPtr + 1)

-----------------------------------------------------------------------------
(* samples(): one sample *)

\* The countdown after this sample; the first sync starts it.
StepDown(corr) ==
  LET started == IF corr # 0 /\ m_countdown = 0 THEN CorrCountdown ELSE m_countdown
  IN  IF started > 0 THEN started - 1 ELSE 0

\* processSample(): looking for a first sync, and once there is one, for a
\* stronger one while the countdown runs.
SampleSearch ==
  /\ m_state = "NONE"
  /\ \E corr \in Syncs :
       LET down == StepDown(corr)
           first == corr # 0 /\ m_countdown = 0
           fsw == IF corr = 0 THEN m_fswPtr ELSE m_dataPtr
       IN  /\ Seen(corr)
           /\ m_dcd' = (m_dcd \/ first)
           /\ carried' = (carried /\ ~first)
           /\ IF corr = 0 THEN UNCHANGED <<m_maxCorr, m_lostCount, m_endPtr>>
              ELSE /\ m_maxCorr' = corr /\ m_lostCount' = MaxFswFrames
                   /\ m_endPtr' = EndOfFrame(m_dataPtr)
           /\ IF down = 1
              THEN /\ m_state' = "DATA" /\ m_countdown' = 0
                   /\ m_minFSWPtr' = Wrap(fsw + FrameLen - 1) /\ m_maxFSWPtr' = Wrap(fsw + 1)
              ELSE /\ m_countdown' = down
                   /\ UNCHANGED <<m_state, m_minFSWPtr, m_maxFSWPtr>>
           /\ since' = IF corr # 0 THEN FswLen + 1 ELSE IF down = 0 THEN 0 ELSE since + 1
  /\ unsynced' = 0 /\ report' = ""
  /\ Advance

\* Mutant: the count is not renewed by a sync.
FramesLeftKept(corr) == IF corr = 0 \/ m_lostCount > 1 THEN m_lostCount ELSE MaxFswFrames

\* Every sync renews the count.
FramesLeft(corr) == IF corr = 0 THEN m_lostCount ELSE MaxFswFrames

\* processData() before the frame is complete.
SampleInFrame ==
  /\ m_state = "DATA"
  /\ \E corr \in IF InWindow(m_minFSWPtr, m_maxFSWPtr) THEN Syncs ELSE {0} :
       LET end == IF corr = 0 THEN m_endPtr ELSE EndOfFrame(m_dataPtr) IN
       /\ m_dataPtr # end
       /\ Seen(corr) /\ m_endPtr' = end
       /\ m_maxCorr' = (IF corr = 0 THEN m_maxCorr ELSE corr)
       /\ m_lostCount' = FramesLeft(corr)
  /\ since' = since + 1 /\ report' = ""
  /\ UNCHANGED <<m_state, m_minFSWPtr, m_maxFSWPtr, m_countdown, m_dcd, unsynced, carried>>
  /\ Advance

\* The window moves after a frame that had a sync.
Window(fsw) ==
  IF m_lostCount = MaxFswFrames THEN <<Wrap(fsw + FrameLen - 1), Wrap(fsw + 1)>>
                                ELSE <<m_minFSWPtr, m_maxFSWPtr>>

\* Mutant: the carrier is left on.
LoseKeepingCarrier ==
  /\ UNCHANGED <<m_dcd, carried>> /\ report' = "lost"
  /\ m_state' = "NONE" /\ m_endPtr' = NOENDPTR /\ m_countdown' = 0

Lose ==
  /\ m_dcd' = FALSE /\ carried' = FALSE /\ report' = "lost"
  /\ m_state' = "NONE" /\ m_endPtr' = NOENDPTR /\ m_countdown' = 0

\* Mutant: the count is looked at before the decrement.
LastChanceBefore == m_lostCount = 0

LastChance == m_lostCount = 1

\* processData() at the last sample of a frame, which the window never holds:
\* the frame is reported, flagged when it had a sync, or the lock is lost.
SampleEndsFrame ==
  /\ m_state = "DATA" /\ m_dataPtr = m_endPtr
  /\ m_minFSWPtr' = Window(m_fswPtr)[1] /\ m_maxFSWPtr' = Window(m_fswPtr)[2]
  /\ m_lostCount' = m_lostCount - 1
  /\ m_maxCorr' = 0
  /\ IF LastChance THEN Lose
     ELSE /\ report' = IF m_lostCount = MaxFswFrames THEN "sync" ELSE "data"
          /\ UNCHANGED <<m_dcd, carried, m_state, m_endPtr, m_countdown>>
  /\ since' = 0 /\ seen' = FALSE
  /\ unsynced' = IF seen THEN 0 ELSE unsynced + 1
  /\ UNCHANGED m_fswPtr
  /\ Advance

\* reset(), from a change of the modem's mode.  It does not reach m_dcd.
Reset ==
  /\ m_state' = "NONE" /\ m_dataPtr' = 0 /\ m_endPtr' = NOENDPTR
  /\ m_fswPtr' = NOENDPTR /\ m_minFSWPtr' = NOENDPTR /\ m_maxFSWPtr' = NOENDPTR
  /\ m_maxCorr' = 0 /\ m_lostCount' = 0 /\ m_countdown' = 0
  /\ carried' = m_dcd
  /\ report' = "" /\ since' = 0 /\ unsynced' = 0 /\ seen' = FALSE
  /\ UNCHANGED m_dcd

Sample == SampleSearch \/ SampleInFrame \/ SampleEndsFrame

Next == Sample \/ Reset

Spec == Init /\ [][Next]_vars

-----------------------------------------------------------------------------
(* Properties *)

Index == 0 .. FrameLen - 1

\* Types, of the state and of the bookkeeping.
TypeOK ==
  /\ m_state \in {"NONE", "DATA"} /\ m_dataPtr \in Index
  /\ m_endPtr \in Index \cup {NOENDPTR} /\ m_fswPtr \in Index \cup {NOENDPTR}
  /\ m_minFSWPtr \in Index \cup {NOENDPTR} /\ m_maxFSWPtr \in Index \cup {NOENDPTR}
  /\ m_maxCorr \in Strengths \cup {0} /\ m_lostCount \in 0 .. MaxFswFrames
  /\ m_countdown \in 0 .. CorrCountdown /\ m_dcd \in BOOLEAN
  /\ report \in {"", "sync", "data", "lost"}
  /\ since \in Nat /\ unsynced \in Nat /\ seen \in BOOLEAN /\ carried \in BOOLEAN

\* A receiver with a lock has frames left before it gives up, so the decrement
\* at a frame's end does not go below 0, and a frame's end to wait for.
LockIsLive == m_state = "DATA" => m_lostCount \in 1 .. MaxFswFrames /\ m_endPtr \in Index

\* The carrier is reported exactly while a lock is held or about to be, and for
\* no longer than until the next loss when a change of mode took the lock away.
CarrierIsLock ==
  /\ m_state = "DATA" \/ m_countdown > 0 => m_dcd
  /\ m_dcd => m_state = "DATA" \/ m_countdown > 0 \/ carried

\* However the syncs move, consecutive frames are taken a frame apart, give or take
\* the sample a sync may have moved by: no frame is taken twice, and none has its
\* end passed by and waited for during another round of the ring.
FrameTiles ==
  /\ report' # "" => since + 1 >= FrameLen - 1
  /\ m_state' = "DATA" => since' <= FrameLen

\* A frame is flagged as synced when a sync was seen in it, and the lock is lost
\* only after MaxFswFrames frames in a row had none.
FlagsAreTrue ==
  /\ report = "sync" => unsynced = 0
  /\ report = "data" => unsynced \in 1 .. MaxFswFrames - 1
  /\ report = "lost" => unsynced = MaxFswFrames - 1
=============================================================================
