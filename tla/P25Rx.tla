-------------------------------- MODULE P25Rx --------------------------------
(***************************************************************************)
(* P25RX: the Project 25 receiver of a modem.                              *)
(*                                                                         *)
(* As in NxdnRx, the correlator's findings are data, and so is the NID it   *)
(* decodes: it may fail, or name any kind of data unit.  The sample ring   *)
(* is as long as a packet (PDU), but is used up to the length of a voice   *)
(* unit (LDU) in every state but DATA.                                     *)
(***************************************************************************)
EXTENDS Integers, FiniteSets

CONSTANTS
  LduLen,          \* P25_LDU_FRAME_LENGTH_SAMPLES
  HduLen,          \* P25_HDU_FRAME_LENGTH_SAMPLES
  PduLen,          \* P25_PDU_FRAME_LENGTH_SAMPLES
  SyncLen,         \* P25_SYNC_LENGTH_SAMPLES
  MaxSyncFrames,   \* MAX_SYNC_FRAMES
  CorrCountdown,   \* m_corrCountdown
  Strengths        \* strengths of a correlation, above 0

\* What is assumed of the constants; the module that gives them values checks it.
P25RxAssumption ==
  /\ SyncLen \in Nat \ {0, 1} /\ CorrCountdown \in Nat /\ CorrCountdown > 1
  /\ HduLen \in Nat /\ LduLen \in Nat /\ PduLen \in Nat
  /\ CorrCountdown < HduLen /\ HduLen + SyncLen + 3 < LduLen /\ LduLen < PduLen
  /\ MaxSyncFrames \in Nat \ {0, 1} /\ Strengths \subseteq Nat \ {0}

NOENDPTR == PduLen \* any value no index of the ring has; the code's is 9999

Duids == {"HDU", "TDU", "LDU1", "TSDU", "LDU2", "PDU", "TDULC", "illegal"}

VARIABLES
  m_state,         \* "NONE", "SYNC", "VOICE" or "DATA"
  m_dataPtr,       \* where the next sample goes
  m_endPtr, m_pduEndPtr,         \* the sample at which an LDU, a PDU is taken
  m_syncPtr,       \* where the last sync was seen
  m_minSyncPtr, m_maxSyncPtr,    \* the window of the next sync
  m_maxCorr,       \* the strongest sync of this frame
  m_lostCount,     \* frames without a sync until the lock is lost
  m_countdown,     \* samples until the lock, 0 when no sync was seen
  m_lduSyncPos,    \* the next sync is taken for that of an LDU
  m_dcd,           \* Modem::m_dcd
  \* bookkeeping
  report,          \* what the last sample gave the host: "", "single", "ldu", "pdu", "lost"
  since,           \* samples since the sync of the frame that is coming in
  fresh            \* samples since the sync seen last, no more than SyncLen

ringVars == <<m_dataPtr, m_endPtr, m_pduEndPtr, m_syncPtr, m_minSyncPtr, m_maxSyncPtr>>
syncVars == <<m_state, m_maxCorr, m_lostCount, m_countdown, m_lduSyncPos>>
vars == <<ringVars, syncVars, m_dcd, report, since, fresh>>

Init ==
  /\ m_state = "NONE" /\ m_dataPtr = 0 /\ m_endPtr = NOENDPTR /\ m_pduEndPtr = NOENDPTR
  /\ m_syncPtr = 0 /\ m_minSyncPtr = 0 /\ m_maxSyncPtr = NOENDPTR
  /\ m_maxCorr = 0 /\ m_lostCount = 0 /\ m_countdown = 0 /\ m_lduSyncPos = FALSE
  /\ m_dcd = FALSE /\ report = "" /\ since = 0 /\ fresh = 0

-----------------------------------------------------------------------------
(* The ring *)

\* As the code wraps a sum: one length is taken off, once.
WrapBy(ptr, length) == IF ptr >= length THEN ptr - length ELSE ptr

\* samples(): the next index, after the state has changed or not.
Advance(state) ==
  m_dataPtr' = IF m_dataPtr + 1 >= (IF state = "DATA" THEN PduLen ELSE LduLen)
               THEN 0 ELSE m_dataPtr + 1

WindowAround(ptr, length) ==
  [min |-> WrapBy(ptr + length - 1, length), max |-> WrapBy(ptr + 1, length)]

\* Where a single block is expected to end: the place a late sync is waited at.
WindowAtHdu(ptr) ==
  [min |-> WrapBy(ptr + HduLen - 1, LduLen), max |-> WrapBy(ptr + HduLen + 1, LduLen)]

InWindow ==
  IF m_minSyncPtr < m_maxSyncPtr
  THEN m_dataPtr >= m_minSyncPtr /\ m_dataPtr <= m_maxSyncPtr
  ELSE m_dataPtr >= m_minSyncPtr \/ m_dataPtr <= m_maxSyncPtr

\* correlateSync(): 0 for no sync, or a strength above those before it.
Syncs == {0} \cup {c \in Strengths : c > m_maxCorr}

\* A frame is taken one sample before the last one it is read from has come in.
EndOfLdu(sync) == WrapBy(sync + LduLen - SyncLen - 1, LduLen)

EndOfPdu(sync) == WrapBy(sync + PduLen - SyncLen - 1, PduLen)

\* The pointers and the count after a correlation.
Pointers(corr) ==
  IF corr = 0
  THEN [sync |-> m_syncPtr, end |-> m_endPtr, pduEnd |-> m_pduEndPtr, lost |-> m_lostCount,
        corr |-> m_maxCorr, since |-> since + 1, fresh |-> IF fresh < SyncLen THEN fresh + 1 ELSE fresh]
  ELSE [sync |-> m_dataPtr, end |-> EndOfLdu(m_dataPtr), pduEnd |-> EndOfPdu(m_dataPtr),
        lost |-> MaxSyncFrames, corr |-> corr, since |-> 0, fresh |-> 0]

Place(p) ==
  /\ m_syncPtr' = p.sync /\ m_endPtr' = p.end /\ m_pduEndPtr' = p.pduEnd
  /\ since' = p.since /\ fresh' = p.fresh

\* reset() leaves the data pointer and the carrier alone.
ResetFields ==
  /\ m_state' = "NONE" /\ m_endPtr' = NOENDPTR /\ m_pduEndPtr' = NOENDPTR
  /\ m_syncPtr' = 0 /\ m_minSyncPtr' = 0 /\ m_maxSyncPtr' = NOENDPTR
  /\ m_maxCorr' = 0 /\ m_lostCount' = 0 /\ m_countdown' = 0
  /\ since' = 0 /\ fresh' = 0

-----------------------------------------------------------------------------
(* samples(): one sample, in each of the states *)

\* The carrier is told at the first sync.
Carrier(first, down) == m_dcd \/ first

\* In NONE: the first sync starts the countdown, and stronger ones move it all
\* until the countdown has run.  The pointer is beyond an LDU only for the first
\* sample after a reset in DATA, and a reset empties the bit ring a sync is found in.
SampleSearch ==
  /\ m_state = "NONE"
  /\ \E corr \in IF m_dataPtr < LduLen THEN Syncs ELSE {0} :
       LET p == Pointers(corr)
           first == corr # 0 /\ m_countdown = 0
           started == IF first THEN CorrCountdown ELSE m_countdown
           down == IF started > 0 THEN started - 1 ELSE 0
           w == IF m_lduSyncPos THEN WindowAround(p.sync, LduLen) ELSE WindowAtHdu(p.sync)
       IN  /\ Place([p EXCEPT !.since = IF down = 0 THEN 0 ELSE @])
           /\ m_maxCorr' = p.corr /\ m_dcd' = Carrier(first, down)
           /\ IF down = 1
              THEN /\ m_state' = "SYNC" /\ m_countdown' = 0
                   /\ m_minSyncPtr' = w.min /\ m_maxSyncPtr' = w.max
                   /\ m_lostCount' = IF m_lduSyncPos THEN MaxSyncFrames ELSE p.lost
              ELSE /\ m_countdown' = down /\ m_lostCount' = p.lost
                   /\ UNCHANGED <<m_state, m_minSyncPtr, m_maxSyncPtr>>
  /\ report' = "" /\ UNCHANGED m_lduSyncPos
  /\ Advance("NONE")

\* processSample() before the data unit can be told.
SampleWait ==
  /\ m_state = "SYNC" /\ m_dataPtr # m_maxSyncPtr
  /\ Place(Pointers(0)) /\ report' = ""
  /\ UNCHANGED <<syncVars, m_minSyncPtr, m_maxSyncPtr, m_dcd>>
  /\ Advance("SYNC")

\* The NID, decoded where the sync was, cannot be read or has another NAC.
SyncNidFails ==
  /\ m_state = "SYNC" /\ m_dataPtr = m_maxSyncPtr
  /\ ResetFields /\ m_lduSyncPos' = FALSE /\ m_dcd' = FALSE /\ report' = "lost"
  /\ Advance("NONE")

\* A data unit of a single block is reported, an illegal one is not.  The header
\* has LDUs follow.  The carrier stays on.
SyncSingle(duid) ==
  /\ m_state = "SYNC" /\ m_dataPtr = m_maxSyncPtr
  /\ duid \in {"HDU", "TDU", "TSDU", "TDULC", "illegal"}
  /\ ResetFields /\ m_lduSyncPos' = (duid = "HDU")
  /\ report' = IF duid = "illegal" THEN "" ELSE "single"
  /\ UNCHANGED m_dcd
  /\ Advance("NONE")

\* The window voice begins with.
VoiceWindow ==
  IF m_lduSyncPos THEN [min |-> m_minSyncPtr, max |-> m_maxSyncPtr]
                  ELSE WindowAround(m_syncPtr, LduLen)

\* Voice begins.  After a header the first LDU1 has come in by now and is
\* reported; otherwise it is the first one that still comes in whole.  The same
\* sample goes on to processVoice(), where it may be the window's last.
SyncVoice(duid) ==
  /\ m_state = "SYNC" /\ m_dataPtr = m_maxSyncPtr
  /\ duid \in {"LDU1", "LDU2"}
  /\ m_state' = "VOICE"
  /\ m_minSyncPtr' = VoiceWindow.min /\ m_maxSyncPtr' = VoiceWindow.max
  /\ \E corr \in (IF m_lduSyncPos THEN Syncs ELSE {0}) :
       LET p == Pointers(corr) IN
       /\ Place([p EXCEPT !.since = IF @ >= LduLen THEN @ - LduLen ELSE @])
       /\ m_maxCorr' = (IF m_lduSyncPos THEN p.corr ELSE 0)
  /\ m_lostCount' = MaxSyncFrames
  /\ report' = IF m_lduSyncPos /\ duid = "LDU1" THEN "ldu" ELSE ""
  /\ UNCHANGED <<m_countdown, m_lduSyncPos, m_dcd>>
  /\ Advance("VOICE")

\* A packet begins; the same sample goes on to processData(), at the end of the
\* window the wait was for.
SyncData ==
  /\ m_state = "SYNC" /\ m_dataPtr = m_maxSyncPtr
  /\ m_state' = "DATA"
  /\ \E corr \in {0} \cup Strengths :
       LET p == Pointers(corr) IN
       /\ m_dataPtr # p.pduEnd
       /\ Place(p) /\ m_maxCorr' = corr
  /\ m_lostCount' = MaxSyncFrames /\ report' = ""
  /\ UNCHANGED <<m_minSyncPtr, m_maxSyncPtr, m_countdown, m_lduSyncPos, m_dcd>>
  /\ Advance("DATA")

-----------------------------------------------------------------------------
(* processVoice() and processData() *)

\* Within a frame: a sync in the window moves the pointer named end.
SampleInFrame(state, end) ==
  /\ m_state = state
  /\ \E corr \in IF InWindow THEN Syncs ELSE {0} :
       LET p == Pointers(corr) IN
       /\ m_dataPtr # p[end]
       /\ Place(p) /\ m_maxCorr' = p.corr /\ m_lostCount' = p.lost
  /\ report' = ""
  /\ UNCHANGED <<m_state, m_minSyncPtr, m_maxSyncPtr, m_countdown, m_lduSyncPos, m_dcd>>
  /\ Advance(state)

OutOfFrames == m_lostCount = 1

\* At the end of a frame the lock is lost: too many have had no sync, or, which
\* may happen in any frame, this one's NID cannot be decoded.
FrameLost(state, end) ==
  /\ m_state = state /\ m_dataPtr = end
  /\ ResetFields /\ m_lduSyncPos' = FALSE /\ m_dcd' = FALSE /\ report' = "lost"
  /\ Advance("NONE")

\* The frame is reported, and the window moves if it had a sync.
FrameTaken(state, end, length, what) ==
  /\ m_state = state /\ m_dataPtr = end
  /\ ~OutOfFrames
  /\ LET w == IF m_lostCount = MaxSyncFrames THEN WindowAround(m_syncPtr, length)
              ELSE [min |-> m_minSyncPtr, max |-> m_maxSyncPtr]
     IN  m_minSyncPtr' = w.min /\ m_maxSyncPtr' = w.max
  /\ m_lostCount' = m_lostCount - 1 /\ m_maxCorr' = 0
  /\ report' = what
  /\ since' = since + 1 - length /\ fresh' = Pointers(0).fresh
  /\ UNCHANGED <<m_state, m_syncPtr, m_endPtr, m_pduEndPtr, m_countdown, m_lduSyncPos, m_dcd>>
  /\ Advance(state)

VoiceInFrame == SampleInFrame("VOICE", "end")
VoiceLost    == FrameLost("VOICE", m_endPtr)
VoiceLdu     == FrameTaken("VOICE", m_endPtr, LduLen, "ldu")

\* A terminator in the place of an LDU ends the call.
VoiceTerminator ==
  /\ m_state = "VOICE" /\ m_dataPtr = m_endPtr /\ ~OutOfFrames
  /\ ResetFields /\ m_lduSyncPos' = FALSE /\ m_dcd' = FALSE /\ report' = "single"
  /\ Advance("NONE")

DataInFrame == SampleInFrame("DATA", "pduEnd")
DataLost    == FrameLost("DATA", m_pduEndPtr)
DataPdu     == FrameTaken("DATA", m_pduEndPtr, PduLen, "pdu")

\* reset(), from a change of the modem's mode.
Reset ==
  /\ ResetFields /\ m_lduSyncPos' = FALSE /\ report' = ""
  /\ UNCHANGED <<m_dataPtr, m_dcd>>

Sync == \/ SyncNidFails \/ SyncData
        \/ \E duid \in Duids : SyncSingle(duid) \/ SyncVoice(duid)

Voice == VoiceInFrame \/ VoiceLost \/ VoiceLdu \/ VoiceTerminator

Data == DataInFrame \/ DataLost \/ DataPdu

Next == SampleSearch \/ SampleWait \/ Sync \/ Voice \/ Data \/ Reset

Spec == Init /\ [][Next]_vars

-----------------------------------------------------------------------------
(* Properties *)

Index == 0 .. PduLen - 1

\* Types, of the state and of the bookkeeping.
TypeOK ==
  /\ m_state \in {"NONE", "SYNC", "VOICE", "DATA"} /\ m_dataPtr \in Index
  /\ {m_endPtr, m_pduEndPtr, m_maxSyncPtr} \subseteq Index \cup {NOENDPTR}
  /\ {m_syncPtr, m_minSyncPtr} \subseteq Index
  /\ m_maxCorr \in Strengths \cup {0} /\ m_lostCount \in 0 .. MaxSyncFrames
  /\ m_countdown \in 0 .. CorrCountdown /\ m_lduSyncPos \in BOOLEAN /\ m_dcd \in BOOLEAN
  /\ report \in {"", "single", "ldu", "pdu", "lost"}
  /\ since \in Int /\ fresh \in 0 .. SyncLen

\* A receiver with a lock has frames left before it gives up, so that the
\* decrement at a frame's end does not go below 0, and an end to wait for.
LockIsLive ==
  /\ m_state \in {"VOICE", "DATA"} => m_lostCount \in 1 .. MaxSyncFrames
  /\ m_state = "SYNC" => m_maxSyncPtr \in 0 .. LduLen - 1
  /\ m_state = "VOICE" => m_endPtr \in 0 .. LduLen - 1
  /\ m_state = "DATA" => m_pduEndPtr \in Index

\* The carrier is on while a lock is held or about to be.
LockIsCarrier == m_state # "NONE" \/ m_countdown > 0 => m_dcd

\* An LDU is taken where its last samples are, however the syncs move: its end is
\* never passed by, and it is not taken before it is there.  The wait for a data
\* unit ends within a round of the ring.
LduTiles ==
  /\ m_state = "VOICE" /\ report' = "ldu" => since = LduLen - SyncLen - 2
  /\ m_state = "VOICE" => since < LduLen - SyncLen - 1
  /\ m_state = "SYNC" => since <= LduLen

=============================================================================
