-------------------------------- MODULE DmrSync --------------------------------
(***************************************************************************)
(* The sample rings of DMRDMORX, the receiver of direct mode, and of       *)
(* DMRIdleRX, which a base station listens with until it is called: where  *)
(* a burst is looked for, and when it is taken.                            *)
(*                                                                         *)
(* What the correlator makes of the samples is data, as in NxdnRx.  What   *)
(* the burst says, and whether a call goes on after it, is in DmrRx: here  *)
(* any burst may begin, keep or end one.  The idle receiver has no call.   *)
(***************************************************************************)
EXTENDS Integers, FiniteSets

CONSTANTS
  SlotRing,     \* DMO_BUFFER_LENGTH_SAMPLES, or DMR_FRAME_LENGTH_SAMPLES
  BurstTail,    \* samples from the sync's last one to the one a burst is taken at
  HasCalls,     \* direct mode
  Strengths     \* strengths of a correlation, above 0

DmrSyncAssumption ==
  /\ {SlotRing, BurstTail} \subseteq Nat \ {0} /\ HasCalls \in BOOLEAN
  /\ Strengths \subseteq Nat \ {0} /\ IsFiniteSet(Strengths)
  /\ BurstTail + 2 * Cardinality(Strengths) + 2 < SlotRing

NOENDPTR == SlotRing \* any value no index of the ring has; the code's is 9999

VARIABLES
  m_state,      \* "NONE" or "CALL"
  m_dataPtr,    \* where the next sample goes
  m_syncPtr,    \* where the last sync was seen
  m_endPtr,     \* the sample at which the burst is taken
  m_maxCorr,    \* the strongest sync of this burst
  m_control,    \* a sync was seen in this burst
  \* bookkeeping
  report,       \* what the last sample gave: "", "sync" or "late"
  since,        \* samples since the last burst of a call was taken
  fresh         \* samples since the sync of this burst

ringVars == <<m_dataPtr, m_syncPtr, m_endPtr>>
vars == <<m_state, ringVars, m_maxCorr, m_control, report, since, fresh>>

Wrap(ptr) == ptr % SlotRing

Init ==
  /\ m_state = "NONE" /\ m_dataPtr = 0 /\ m_syncPtr = 0 /\ m_endPtr = NOENDPTR
  /\ m_maxCorr = 0 /\ m_control = FALSE /\ report = "" /\ since = 0 /\ fresh = 0

-----------------------------------------------------------------------------

\* Without a call a sync may be anywhere; in a call, a sample around the last one.
InWindow ==
  LET min == Wrap(m_syncPtr + SlotRing - 1)
      max == Wrap(m_syncPtr + 1)
  IN  IF min < max THEN m_dataPtr >= min /\ m_dataPtr <= max
                   ELSE m_dataPtr >= min \/ m_dataPtr <= max

\* 0 for no sync, or the strength of one that beats those before it.
Syncs == IF m_state = "NONE" \/ InWindow THEN {0} \cup {c \in Strengths : c > m_maxCorr} ELSE {0}

EndOfBurst(sync) == Wrap(sync + BurstTail)

Advance == m_dataPtr' = Wrap(m_dataPtr + 1)

\* A sync moves the window, and the end of the burst with it.
Seen(corr) ==
  /\ m_maxCorr' = corr /\ m_control' = TRUE /\ m_syncPtr' = m_dataPtr
  /\ m_endPtr' = EndOfBurst(m_dataPtr)
  /\ fresh' = 0

Unseen ==
  /\ fresh' = (IF m_control THEN fresh + 1 ELSE 0)
  /\ UNCHANGED <<m_syncPtr, m_endPtr, m_maxCorr, m_control>>

\* A sample within a burst, or one with a sync.
SampleInBurst ==
  /\ \E corr \in Syncs : IF corr = 0 THEN m_dataPtr # m_endPtr /\ Unseen ELSE Seen(corr)
  /\ since' = (IF m_state = "NONE" THEN 0 ELSE since + 1) /\ report' = ""
  /\ UNCHANGED m_state /\ Advance

\* reset(), and the idle receiver after each burst: nothing is waited for.
Forget == m_endPtr' = NOENDPTR /\ m_syncPtr' = (IF HasCalls THEN 0 ELSE m_syncPtr)

\* The last sample of a burst.  What it says may begin, keep or end a call, or be
\* nothing; without a sync only a call makes it a burst.
BurstSays ==
  \/ (m_control \/ m_state = "CALL") /\ m_state' = "NONE" /\ Forget
  \/ HasCalls /\ (m_control \/ m_state = "CALL") /\ m_state' = "CALL" /\ UNCHANGED <<m_endPtr, m_syncPtr>>
  \/ HasCalls /\ m_state = "NONE" /\ UNCHANGED <<m_state, m_endPtr, m_syncPtr>>

SampleEndsBurst ==
  /\ m_dataPtr = m_endPtr /\ BurstSays
  /\ report' = IF m_control THEN "sync" ELSE IF m_state = "CALL" THEN "late" ELSE ""
  /\ m_maxCorr' = 0 /\ m_control' = FALSE
  /\ since' = 0 /\ fresh' = 0
  /\ Advance

\* reset(), from a change of mode; only the idle receiver begins its ring anew.
Reset ==
  /\ m_state' = "NONE" /\ m_maxCorr' = 0 /\ m_control' = FALSE /\ Forget
  /\ m_dataPtr' = (IF HasCalls THEN m_dataPtr ELSE 0)
  /\ report' = "" /\ since' = 0 /\ fresh' = 0

Next == SampleInBurst \/ SampleEndsBurst \/ Reset

Spec == Init /\ [][Next]_vars

-----------------------------------------------------------------------------
(* Properties *)

Index == 0 .. SlotRing - 1

\* Types.
TypeOK ==
  /\ m_state \in {"NONE", "CALL"} /\ m_dataPtr \in Index /\ m_syncPtr \in Index
  /\ m_endPtr \in Index \cup {NOENDPTR} /\ m_maxCorr \in Strengths \cup {0}
  /\ m_control \in BOOLEAN /\ report \in {"", "sync", "late"} /\ {since, fresh} \subseteq Nat

\* A burst with a sync is taken when its last sample is in, however often a stronger
\* sync moved it; in a call each round of the ring takes one, and none is passed by.
BurstTiles ==
  /\ report' = "sync" => fresh = BurstTail - 1
  /\ report' = "late" => since = SlotRing - 1
  /\ m_state = "CALL" => since < SlotRing + Cardinality(Strengths)
  /\ m_control => fresh < BurstTail
=============================================================================
