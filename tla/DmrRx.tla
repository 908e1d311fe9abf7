-------------------------------- MODULE DmrRx --------------------------------
(***************************************************************************)
(* DMRRX with its two DMRSlotRX, and DMRDMORX: the DMR receivers of a      *)
(* modem, in repeater mode and in direct mode.                             *)
(*                                                                         *)
(* A step is a burst: the samples between two slot marks of the            *)
(* transmitter, or, in direct mode, one round of the receiver's ring.  In  *)
(* a burst the receiver finds at most one sync, the strongest of those in  *)
(* its window, and acts once, at the end of the burst.  A sync outside the *)
(* window is not seen, so any burst may turn out to have none.  What the   *)
(* sync says is data: a voice sync, or a data sync with a colour code and  *)
(* a data type.  A burst cut short by an early mark changes nothing.       *)
(***************************************************************************)
EXTENDS Integers, FiniteSets

CONSTANTS
  Slots,           \* {1, 2} of DMRRX, or {2}: direct mode reports itself as slot 2
  MaxSyncLost,     \* MAX_SYNC_LOST_FRAMES
  LastOfSuperframe \* the number of the last voice burst after the sync, 5

\* What is assumed of the constants; the module that gives them values checks it.
DmrRxAssumption ==
  /\ Slots # {} /\ Slots \subseteq {1, 2}
  /\ MaxSyncLost \in Nat \ {0} /\ LastOfSuperframe \in Nat

VARIABLES
  m_state,         \* per slot: "NONE", "VOICE" or "DATA"
  m_syncCount,     \* bursts without a sync
  m_n,             \* the number of the last voice burst
  m_type,          \* the type of the last data burst, 0 for none
  m_dcd,           \* Modem::m_dcd
  \* bookkeeping
  report,          \* what the last burst gave the host
  since,           \* per slot: bursts since the last sync, of its own colour or of voice
  noise,           \* per slot: reports in a row of bursts without a sync
  foreign          \* per slot: a burst of another colour came since the last sync

vars == <<m_state, m_syncCount, m_n, m_type, m_dcd, report, since, noise, foreign>>

RateData == {"1/2", "3/4", "1"}
DataTypes == RateData \cup {"data header", "voice LC", "voice PI", "terminator", "CSBK"}

\* What a burst's sync says, "" when there is none.
Syncs == [kind : {"", "voice", "foreign"}] \cup [kind : {"data"}, type : DataTypes]

None == [what |-> "none"]

Init ==
  /\ m_state = [s \in Slots |-> "NONE"] /\ m_syncCount = [s \in Slots |-> 0]
  /\ m_n = [s \in Slots |-> 0] /\ m_type = [s \in Slots |-> ""]
  /\ m_dcd = FALSE
  /\ report = None /\ since = [s \in Slots |-> 0] /\ noise = [s \in Slots |-> 0]
  /\ foreign = [s \in Slots |-> FALSE]

\* DMRRX::samples(): the carrier is that of either slot.
Carrier(state, s) == \E t \in Slots : state[t] # "NONE"

\* writeDMRData(false, ...): the slot a synced burst is told as.
SlotToldSynced(s) == 1

Told(s, what, n) == [what |-> what, slot |-> s, of |-> s, n |-> n]

\* The report of a burst with a sync; direct mode passes its own slot.
Synced(s, what) ==
  [what |-> what, of |-> s, slot |-> IF Cardinality(Slots) = 1 THEN s ELSE SlotToldSynced(s), n |-> 0]

\* A sync of voice or of the own colour: the counts start again.
Renew(s) ==
  /\ m_syncCount' = [m_syncCount EXCEPT ![s] = 0] /\ m_n' = [m_n EXCEPT ![s] = 0]
  /\ since' = [since EXCEPT ![s] = 0] /\ noise' = [noise EXCEPT ![s] = 0]
  /\ foreign' = [foreign EXCEPT ![s] = FALSE]

Enter(s, state) ==
  /\ m_state' = [m_state EXCEPT ![s] = state]
  /\ m_dcd' = Carrier(m_state', s)

-----------------------------------------------------------------------------
(* processSample() at the end of a burst, one action per case *)

\* Payload and encryption headers mean something only within a call.
PayloadTaken(s) == m_state[s] = "DATA"

BurstDataHeader(s) ==
  /\ Renew(s) /\ report' = Synced(s, "header")
  /\ Enter(s, "DATA") /\ m_type' = [m_type EXCEPT ![s] = ""]

BurstRateData(s, type) ==
  /\ type \in RateData
  /\ Renew(s) /\ Enter(s, m_state[s])
  /\ IF PayloadTaken(s)
     THEN report' = Synced(s, "payload") /\ m_type' = [m_type EXCEPT ![s] = type]
     ELSE report' = None /\ UNCHANGED m_type

BurstVoiceHeader(s) ==
  /\ Renew(s) /\ report' = Synced(s, "header")
  /\ Enter(s, "VOICE") /\ UNCHANGED m_type

BurstVoicePI(s) ==
  /\ Renew(s) /\ report' = (IF m_state[s] = "VOICE" THEN Synced(s, "PI") ELSE None)
  /\ Enter(s, "VOICE") /\ UNCHANGED m_type

\* A terminator counts only in a voice call.
BurstTerminator(s) ==
  /\ Renew(s) /\ UNCHANGED m_type
  /\ IF m_state[s] = "VOICE"
     THEN report' = Synced(s, "terminator") /\ Enter(s, "NONE")
     ELSE report' = None /\ Enter(s, m_state[s])

BurstCSBK(s) ==
  /\ Renew(s) /\ report' = Synced(s, "CSBK")
  /\ Enter(s, "NONE") /\ UNCHANGED m_type

BurstData(s, type) ==
  CASE type = "data header" -> BurstDataHeader(s)
    [] type \in RateData    -> BurstRateData(s, type)
    [] type = "voice LC"    -> BurstVoiceHeader(s)
    [] type = "voice PI"    -> BurstVoicePI(s)
    [] type = "terminator"  -> BurstTerminator(s)
    [] type = "CSBK"        -> BurstCSBK(s)

\* A data sync with another colour code: nothing at all, it is not even counted.
BurstForeign(s) ==
  /\ report' = None /\ foreign' = [foreign EXCEPT ![s] = TRUE]
  /\ Enter(s, m_state[s])
  /\ UNCHANGED <<m_syncCount, m_n, m_type, since, noise>>

BurstVoiceSync(s) ==
  /\ Renew(s) /\ report' = Synced(s, "voice")
  /\ Enter(s, "VOICE") /\ UNCHANGED m_type

TooManyLost(count) == count >= MaxSyncLost

\* A voice burst is told by its number; in the place of a sync, as a voice sync.
NextNumber(n) == IF n >= LastOfSuperframe THEN 0 ELSE n + 1

\* No sync while a call is on: the burst is reported by its place in the call, or
\* the call is lost.
BurstWithoutSync(s) ==
  LET count == m_syncCount[s] + 1
      call == IF TooManyLost(count) THEN "NONE" ELSE m_state[s]
      counted == m_state[s] # "NONE"
      late == \/ call = "VOICE"
              \/ call = "DATA" /\ m_type[s] # ""
  IN  /\ m_syncCount' = [m_syncCount EXCEPT ![s] = IF counted THEN count ELSE @]
      /\ Enter(s, call)
      /\ m_n' = [m_n EXCEPT ![s] = IF call = "VOICE" THEN NextNumber(@) ELSE @]
      /\ report' = CASE call = "VOICE" -> Told(s, "late voice", NextNumber(m_n[s]))
                     [] call # "VOICE" /\ late -> Told(s, "late data", 0)
                     [] counted /\ call = "NONE" -> Told(s, "lost", 0)
                     [] OTHER -> None
      /\ since' = [since EXCEPT ![s] = IF call = "VOICE" THEN @ + 1 ELSE 0]
      /\ noise' = [noise EXCEPT ![s] = IF late THEN @ + 1 ELSE 0]
      /\ foreign' = [foreign EXCEPT ![s] = @ /\ call # "NONE"]
      /\ UNCHANGED m_type

Burst(s, sync) ==
  CASE sync.kind = ""        -> BurstWithoutSync(s)
    [] sync.kind = "voice"   -> BurstVoiceSync(s)
    [] sync.kind = "foreign" -> BurstForeign(s)
    [] sync.kind = "data"    -> BurstData(s, sync.type)

\* reset(), from a change of mode; the type is left as it is, and m_dcd with it.
Reset ==
  /\ m_state' = [s \in Slots |-> "NONE"] /\ m_syncCount' = [s \in Slots |-> 0]
  /\ report' = None /\ since' = [s \in Slots |-> 0] /\ noise' = [s \in Slots |-> 0]
  /\ foreign' = [s \in Slots |-> FALSE]
  /\ UNCHANGED <<m_n, m_type, m_dcd>>

Next == Reset \/ \E s \in Slots, sync \in Syncs : Burst(s, sync)

Spec == Init /\ [][Next]_vars

-----------------------------------------------------------------------------
(* Properties *)

\* Types, of the state and of the bookkeeping.
TypeOK ==
  /\ m_state \in [Slots -> {"NONE", "VOICE", "DATA"}] /\ m_syncCount \in [Slots -> Nat]
  /\ m_n \in [Slots -> Nat] /\ m_type \in [Slots -> RateData \cup {""}] /\ m_dcd \in BOOLEAN
  /\ since \in [Slots -> Nat] /\ noise \in [Slots -> Nat] /\ foreign \in [Slots -> BOOLEAN]
  /\ report = None \/ report.slot \in {1, 2}

\* When a signal goes, the host is told of less bursts that were not there than it
\* takes to lose it, and the count that ends a call never runs past its limit.
NoiseIsBounded ==
  \A s \in Slots : /\ noise[s] < MaxSyncLost
                   /\ m_state[s] # "NONE" => m_syncCount[s] < MaxSyncLost

\* A voice burst without a sync is told by its place in the superframe, counted
\* from the last sync, whatever was lost in between.
VoiceInPlace ==
  report.what = "late voice" /\ ~foreign[report.of]
    => report.n = since[report.of] % (LastOfSuperframe + 1)

\* Late bursts, and payload, are told only of a call that has begun and not ended:
\* a terminator or a loss is followed by something that begins one.
CallBegins ==
  \A s \in Slots :
    m_state[s] = "NONE" /\ report' # None /\ report'.of = s
      => report'.what \in {"header", "voice", "CSBK"}

\* After every burst the carrier is on when either slot has a call; a change of mode
\* can leave it on without one, but not off with one.
CarrierIsCall ==
  /\ (\E s \in Slots : m_state[s] # "NONE") => m_dcd
  /\ report # None => m_dcd = \E s \in Slots : m_state[s] # "NONE"

\* SerialPort::writeDMRData: "@param slot DMR slot number."  A burst is told as one of
\* the slot it came in.
SlotIsTold == report # None => report.slot = report.of
=============================================================================
