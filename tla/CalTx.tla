------------------------------- MODULE CalTx -------------------------------
(***************************************************************************)
(* The calibration engines: CalDMR, CalP25 and CalNXDN, which play a test  *)
(* call to the transmitter of their mode until the host has enough.  They  *)
(* share nothing, so in a behaviour the host calibrates one protocol.      *)
(*                                                                         *)
(* A transmitter is its queue, counted in frames, and DMRTX its rotation   *)
(* too (DmrTx, P25Tx and FixedTx have the rest).                           *)
(***************************************************************************)
EXTENDS Integers, Sequences

CONSTANTS
  QueueLen,      \* frames a queue holds: 15, 2 (P25), 11 (NXDN)
  StartupCount,  \* STARTUP_COUNT: CACHs before DMRTX sends frames, 20
  WaitCount,     \* CACHs dmr1kcal() waits for, 30
  LastOfRound,   \* frames of a round, the first is 0: superframe 5, P25 1, NXDN 3
  MaxOps         \* bound: host commands in a behaviour

CalTxAssumption ==
  /\ QueueLen \in Nat \ {0} /\ StartupCount \in Nat /\ MaxOps \in Nat
  /\ LastOfRound \in [{"DMR", "P25", "NXDN"} -> Nat]
  /\ WaitCount \in Nat /\ WaitCount >= 2 * QueueLen

\* The modes of a protocol in which its engine is called: the test calls and the plain
\* patterns.  In IDLE none is.
CallModes(p) ==
  CASE p = "DMR" -> {"DMR_CAL_1K", "DMR_DMO_CAL_1K"} [] p = "P25" -> {"P25_CAL_1K"} [] OTHER -> {"NXDN_CAL"}
PatternModes(p) == CASE p = "DMR" -> {"DMR_CAL"} [] p = "P25" -> {"P25_CAL"} [] OTHER -> {}

\* The frames of DMR that are in no round.
NoFrame == -1
HeaderFrame == -2
TerminatorFrame == -3

VARIABLES
  protocol,
  m_modemState,
  m_transmit, m_state, m_audioSeq, m_frameStart,
  tx,            \* the transmitter: its m_state for DMRTX, "NORMAL" or "CAL" else
  m_frameCount,  \* of DMRTX
  queue,         \* frames in the queue of the mode's transmitter, and of dmrDMOTX
  m_tx,
  ops,
  \* bookkeeping
  last,          \* the last two frames written, numbered in their round
  undisturbed    \* no mode was left in the middle of a call or a pattern

engine == <<m_state, m_audioSeq, m_frameStart>>
air == <<tx, m_frameCount, queue, m_tx>>
vars == <<protocol, m_modemState, m_transmit, engine, air, ops, last, undisturbed>>

Transmitters == {"base", "direct"}
Used == IF m_modemState = "DMR_DMO_CAL_1K" THEN "direct" ELSE "base"

Init ==
  /\ protocol \in {"DMR", "P25", "NXDN"} /\ m_modemState = "IDLE"
  /\ m_transmit = FALSE /\ m_state = "IDLE" /\ m_audioSeq = 0 /\ m_frameStart = 0
  /\ tx = (IF protocol = "DMR" THEN "IDLE" ELSE "NORMAL") /\ m_frameCount = 0
  /\ queue = [t \in Transmitters |-> 0] /\ m_tx = FALSE
  /\ ops = 0 /\ last = <<NoFrame, NoFrame>> /\ undisturbed = TRUE

-----------------------------------------------------------------------------
(* Host commands *)

Command == ops < MaxOps /\ ops' = ops + 1

\* CMD_SET_MODE.
SetMode(mode) ==
  /\ Command /\ mode # m_modemState
  /\ m_modemState' = mode
  /\ undisturbed' = (undisturbed /\ ~m_transmit /\ m_state = "IDLE" /\ tx # "CAL")
  /\ UNCHANGED <<protocol, m_transmit, engine, air, last>>

\* CMD_CAL_DATA: CalDMR begins a call in its call modes only, the others in all of theirs.
Write(on) ==
  /\ Command /\ m_modemState # "IDLE"
  /\ m_transmit' = on
  /\ m_state' = IF on /\ m_state = "IDLE" /\ (protocol = "DMR" => m_modemState \in CallModes("DMR"))
                THEN IF protocol = "DMR" THEN "VH" ELSE "CALL" ELSE m_state
  /\ UNCHANGED <<protocol, m_modemState, m_audioSeq, m_frameStart, air, last, undisturbed>>

-----------------------------------------------------------------------------
(* The transmitter's process(), which comes before its engine's.  It begins another *)
(* block, or the last is not out yet.                                              *)

\* CalNXDN calls it only while it transmits.
Called == m_modemState # "IDLE" /\ (protocol = "NXDN" => m_transmit)

Rotates == protocol = "DMR" /\ Used = "base"

After == [SLOT1 |-> "CACH2", CACH2 |-> "SLOT2", SLOT2 |-> "CACH1", CACH1 |-> "SLOT1"]

TxThen(begins) == IF begins /\ Rotates /\ tx \in DOMAIN After THEN After[tx] ELSE tx

\* A CACH is counted.  The count is only compared with StartupCount, and in WAIT with
\* where it began.
CountThen(begins) ==
  LET most == IF m_state = "WAIT" THEN m_frameStart + WaitCount + 1 ELSE StartupCount
  IN  IF begins /\ Rotates /\ tx \in {"CACH1", "CACH2"} /\ m_frameCount < most
      THEN m_frameCount + 1 ELSE m_frameCount

\* P25TX alone has a pattern of its own, which takes nothing from the queue.
Takes ==
  /\ Called /\ queue[Used] > 0
  /\ Rotates => tx = "SLOT2" /\ m_frameCount >= StartupCount
  /\ protocol = "P25" => tx = "NORMAL"

QueueThen(begins) == IF begins /\ Takes THEN queue[Used] - 1 ELSE queue[Used]

Sends ==
  /\ Called
  /\ IF Rotates THEN tx # "IDLE" ELSE queue[Used] > 0 \/ (protocol = "P25" /\ tx = "CAL")

-----------------------------------------------------------------------------
(* The engines' process() *)

\* The transmitter's doing, and nothing written.
Keep(begins) ==
  /\ queue' = [queue EXCEPT ![Used] = QueueThen(begins)] /\ UNCHANGED last

Put(begins, frame) ==
  /\ queue' = [queue EXCEPT ![Used] = QueueThen(begins) + 1] /\ last' = <<last[2], frame>>

Turns(begins) == tx' = TxThen(begins) /\ m_frameCount' = CountThen(begins)

\* As well, writeData2() begins the rotation if TX is off.
TurnsOn(begins) ==
  /\ tx' = (IF Rotates /\ tx = "IDLE" /\ ~m_tx THEN "SLOT1" ELSE TxThen(begins))
  /\ m_frameCount' = CountThen(begins)

LastFrame == m_audioSeq = LastOfRound[protocol]

\* Mutant: the end of the round is looked for after the count is reset.
RoundNeverEnds(then) ==
  /\ m_audioSeq' = (IF LastFrame THEN 0 ELSE m_audioSeq + 1)
  /\ m_state' = (IF m_audioSeq' > LastOfRound[protocol] /\ ~m_transmit THEN then ELSE m_state)

\* The next place in the call, which ends with a round.
Round(then) ==
  /\ m_audioSeq' = (IF LastFrame THEN 0 ELSE m_audioSeq + 1)
  /\ m_state' = (IF LastFrame /\ ~m_transmit THEN then ELSE m_state)

Header(begins) ==
  /\ m_state = "VH" /\ Put(begins, HeaderFrame) /\ m_state' = "VOICE"
  /\ IF Rotates THEN tx' = "SLOT1" /\ m_frameCount' = 0 ELSE UNCHANGED <<tx, m_frameCount>>
  /\ UNCHANGED <<m_audioSeq, m_frameStart>>

Voice(begins) ==
  /\ m_state = "VOICE" /\ Put(begins, m_audioSeq) /\ Round("VT")
  /\ TurnsOn(begins) /\ UNCHANGED m_frameStart

\* The base station is left time to send what is queued.
Terminator(begins) ==
  /\ m_state = "VT" /\ Put(begins, TerminatorFrame) /\ TurnsOn(begins)
  /\ m_state' = (IF Rotates THEN "WAIT" ELSE "IDLE")
  /\ m_frameStart' = (IF Rotates THEN CountThen(begins) ELSE m_frameStart)
  /\ UNCHANGED m_audioSeq

\* Mutant: one CACH less.
WaitOverEarly(begins) == CountThen(begins) >= m_frameStart + WaitCount

WaitOver(begins) == CountThen(begins) > m_frameStart + WaitCount

Wait(begins) ==
  /\ m_state = "WAIT" /\ Rotates /\ ~WaitOver(begins)
  /\ Keep(begins) /\ Turns(begins) /\ UNCHANGED engine

Stop(begins) ==
  /\ m_state = "WAIT" /\ Rotates /\ WaitOver(begins)
  /\ tx' = "IDLE" /\ m_frameCount' = 0
  /\ queue' = [queue EXCEPT !["base"] = 0]
  /\ m_audioSeq' = 0 /\ m_state' = "IDLE" /\ UNCHANGED <<m_frameStart, last>>

NoCall(begins) ==
  /\ m_state = "IDLE" \/ (m_state = "WAIT" /\ ~Rotates)
  /\ Keep(begins) /\ Turns(begins)
  /\ m_state' = "IDLE" /\ m_audioSeq' = (IF Rotates THEN m_audioSeq ELSE 0)
  /\ UNCHANGED m_frameStart

\* dmr1kcal() and dmrDMO1kcal(), which share their state and their place in the call.
Dmr(begins) ==
  \/ Header(begins) \/ Voice(begins) \/ Terminator(begins)
  \/ Wait(begins) \/ Stop(begins) \/ NoCall(begins)

\* CalP25: LDU1 and LDU2 in turn, and the call ends with LDU2.
P25(begins) ==
  /\ Turns(begins) /\ UNCHANGED m_frameStart
  /\ \/ m_state = "CALL" /\ Put(begins, m_audioSeq) /\ Round("IDLE")
     \/ m_state = "IDLE" /\ Keep(begins) /\ UNCHANGED <<m_state, m_audioSeq>>

\* CalNXDN: four frames in turn.  The call ends anywhere, with one more frame.
Nxdn(begins) ==
  /\ UNCHANGED <<m_frameStart, m_frameCount>> /\ tx' = (IF m_transmit THEN "CAL" ELSE "NORMAL")
  /\ \/ /\ m_state = "CALL"
        /\ LET seq == IF m_audioSeq > LastOfRound["NXDN"] THEN 0 ELSE m_audioSeq
           IN  Put(begins, seq) /\ m_audioSeq' = IF m_transmit THEN seq + 1 ELSE 0
        /\ m_state' = (IF m_transmit THEN m_state ELSE "IDLE")
     \/ m_state = "IDLE" /\ m_audioSeq' = 0 /\ Keep(begins) /\ UNCHANGED m_state

\* No room for another frame.
NoRoom(begins) ==
  /\ Keep(begins) /\ UNCHANGED engine
  /\ IF protocol = "NXDN" THEN tx' = (IF m_transmit THEN "CAL" ELSE "NORMAL") /\ UNCHANGED m_frameCount
                          ELSE Turns(begins)

\* The plain patterns: no frames.  A test call of P25 is over.
Pattern ==
  /\ tx' = (IF m_transmit THEN "CAL" ELSE IF protocol = "DMR" THEN "IDLE" ELSE "NORMAL")
  /\ IF protocol = "P25" THEN m_state' = "IDLE" /\ m_audioSeq' = 0 ELSE UNCHANGED <<m_state, m_audioSeq>>
  /\ UNCHANGED <<m_frameStart, m_frameCount, queue, last>>

\* A turn of the modem's clock.
Clock(begins) ==
  /\ m_modemState # "IDLE"
  /\ IF m_modemState \in PatternModes(protocol) THEN Pattern
     ELSE IF QueueThen(begins) >= QueueLen THEN NoRoom(begins)
     ELSE CASE protocol = "DMR" -> Dmr(begins) [] protocol = "P25" -> P25(begins) [] OTHER -> Nxdn(begins)
  /\ m_tx' = (m_tx \/ Sends)
  /\ UNCHANGED <<protocol, m_modemState, m_transmit, ops, undisturbed>>

\* IO::process() drops TX once nothing has been sent for a while.
TxOff ==
  /\ m_tx /\ ~Sends
  /\ m_tx' = FALSE
  /\ UNCHANGED <<protocol, m_modemState, m_transmit, engine, tx, m_frameCount, queue, ops, last, undisturbed>>

Next ==
  \/ \E mode \in {"IDLE"} \cup CallModes(protocol) \cup PatternModes(protocol) : SetMode(mode)
  \/ \E on \in BOOLEAN : Write(on)
  \/ \E begins \in BOOLEAN : Clock(begins)
  \/ TxOff

Spec == Init /\ [][Next]_vars /\ WF_vars(Clock(TRUE)) /\ WF_vars(TxOff)

-----------------------------------------------------------------------------
(* Properties *)

\* Types.
TypeOK ==
  /\ protocol \in {"DMR", "P25", "NXDN"}
  /\ m_modemState \in {"IDLE"} \cup CallModes(protocol) \cup PatternModes(protocol)
  /\ {m_transmit, m_tx, undisturbed} \subseteq BOOLEAN
  /\ m_state \in {"IDLE"} \cup (IF protocol = "DMR" THEN {"VH", "VOICE", "VT", "WAIT"} ELSE {"CALL"})
  /\ m_audioSeq \in 0 .. LastOfRound[protocol] + (IF protocol = "NXDN" THEN 1 ELSE 0)
  /\ tx \in {"CAL"} \cup (IF protocol = "DMR" THEN {"IDLE"} \cup DOMAIN After ELSE {"NORMAL"})
  /\ queue \in [Transmitters -> 0 .. QueueLen] /\ ops \in 0 .. MaxOps
  /\ m_frameStart \in Nat /\ m_frameCount \in Nat

\* A test call is whole on the air.  A superframe follows the header or another, the
\* terminator ends one, and when the base station stops and empties its queue the
\* terminator has left it, with not one burst to spare; provided that the host let the
\* call last until the station had started, and left no call in the middle.
Before(frame) ==
  LET end == LastOfRound[protocol]
  IN  CASE frame \in {NoFrame, HeaderFrame} -> {NoFrame, TerminatorFrame}
        [] frame = TerminatorFrame          -> {end}
        [] frame = 0 -> CASE protocol = "DMR" -> {HeaderFrame, end} [] protocol = "P25" -> {NoFrame, end}
                          [] OTHER -> {NoFrame} \cup 0 .. end
        [] OTHER     -> {frame - 1}

CallWhole ==
  undisturbed =>
    /\ last[1] \in Before(last[2])
    /\ m_state = "WAIT" /\ m_state' = "IDLE" /\ m_frameStart >= StartupCount => queue["base"] = 0
CallsWhole == [][CallWhole]_vars

\* A host that ends a test call and waits sees it end, and TX go off.
Silent ==
  undisturbed /\ ~m_transmit /\ m_modemState \in CallModes("DMR") \cup CallModes("P25") =>
    m_state = "IDLE" /\ queue[Used] = 0 /\ ~m_tx
=============================================================================
