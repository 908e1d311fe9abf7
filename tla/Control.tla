------------------------------- MODULE Control -------------------------------
(***************************************************************************)
(* The state of a modem and who works in it: the host commands that change *)
(* it (SerialPort), the watchdog, the fall of TX and the choice of the     *)
(* receivers (IO::process()), and the engines Modem::clock() calls.        *)
(*                                                                         *)
(* Receivers and engines have modules of their own.  Here a receiver is    *)
(* clear, live or not fed any more, and an engine has something left to    *)
(* send or not.                                                            *)
(* The lockout is left out (RxBudget), and so are refused commands.        *)
(*                                                                         *)
(* What is received is reported by the same thread, through a pseudo       *)
(* terminal: UARTPort::write() returns when all is written, and the        *)
(* terminal takes so much that nobody has read.                            *)
(***************************************************************************)
EXTENDS Integers, FiniteSets

CONSTANTS
  WatchdogLimit,   \* calls of interrupt() until the watchdog acts, 48000
  RingLen,         \* samples the transmit ring holds, in pieces an engine writes
  PortLen          \* reports the terminal holds for the host

ControlAssumption ==
  WatchdogLimit \in Nat \ {0} /\ RingLen \in Nat \ {0} /\ PortLen \in Nat \ {0}

VoiceModes == {"DMR", "P25", "NXDN"}
CalModes == {"DMR_CAL", "CAL"}   \* CAL: all the others; RSSI_CAL, which sends nothing, is left out
Modes == {"IDLE"} \cup VoiceModes \cup CalModes

\* What a change of mode may reset.  The base station's two receivers are fed in turn, as
\* TX goes on and off.
BaseStation == {"dmrRX", "dmrIdleRX"}
Receivers == {"p25RX", "nxdnRX", "dmrDMORX"} \cup BaseStation
Engines == {"P25", "NXDN", "DMO", "CW"}

VARIABLES
  host,           \* "up", or "gone" for good
  m_modemState, m_duplex, m_tx,
  rotation,       \* dmrTX's m_state is not IDLE: it sends with or without frames
  m_transmit,     \* of the calibration engines
  left,           \* pieces each other engine has left to send
  ring,           \* pieces in m_txBuffer
  quiet,          \* nothing was written since TX_HANG_MS
  m_watchdog,
  turn,           \* of the clock thread: "begin", or "report", waiting to write one
  unread,         \* reports in the terminal
  held            \* of each receiver: "clear", "live", "paused" once a block of IDLE
                  \* or DMR went to others since, and "stale" once one of another mode

txVars == <<m_tx, rotation, m_transmit, left, ring, quiet>>
portVars == <<turn, unread>>
vars == <<host, m_modemState, m_duplex, txVars, m_watchdog, portVars, held>>

Init ==
  /\ host = "up" /\ m_modemState = "IDLE" /\ m_duplex \in BOOLEAN
  /\ m_tx = FALSE /\ rotation = FALSE /\ m_transmit = FALSE
  /\ left = [e \in Engines |-> 0] /\ ring = 0 /\ quiet = TRUE /\ m_watchdog = 0
  /\ turn = "begin" /\ unread = 0
  /\ held = [r \in Receivers |-> "clear"]

-----------------------------------------------------------------------------
(* Host commands.  The clock thread takes them at the beginning of a turn; *)
(* the host that sent one reads the answer, which is left out.             *)

Listening == host = "up" /\ turn = "begin"

\* Mutant: P25 leaves the base station's receivers as they are, as DMR does.
ResetKeepsBaseStation(mode) ==
  CASE mode = "IDLE" -> {}
    [] mode = "DMR"  -> {"p25RX", "nxdnRX", "cwIdTX"}
    [] mode = "P25"  -> {"dmrDMORX", "nxdnRX", "cwIdTX"}
    [] OTHER         -> Receivers \cup {"cwIdTX"}

\* SerialPort::setMode(): each mode resets receivers it will not feed, and more; but DMR
\* and IDLE leave the base station's two as they are.
ResetBy(mode) ==
  CASE mode = "IDLE" -> {}
    [] mode = "DMR"  -> {"p25RX", "nxdnRX", "cwIdTX"}
    [] mode = "P25"  -> BaseStation \cup {"dmrDMORX", "nxdnRX", "cwIdTX"}
    [] OTHER         -> Receivers \cup {"cwIdTX"}

\* left with the CW identifier reset, when the mode does so.
LeftIn(mode, then) == [then EXCEPT !["CW"] = IF "cwIdTX" \in ResetBy(mode) THEN 0 ELSE @]

EnterMode(mode) ==
  /\ m_modemState' = mode
  /\ held' = [r \in Receivers |-> IF r \in ResetBy(mode) THEN "clear" ELSE held[r]]

\* CMD_SET_MODE, and CMD_SET_CONFIG, which sets a mode too and enters it even when it
\* has it.  The configuration itself is not changed.
SetMode(mode) ==
  /\ Listening
  /\ EnterMode(mode) /\ left' = LeftIn(mode, left)
  /\ UNCHANGED <<host, m_duplex, m_tx, rotation, m_transmit, ring, quiet, m_watchdog, portVars>>

\* The engine of a voice mode.
EngineOf(mode) == CASE mode = "P25" -> "P25" [] mode = "NXDN" -> "NXDN" [] OTHER -> "DMO"

\* A data command, accepted: looked at in IDLE and in its own mode, which it enters.
\* The base station's engine starts its rotation if TX is off.
Data(mode) ==
  /\ Listening /\ m_modemState \in {"IDLE", mode}
  /\ IF m_modemState = "IDLE" THEN EnterMode(mode) ELSE UNCHANGED <<m_modemState, held>>
  /\ LET then == IF mode = "DMR" /\ m_duplex THEN left ELSE [left EXCEPT ![EngineOf(mode)] = 1]
     IN  left' = IF m_modemState = "IDLE" THEN LeftIn(mode, then) ELSE then
  /\ rotation' = (rotation \/ (mode = "DMR" /\ m_duplex /\ ~m_tx))
  /\ UNCHANGED <<host, m_duplex, m_tx, m_transmit, ring, quiet, m_watchdog, portVars>>

\* CMD_P25_DATA in a long frame: put in the queue, answered with a NAK, and the mode
\* stays.
LongData ==
  /\ Listening /\ m_modemState \in {"IDLE", "P25"}
  /\ left' = [left EXCEPT !["P25"] = 1]
  /\ UNCHANGED <<host, m_modemState, m_duplex, m_tx, rotation, m_transmit, ring, quiet, m_watchdog, portVars, held>>

\* CMD_DMR_START.
DmrStart(on) ==
  /\ Listening /\ m_modemState = "DMR"
  /\ m_tx # on
  /\ rotation' = on
  /\ UNCHANGED <<host, m_modemState, m_duplex, m_tx, m_transmit, left, ring, quiet, m_watchdog, portVars, held>>

\* CMD_SEND_CWID.
SendCwId ==
  /\ Listening /\ m_modemState = "IDLE"
  /\ left' = [left EXCEPT !["CW"] = 1]
  /\ UNCHANGED <<host, m_modemState, m_duplex, m_tx, rotation, m_transmit, ring, quiet, m_watchdog, portVars, held>>

\* CMD_CAL_DATA.
CalData(on) ==
  /\ Listening /\ m_modemState \in {"DMR_CAL", "CAL"}
  /\ m_transmit' = on
  /\ UNCHANGED <<host, m_modemState, m_duplex, m_tx, rotation, left, ring, quiet, m_watchdog, portVars, held>>

\* CMD_GET_STATUS.
GetStatus ==
  /\ Listening
  /\ m_watchdog' = 0
  /\ UNCHANGED <<host, m_modemState, m_duplex, txVars, portVars, held>>

HostGone ==
  /\ host = "up" /\ host' = "gone"
  /\ UNCHANGED <<m_modemState, m_duplex, txVars, m_watchdog, portVars, held>>

HostReads ==
  /\ host = "up" /\ unread > 0
  /\ unread' = unread - 1
  /\ UNCHANGED <<host, m_modemState, m_duplex, txVars, m_watchdog, turn, held>>

Host ==
  \/ \E mode \in Modes : SetMode(mode)
  \/ \E mode \in VoiceModes : Data(mode)
  \/ \E on \in BOOLEAN : DmrStart(on) \/ CalData(on)
  \/ LongData \/ SendCwId \/ GetStatus \/ HostGone \/ HostReads

-----------------------------------------------------------------------------
(* The clock thread: the rest of Modem::clock() *)

Expired == m_watchdog >= WatchdogLimit

\* The watchdog leaves a voice mode, by IO::setMode() alone.
ModeNow == IF Expired /\ m_modemState \in VoiceModes THEN "IDLE" ELSE m_modemState

RotationNow == rotation /\ ~(Expired /\ m_modemState = "DMR" /\ m_tx)

\* Mutant: TX waits for what any engine still has.
TxNowWaits == m_tx /\ ~(ring = 0 /\ quiet /\ \A e \in Engines : left[e] = 0)

TxNow == m_tx /\ ~(ring = 0 /\ quiet)

\* The receiver of DMR: "If the transmitter isn't on, use the DMR idle RX".
Dmr(idle) == IF ~m_duplex THEN "dmrDMORX" ELSE IF idle THEN "dmrIdleRX" ELSE "dmrRX"

\* The receivers a block is fed to.
Fed ==
  CASE ModeNow = "IDLE" -> {"p25RX", "nxdnRX", Dmr(TRUE)}
    [] ModeNow = "DMR"  -> {Dmr(~TxNow)}
    [] ModeNow = "P25"  -> {"p25RX"}
    [] ModeNow = "NXDN" -> {"nxdnRX"}
    [] OTHER            -> {}

HeldAfter(r) ==
  CASE r \in Fed -> "live"
    [] r \notin Fed /\ held[r] \in {"live", "paused"} ->
         IF ModeNow \in {"IDLE", "DMR"} THEN "paused" ELSE "stale"
    [] OTHER -> held[r]

\* The engine called in a mode, and whether it has something to send.
Sends(mode, rotates) ==
  CASE mode \in VoiceModes -> IF mode = "DMR" /\ m_duplex THEN rotates ELSE left[EngineOf(mode)] > 0
    [] mode = "IDLE"       -> left["CW"] > 0
    [] OTHER               -> m_transmit

Counted(mode) == IF mode = "IDLE" THEN "CW" ELSE EngineOf(mode)

\* It fills the ring and asserts TX.  The calibration engine turns dmrTX's state on and
\* off in DMR_CAL.
Engine(mode, rotates, tx) ==
  LET sends  == Sends(mode, rotates)
      writes == sends /\ ring < RingLen
      counts == writes /\ mode \in {"IDLE"} \cup VoiceModes /\ ~(mode = "DMR" /\ m_duplex)
  IN  /\ rotation' = (IF mode = "DMR_CAL" THEN m_transmit ELSE rotates)
      /\ m_tx' = (tx \/ sends)
      /\ ring' = (IF writes THEN RingLen ELSE ring)
      /\ quiet' = ~writes
      /\ left' = (IF counts THEN [left EXCEPT ![Counted(mode)] = @ - 1] ELSE left)

\* One turn: the watchdog, the fall of TX, a block to the receivers when there is one,
\* of which they may have something to report, and the engine.
Begin ==
  /\ turn = "begin"
  /\ m_modemState' = ModeNow
  /\ m_watchdog' = (IF Expired THEN 0 ELSE m_watchdog)
  /\ UNCHANGED <<host, m_duplex, m_transmit>>

Turn ==
  /\ Begin /\ turn' = "begin"
  /\ \/ UNCHANGED <<held, unread>>
     \/ /\ held' = [r \in Receivers |-> HeldAfter(r)]
        /\ unread' \in {unread, unread + 1} /\ unread' <= PortLen
  /\ Engine(ModeNow, RotationNow, TxNow)

\* There is no room for the report: the turn goes on when there is.
TurnBlocks ==
  /\ Begin /\ unread = PortLen /\ turn' = "report"
  /\ held' = [r \in Receivers |-> HeldAfter(r)]
  /\ rotation' = RotationNow /\ m_tx' = TxNow
  /\ UNCHANGED <<left, ring, quiet, unread>>

TurnGoesOn ==
  /\ turn = "report" /\ unread < PortLen
  /\ turn' = "begin" /\ unread' = unread + 1
  /\ Engine(m_modemState, rotation, m_tx)
  /\ UNCHANGED <<host, m_modemState, m_duplex, m_transmit, m_watchdog, held>>

Clock == Turn \/ TurnBlocks \/ TurnGoesOn

\* The tx thread: interrupt() runs, and counts, only while there is something in the ring.
Interrupt ==
  /\ ring > 0
  /\ ring' = ring - 1
  /\ m_watchdog' = (IF m_watchdog < WatchdogLimit THEN m_watchdog + 1 ELSE m_watchdog)
  /\ UNCHANGED <<host, m_modemState, m_duplex, m_tx, rotation, m_transmit, left, quiet, portVars, held>>

Next == Host \/ Clock \/ Interrupt

\* What the clock thread does for sure: nothing may ever be there to report.
ClockRuns == (Turn /\ unread' = unread) \/ TurnGoesOn

\* The two threads of the modem run for ever; the host owes nothing.
Spec == Init /\ [][Next]_vars /\ WF_vars(ClockRuns) /\ WF_vars(Interrupt)

-----------------------------------------------------------------------------
(* Properties *)

\* Types.
TypeOK ==
  /\ host \in {"up", "gone"} /\ m_modemState \in Modes /\ m_duplex \in BOOLEAN
  /\ m_tx \in BOOLEAN /\ rotation \in BOOLEAN /\ m_transmit \in BOOLEAN
  /\ left \in [Engines -> 0 .. 1] /\ ring \in 0 .. RingLen /\ quiet \in BOOLEAN
  /\ m_watchdog \in 0 .. WatchdogLimit
  /\ turn \in {"begin", "report"} /\ unread \in 0 .. PortLen
  /\ held \in [Receivers -> {"clear", "live", "paused", "stale"}]

\* Each mode resets another list, and the way back to IDLE resets nothing.  Still no
\* receiver goes on from where it was after a block went to others: but for the base
\* station's two, which nobody resets while the mode is IDLE or DMR, and which never go
\* on from before another mode.  Nor does the rest of an identifier wait for the next
\* time the modem is in IDLE.
FreshStart ==
  /\ Turn \/ TurnBlocks =>
       \A r \in Fed : held[r] \in {"clear", "live"} \/ (r \in BaseStation /\ held[r] = "paused")
  /\ left'["CW"] > 0 => m_modemState' = "IDLE"

\* A host that is gone leaves no transmitter on, DMR's endless rotation included; but
\* for the calibration modes, which no watchdog ends, and a thread that waits for room.
Silent == host = "gone" /\ m_modemState \notin CalModes => ~m_tx

GoneIsSilent == turn = "report" \/ Silent
=============================================================================
