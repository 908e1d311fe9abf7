------------------------------- MODULE FixedTx -------------------------------
(***************************************************************************)
(* NXDNTX and DMRDMOTX: the transmitters whose frames all have one length, *)
(* so that their byte queue needs no framing.  NXDN ends a transmission    *)
(* with a tail of silence, DMR direct mode fills the other slot.           *)
(*                                                                         *)
(* A full queue refuses a frame and keeps the others.  It holds whole      *)
(* frames only, so it is a sequence of their numbers (P25Tx has the        *)
(* bytes).  As in P25Tx everything runs on the clock thread.               *)
(***************************************************************************)
EXTENDS Integers, Sequences

CONSTANTS
  FrameBytes,    \* NXDN_FRAME_LENGTH_BYTES, DMR_FRAME_LENGTH_BYTES
  CreditBytes,   \* what getSpace() divides by: 48 for frames of 48, 35 for 33
  QueueBytes,    \* sizes the host sets the queue to
  BurstBytes,    \* bytes of a frame on the air: 48, or 72 with the other slot
  PreambleBytes, \* m_preambleCnt
  TxHang,        \* m_txHang, 0 for direct mode, which has no tail
  MaxOps         \* bound: host commands in a behaviour

FixedTxAssumption ==
  /\ FrameBytes \in Nat \ {0} /\ CreditBytes >= FrameBytes /\ QueueBytes \subseteq Nat
  /\ QueueBytes # {} /\ BurstBytes >= FrameBytes
  /\ PreambleBytes \in Nat \ {0} /\ TxHang \in Nat /\ MaxOps \in Nat

VARIABLES
  m_modemState,  \* "IDLE", "own" or "other"
  m_tx,
  m_length,      \* bytes the queue was made for
  queue,         \* numbers of the frames in it
  m_poLeft, m_tailCnt,
  \* the host
  credit, ops,
  \* bookkeeping
  written,
  onAir,         \* the preamble, or the number of the last frame begun
  led,           \* a preamble was sent since TX went on, or another engine put it on
  broken,        \* the mode was left with a burst or a tail half sent
  refusedWithin  \* a frame was refused that the host had credit for

vars == <<m_modemState, m_tx, m_length, queue, m_poLeft, m_tailCnt, credit, ops,
          written, onAir, led, broken, refusedWithin>>
airVars == <<m_poLeft, m_tailCnt, onAir, led>>
queueVars == <<m_length, queue, written, refusedWithin>>

Init ==
  /\ m_modemState = "IDLE" /\ m_tx = FALSE /\ m_length \in QueueBytes /\ queue = <<>>
  /\ m_poLeft = 0 /\ m_tailCnt = 0 /\ credit = 0 /\ ops = 0
  /\ written = 0 /\ onAir = 0 /\ led = FALSE /\ broken = FALSE /\ refusedWithin = FALSE

GetSpace == m_length - Len(queue) * FrameBytes

\* Mutant: the space is rounded up.
SpaceRoundedUp == ((GetSpace + CreditBytes - 1) \div CreditBytes) % 256

\* getSpace(), an uint8_t.
FrameSpace == (GetSpace \div CreditBytes) % 256

Command == ops < MaxOps /\ ops' = ops + 1

-----------------------------------------------------------------------------
(* Host commands *)

GetStatus ==
  /\ credit' = FrameSpace
  /\ UNCHANGED <<m_modemState, m_tx, airVars, queueVars, ops, broken>>

Spend == credit' = IF credit = 0 THEN 0 ELSE credit - 1

\* CMD_NXDN_DATA, CMD_DMR_DATA2: looked at in IDLE, which it leaves, and its own mode.
DataQueued ==
  /\ Command /\ m_modemState \in {"IDLE", "own"} /\ GetSpace >= FrameBytes
  /\ written' = written + 1 /\ queue' = Append(queue, written')
  /\ m_modemState' = "own" /\ Spend
  /\ UNCHANGED <<m_tx, m_length, airVars, refusedWithin, broken>>

DataRefused ==
  /\ Command /\ m_modemState \in {"IDLE", "own"} /\ GetSpace < FrameBytes
  /\ refusedWithin' = (refusedWithin \/ credit > 0) /\ Spend
  /\ UNCHANGED <<m_modemState, m_tx, m_length, queue, written, airVars, broken>>

\* CMD_NXDN_CLEAR, honoured in IDLE (and in P25); direct mode has no such command.
Clear ==
  /\ Command /\ TxHang > 0 /\ m_modemState \in {"IDLE", "other"} /\ queue # <<>>
  /\ queue' = <<>>
  /\ UNCHANGED <<m_modemState, m_tx, m_length, written, refusedWithin, airVars, credit, broken>>

\* CMD_SET_BUFFERS, in IDLE.  The host asks again what there is room for.
SetBuffers(size) ==
  /\ Command /\ m_modemState = "IDLE" /\ size # m_length
  /\ m_length' = size /\ queue' = <<>> /\ credit' = 0
  /\ UNCHANGED <<m_modemState, m_tx, written, refusedWithin, airVars, broken>>

\* CMD_SET_MODE, or the watchdog: the engine keeps what it has.
SetMode(mode) ==
  /\ Command /\ mode # m_modemState
  /\ m_modemState' = mode
  /\ broken' = (broken \/ m_poLeft > 0 \/ m_tailCnt > 0)
  /\ UNCHANGED <<m_tx, airVars, queueVars, credit>>

-----------------------------------------------------------------------------
(* process(), called in the engine's own mode *)

Idle == queue = <<>> /\ m_poLeft = 0

\* Some silence, until the tail is over.
TailSilence ==
  /\ m_modemState = "own" /\ Idle
  /\ m_tailCnt' \in 0 .. m_tailCnt - 1
  /\ m_tx' = TRUE
  /\ UNCHANGED <<m_modemState, m_poLeft, onAir, led, queueVars, credit, ops, broken>>

\* With TX off the preamble, and the frame stays in the queue.
BeginPreamble ==
  /\ m_modemState = "own" /\ m_poLeft = 0 /\ queue # <<>> /\ ~m_tx
  /\ m_poLeft' = PreambleBytes
  /\ m_tx' = TRUE /\ led' = TRUE
  /\ UNCHANGED <<m_modemState, m_tailCnt, onAir, queueVars, credit, ops, broken>>

BeginFrame ==
  /\ m_modemState = "own" /\ m_poLeft = 0 /\ queue # <<>> /\ m_tx
  /\ queue' = Tail(queue) /\ onAir' = Head(queue)
  /\ m_poLeft' = BurstBytes
  /\ UNCHANGED <<m_modemState, m_tx, m_length, m_tailCnt, led, written, refusedWithin, credit, ops, broken>>

\* Bytes go to IO::write() as the transmit ring has room, and restart the tail.
SendBytes ==
  /\ m_modemState = "own"
  /\ m_poLeft' \in 0 .. m_poLeft - 1
  /\ m_tailCnt' = TxHang /\ m_tx' = TRUE
  /\ UNCHANGED <<m_modemState, onAir, led, queueVars, credit, ops, broken>>

Busy == m_poLeft > 0 \/ m_tailCnt > 0 \/ queue # <<>>

\* IO::process() drops TX after a gap of TX_HANG_MS, which an engine that is called and
\* has something to send does not leave.
TxOff ==
  /\ m_tx /\ (m_modemState = "own" => ~Busy)
  /\ m_tx' = FALSE /\ led' = FALSE
  /\ UNCHANGED <<m_modemState, m_poLeft, m_tailCnt, onAir, queueVars, credit, ops, broken>>

\* In another mode it is another engine that asserts TX.
OtherEngine ==
  /\ m_modemState # "own" /\ ~m_tx
  /\ m_tx' = TRUE /\ led' = TRUE
  /\ UNCHANGED <<m_modemState, m_poLeft, m_tailCnt, onAir, queueVars, credit, ops, broken>>

Host ==
  \/ GetStatus \/ DataQueued \/ DataRefused \/ Clear
  \/ \E size \in QueueBytes : SetBuffers(size)
  \/ \E mode \in {"IDLE", "own", "other"} : SetMode(mode)

Process == TailSilence \/ BeginPreamble \/ BeginFrame \/ SendBytes

Next == Host \/ Process \/ OtherEngine \/ TxOff

\* The clock thread calls process() for ever; the host owes nothing.
Spec == Init /\ [][Next]_vars /\ WF_vars(Process) /\ WF_vars(TxOff)

-----------------------------------------------------------------------------
(* Properties *)

\* Types.
TypeOK ==
  /\ m_modemState \in {"IDLE", "own", "other"} /\ m_tx \in BOOLEAN /\ m_length \in QueueBytes
  /\ queue \in Seq(1 .. written) /\ GetSpace >= 0
  /\ m_poLeft \in 0 .. (IF PreambleBytes > BurstBytes THEN PreambleBytes ELSE BurstBytes)
  /\ m_tailCnt \in 0 .. TxHang /\ credit \in 0 .. 255 /\ ops \in 0 .. MaxOps
  /\ onAir \in 0 .. written /\ {led, broken, refusedWithin} \subseteq BOOLEAN

\* A receiver needs the preamble to lock on: a frame follows one, or what another
\* engine has sent, with no pause of TX between, unless the mode was left half way.
\* Frames go out in the order written, none twice.
FrameLed == onAir' # onAir => onAir' > onAir /\ (broken \/ led)
\* A host that sends no more frames than the last status allowed has none refused,
\* although direct mode's credit counts frames two bytes longer than they are.
CreditIsKept == ~refusedWithin

\* Once the host is quiet, an engine that is called sends what it has, tail included,
\* and TX goes off.
Silent == m_modemState = "own" => ~Busy /\ ~m_tx
FallsSilent == <>[]Silent
=============================================================================
