-------------------------------- MODULE DmrTx --------------------------------
(***************************************************************************)
(* DMRTX: the duplex DMR transmitter of a modem, with the host commands    *)
(* that drive it (SerialPort) and the modem states it runs in.             *)
(*                                                                         *)
(* Everything here runs on the clock thread: a host command, a pass of     *)
(* process() and the watchdog are atomic to one another, and what is hard  *)
(* is their order.  The transmitter emits a fixed rotation of bursts,      *)
(* slot 1, CACH 2, slot 2, CACH 1, filled from two frame queues, from the  *)
(* short link control and from idle bursts.  Frames and link controls are  *)
(* numbered as the host writes them; a burst is so many bytes still to be  *)
(* put on the air (the transmit ring and the antenna are in TxPath).       *)
(***************************************************************************)
EXTENDS Naturals, Sequences

CONSTANTS
  FrameBytes,    \* DMR_FRAME_LENGTH_BYTES
  CachBytes,     \* DMR_CACH_LENGTH_BYTES
  BufferLens,    \* sizes a host may give the queues, DMR_TX_BUFFER_LEN first of all
  DefaultLen,    \* DMR_TX_BUFFER_LEN
  StartupCount,  \* STARTUP_COUNT
  AbortCount,    \* ABORT_COUNT
  MaxOps         \* bound: host commands in a behaviour

ASSUME DmrTxAssumption ==
  /\ FrameBytes \in Nat \ {0}
  /\ CachBytes \in Nat \ {0}
  /\ BufferLens \subseteq Nat
  /\ DefaultLen \in BufferLens
  /\ StartupCount \in Nat
  /\ AbortCount \in Nat
  /\ MaxOps \in Nat

Slots == {1, 2}
Other(s) == 3 - s
Empty == 0            \* EMPTY_SHORT_LC
Fragments == 4        \* a 12 byte short LC goes out 3 bytes per CACH

VARIABLES
  m_modemState,  \* "IDLE", "DMR" or "P25"
  m_tx,          \* Modem::m_tx
  m_state,       \* DMRTXSTATE: "IDLE", "SLOT1", "CACH2", "SLOT2", "CACH1"
  m_fifo,        \* the frames queued per slot
  fifoLen,       \* m_length of the two queues, in bytes
  m_poLeft,      \* bytes of m_poBuffer not yet written (m_poLen - m_poPtr)
  m_frameCount,  \* CACHs since the start, saturating at StartupCount
  m_abortCount,  \* CACHs since the last abort per slot, saturating at AbortCount
  m_abort,       \* an abort is pending per slot
  m_cachPtr,     \* next fragment of the short LC
  m_shortLC,     \* the short LC being sent
  m_newShortLC,  \* the short LC last written by the host
  \* the host
  credit,        \* frames the host may still send per slot, from the last status
  ops,           \* host commands so far
  \* bookkeeping
  written,       \* frames written so far
  sent,          \* per slot, the last frame put into a burst
  burst,         \* kind of the last burst since TX came on, or "none"
  round,         \* the short LCs the fragments of this round were taken from
  overdrawn,     \* the host has written a frame without credit
  lost           \* a queue with frames in it was emptied because it was full

lcVars   == <<m_cachPtr, m_shortLC, m_newShortLC, round>>
countVars == <<m_frameCount, m_abortCount>>
airVars  == <<m_poLeft, sent, burst>>
hostVars == <<credit, ops, overdrawn>>
vars == <<m_modemState, m_tx, m_state, m_fifo, fifoLen, m_abort, lcVars, countVars, airVars,
          hostVars, written, lost>>

Init ==
  /\ m_modemState = "IDLE" /\ m_tx = FALSE /\ m_state = "IDLE"
  /\ m_fifo = [s \in Slots |-> <<>>] /\ fifoLen = DefaultLen
  /\ m_poLeft = 0 /\ m_frameCount = 0
  /\ m_abortCount = [s \in Slots |-> 0] /\ m_abort = [s \in Slots |-> FALSE]
  /\ m_cachPtr = 0 /\ m_shortLC = Empty /\ m_newShortLC = Empty
  /\ credit = [s \in Slots |-> 0] /\ ops = 0 /\ written = 0
  /\ sent = [s \in Slots |-> 0] /\ burst = "none" /\ round = <<>>
  /\ overdrawn = FALSE /\ lost = FALSE

-----------------------------------------------------------------------------
(* The queues *)

\* SerialBuffer::getSpace(): only whole frames are ever put or taken.
SpaceBytes(s) == fifoLen - FrameBytes * Len(m_fifo[s])

\* Mutant: the status does not leave room for a whole frame.
FrameSpaceRoundedUp(s) == (SpaceBytes(s) \div FrameBytes + 1) % 256

\* getSpace1(), getSpace2(): what the host is told, an uint8_t.
FrameSpace(s) == (SpaceBytes(s) \div (FrameBytes + 2)) % 256

Saturate(n, max) == IF n < max THEN n + 1 ELSE n

Command == ops < MaxOps /\ ops' = ops + 1

-----------------------------------------------------------------------------
(* Host commands, as SerialPort::process() dispatches them *)

\* CMD_GET_STATUS: the host learns how many frames it may send.
GetStatus ==
  /\ Command
  /\ credit' = [s \in Slots |-> FrameSpace(s)]
  /\ UNCHANGED <<m_modemState, m_tx, m_state, m_fifo, fifoLen, m_abort, lcVars, countVars,
                 airVars, written, overdrawn, lost>>

Spend(s) ==
  /\ credit' = [credit EXCEPT ![s] = IF @ = 0 THEN 0 ELSE @ - 1]
  /\ overdrawn' = (overdrawn \/ credit[s] = 0)

\* CMD_DMR_DATA1/2 with no room for the frame: the whole queue is emptied and
\* the host gets RSN_RINGBUFF_FULL.
DataRefused(s) ==
  /\ Command
  /\ m_modemState \in {"IDLE", "DMR"}
  /\ SpaceBytes(s) < FrameBytes
  /\ m_fifo' = [m_fifo EXCEPT ![s] = <<>>]
  /\ lost' = (lost \/ m_fifo[s] # <<>>)
  /\ Spend(s)
  /\ UNCHANGED <<m_modemState, m_tx, m_state, fifoLen, m_abort, lcVars, countVars, airVars,
                 written>>

\* Mutant: the room for the frame is not looked at.
DataQueuedUnchecked(s) ==
  /\ Command
  /\ m_modemState \in {"IDLE", "DMR"}
  /\ written' = written + 1
  /\ m_fifo' = [m_fifo EXCEPT ![s] = IF m_abort[s] THEN <<written'>> ELSE Append(@, written')]
  /\ m_abort' = [m_abort EXCEPT ![s] = FALSE]
  /\ m_state' = IF m_tx THEN m_state ELSE "SLOT1"
  /\ m_modemState' = "DMR"
  /\ Spend(s)
  /\ UNCHANGED <<m_tx, fifoLen, lcVars, countVars, airVars, lost>>

\* CMD_DMR_DATA1/2 with room: a pending abort empties the queue first, data
\* starts the rotation if TX is off, and a modem in IDLE goes to DMR.
DataQueued(s) ==
  /\ Command
  /\ m_modemState \in {"IDLE", "DMR"}
  /\ SpaceBytes(s) >= FrameBytes
  /\ written' = written + 1
  /\ m_fifo' = [m_fifo EXCEPT ![s] = IF m_abort[s] THEN <<written'>> ELSE Append(@, written')]
  /\ m_abort' = [m_abort EXCEPT ![s] = FALSE]
  /\ m_state' = IF m_tx THEN m_state ELSE "SLOT1"
  /\ m_modemState' = "DMR"
  /\ Spend(s)
  /\ UNCHANGED <<m_tx, fifoLen, lcVars, countVars, airVars, lost>>

\* setStart()
SetStart(start) ==
  /\ m_state' = IF start THEN "SLOT1" ELSE "IDLE"
  /\ m_frameCount' = 0
  /\ m_abortCount' = [s \in Slots |-> IF s = 2 THEN Saturate(0, AbortCount) ELSE 0]
  /\ m_abort' = [s \in Slots |-> FALSE]

\* Mutant: the rotation is restarted although TX is on.
StartWhileOn(start) ==
  /\ Command
  /\ m_modemState = "DMR"
  /\ SetStart(start)
  /\ UNCHANGED <<m_modemState, m_tx, m_fifo, fifoLen, lcVars, airVars, credit, written,
                 overdrawn, lost>>

\* CMD_DMR_START: starts only with TX off and stops only with TX on.
Start(start) ==
  /\ Command
  /\ m_modemState = "DMR"
  /\ start = ~m_tx
  /\ SetStart(start)
  /\ UNCHANGED <<m_modemState, m_tx, m_fifo, fifoLen, lcVars, airVars, credit, written,
                 overdrawn, lost>>

\* CMD_DMR_SHORTLC
WriteShortLC ==
  /\ Command
  /\ m_newShortLC' = m_newShortLC + 1
  /\ UNCHANGED <<m_modemState, m_tx, m_state, m_fifo, fifoLen, m_abort, m_cachPtr, m_shortLC,
                 round, countVars, airVars, credit, written, overdrawn, lost>>

\* CMD_DMR_ABORT
WriteAbort(s) ==
  /\ Command
  /\ m_abort' = [m_abort EXCEPT ![s] = TRUE]
  /\ m_abortCount' = [m_abortCount EXCEPT ![s] = 0]
  /\ UNCHANGED <<m_modemState, m_tx, m_state, m_fifo, fifoLen, lcVars, m_frameCount, airVars,
                 credit, written, overdrawn, lost>>

\* CMD_DMR_CLEAR1/2, honoured in IDLE and in P25.
Clear(s) ==
  /\ Command
  /\ m_modemState \in {"IDLE", "P25"}
  /\ m_fifo' = [m_fifo EXCEPT ![s] = <<>>]
  /\ UNCHANGED <<m_modemState, m_tx, m_state, fifoLen, m_abort, lcVars, countVars, airVars,
                 credit, written, overdrawn, lost>>

\* CMD_SET_BUFFERS, honoured in IDLE; the host asks for the status again before
\* it trusts a credit.
SetBuffers(len) ==
  /\ Command
  /\ m_modemState = "IDLE"
  /\ m_fifo' = [s \in Slots |-> <<>>]
  /\ fifoLen' = len
  /\ credit' = [s \in Slots |-> 0]
  /\ UNCHANGED <<m_modemState, m_tx, m_state, m_abort, lcVars, countVars, airVars, written,
                 overdrawn, lost>>

\* CMD_SET_MODE: the transmitter keeps its state and its queues.
SetMode(mode) ==
  /\ Command
  /\ m_modemState # mode
  /\ m_modemState' = mode
  /\ UNCHANGED <<m_tx, m_state, m_fifo, fifoLen, m_abort, lcVars, countVars, airVars, credit,
                 written, overdrawn, lost>>

\* The watchdog in IO::process(): a transmitting DMR modem is stopped, and DMR
\* and P25 fall back to IDLE.  It runs out only when the host has gone quiet.
WatchdogExpires ==
  /\ Command
  /\ m_modemState # "IDLE"
  /\ m_modemState' = "IDLE"
  /\ IF m_modemState = "DMR" /\ m_tx
       THEN SetStart(FALSE)
       ELSE UNCHANGED <<m_state, m_frameCount, m_abortCount, m_abort>>
  /\ UNCHANGED <<m_tx, m_fifo, fifoLen, lcVars, airVars, credit, written, overdrawn, lost>>

-----------------------------------------------------------------------------
(* DMRTX::process(), called while the modem is in DMR *)

\* Mutant: the bursts of a slot are gated by the other slot's queue.
CreateDataWrongSlot(s) ==
  /\ IF m_fifo[Other(s)] # <<>> /\ m_frameCount >= StartupCount /\ m_abortCount[s] >= AbortCount
       THEN /\ sent' = [sent EXCEPT ![s] = Head(m_fifo[Other(s)])]
            /\ m_fifo' = [m_fifo EXCEPT ![Other(s)] = Tail(@)]
            /\ UNCHANGED m_abort
       ELSE /\ m_abort' = [m_abort EXCEPT ![s] = FALSE]
            /\ UNCHANGED <<m_fifo, sent>>
  /\ burst' = IF s = 1 THEN "SLOT1" ELSE "SLOT2"
  /\ m_poLeft' = FrameBytes
  /\ UNCHANGED <<lcVars, countVars>>

\* createData(): the oldest frame of the slot once start-up and abort counts
\* have run, otherwise an idle burst, which drops a pending abort.
CreateData(s) ==
  /\ IF m_fifo[s] # <<>> /\ m_frameCount >= StartupCount /\ m_abortCount[s] >= AbortCount
       THEN /\ sent' = [sent EXCEPT ![s] = Head(m_fifo[s])]
            /\ m_fifo' = [m_fifo EXCEPT ![s] = Tail(@)]
            /\ UNCHANGED m_abort
       ELSE /\ m_abort' = [m_abort EXCEPT ![s] = FALSE]
            /\ UNCHANGED <<m_fifo, sent>>
  /\ burst' = IF s = 1 THEN "SLOT1" ELSE "SLOT2"
  /\ m_poLeft' = FrameBytes
  /\ UNCHANGED <<lcVars, countVars>>

\* The short LC of a round is chosen with its first fragment.
RoundLC == IF m_fifo[1] = <<>> /\ m_fifo[2] = <<>> THEN Empty ELSE m_newShortLC

\* Mutant: the short LC is looked up for every fragment.
CreateCACHFresh(s) ==
  LET first == m_cachPtr = Fragments IN
  /\ m_frameCount' = Saturate(m_frameCount, StartupCount)
  /\ m_abortCount' = [t \in Slots |-> Saturate(m_abortCount[t], AbortCount)]
  /\ m_shortLC' = RoundLC
  /\ round' = IF first THEN <<m_shortLC'>> ELSE Append(round, m_shortLC')
  /\ m_cachPtr' = IF first THEN 1 ELSE m_cachPtr + 1
  /\ burst' = IF s = 1 THEN "CACH1" ELSE "CACH2"
  /\ m_poLeft' = CachBytes
  /\ UNCHANGED <<m_newShortLC, m_fifo, m_abort, sent>>

\* Mutant: the abort count of slot 2 is not advanced.
CreateCACHSlot1Only(s) ==
  LET first == m_cachPtr \in {0, Fragments} IN
  /\ m_frameCount' = Saturate(m_frameCount, StartupCount)
  /\ m_abortCount' = [m_abortCount EXCEPT ![1] = Saturate(@, AbortCount)]
  /\ m_shortLC' = IF first THEN RoundLC ELSE m_shortLC
  /\ round' = IF first THEN <<m_shortLC'>> ELSE Append(round, m_shortLC')
  /\ m_cachPtr' = IF first THEN 1 ELSE m_cachPtr + 1
  /\ burst' = IF s = 1 THEN "CACH1" ELSE "CACH2"
  /\ m_poLeft' = CachBytes
  /\ UNCHANGED <<m_newShortLC, m_fifo, m_abort, sent>>

\* createCACH(): counts, then the next fragment of the short LC.
CreateCACH(s) ==
  LET first == m_cachPtr \in {0, Fragments} IN
  /\ m_frameCount' = Saturate(m_frameCount, StartupCount)
  /\ m_abortCount' = [t \in Slots |-> Saturate(m_abortCount[t], AbortCount)]
  /\ m_shortLC' = IF first THEN RoundLC ELSE m_shortLC
  /\ round' = IF first THEN <<m_shortLC'>> ELSE Append(round, m_shortLC')
  /\ m_cachPtr' = IF first THEN 1 ELSE m_cachPtr + 1
  /\ burst' = IF s = 1 THEN "CACH1" ELSE "CACH2"
  /\ m_poLeft' = CachBytes
  /\ UNCHANGED <<m_newShortLC, m_fifo, m_abort, sent>>

Follows == [SLOT1 |-> "CACH2", CACH2 |-> "SLOT2", SLOT2 |-> "CACH1", CACH1 |-> "SLOT1"]

\* A pass that begins a burst: it is created for m_state, the rotation moves on,
\* and TX is asserted.  m_poLeft bytes of it remain for SendBytes.
BeginBurst ==
  /\ m_modemState = "DMR"
  /\ m_state # "IDLE"
  /\ m_poLeft = 0
  /\ \/ m_state = "SLOT1" /\ CreateData(1)
     \/ m_state = "CACH2" /\ CreateCACH(2)
     \/ m_state = "SLOT2" /\ CreateData(2)
     \/ m_state = "CACH1" /\ CreateCACH(1)
  /\ m_state' = Follows[m_state]
  /\ m_tx' = TRUE
  /\ UNCHANGED <<m_modemState, fifoLen, hostVars, written, lost>>

\* The bytes of the burst go to IO::write() as the transmit ring has room; a
\* pass that finds some left asserts TX again.
SendBytes ==
  /\ m_modemState = "DMR"
  /\ m_state # "IDLE"
  /\ m_poLeft > 0
  /\ m_poLeft' \in 0 .. m_poLeft - 1
  /\ m_tx' = TRUE
  /\ UNCHANGED <<m_modemState, m_state, m_fifo, fifoLen, m_abort, lcVars, countVars, sent, burst,
                 hostVars, written, lost>>

\* IO::process() drops TX after a gap; TxPath says when.
TxOff ==
  /\ m_tx
  /\ m_tx' = FALSE
  /\ burst' = "none"
  /\ UNCHANGED <<m_modemState, m_state, m_fifo, fifoLen, m_abort, lcVars, countVars, m_poLeft,
                 sent, hostVars, written, lost>>

HostStep ==
  \/ GetStatus
  \/ \E s \in Slots : DataRefused(s) \/ DataQueued(s) \/ WriteAbort(s) \/ Clear(s)
  \/ \E start \in BOOLEAN : Start(start)
  \/ WriteShortLC
  \/ \E len \in BufferLens : SetBuffers(len)
  \/ \E mode \in {"IDLE", "DMR", "P25"} : SetMode(mode)
  \/ WatchdogExpires

Next == HostStep \/ BeginBurst \/ SendBytes \/ TxOff

\* The clock thread calls process() for ever and the tx thread makes room in the
\* transmit ring; the host and the gaps that drop TX owe nothing.
Spec == Init /\ [][Next]_vars /\ WF_vars(BeginBurst \/ SendBytes)

-----------------------------------------------------------------------------
(***************************************************************************)
(* Properties                                                              *)
(***************************************************************************)

\* The shape of the state.
TypeOK ==
  /\ m_modemState \in {"IDLE", "DMR", "P25"} /\ m_tx \in BOOLEAN
  /\ m_state \in {"IDLE"} \cup DOMAIN Follows
  /\ m_fifo \in [Slots -> Seq(Nat)] /\ fifoLen \in BufferLens
  /\ m_poLeft \in Nat
  /\ m_frameCount \in 0 .. StartupCount
  /\ m_abortCount \in [Slots -> 0 .. AbortCount] /\ m_abort \in [Slots -> BOOLEAN]
  /\ m_cachPtr \in 0 .. Fragments /\ m_shortLC \in Nat /\ m_newShortLC \in Nat
  /\ credit \in [Slots -> 0 .. 255] /\ ops \in Nat /\ written \in Nat
  /\ sent \in [Slots -> Nat] /\ burst \in {"none"} \cup DOMAIN Follows
  /\ round \in Seq(Nat) /\ overdrawn \in BOOLEAN /\ lost \in BOOLEAN
  /\ \A s \in Slots : FrameBytes * Len(m_fifo[s]) <= fifoLen

\* While TX stays on, the bursts come in the fixed rotation of a base station,
\* whatever data, starts, stops, aborts and mode changes the host sends.
RotationKept ==
  [][m_poLeft = 0 /\ m_poLeft' > 0 /\ burst # "none" => burst' = Follows[burst]]_vars

\* A short link control goes out whole: its four fragments are never taken from
\* two link controls, although the host may write a new one at any time.
ShortLCWhole == \A i, j \in 1 .. Len(round) : round[i] = round[j]

\* A slot's frames go out in the order they were written, none twice, and none
\* in the other slot.
FramesInOrder ==
  \A s \in Slots : LET q == <<sent[s]>> \o m_fifo[s]
                   IN  \A i, j \in 1 .. Len(q) : i < j => q[i] < q[j]

\* A host that sends no more frames than the last status allowed never has a
\* queue thrown away: getSpace1/2() never promises what writeData1/2() refuses.
CreditProtects == lost => overdrawn

Running == m_modemState = "DMR" /\ m_state # "IDLE"

\* Once the host is quiet, a running rotation sends what is queued, whatever
\* start-up and abort counts are still to run.
RunningDrains == <>[](Running => \A s \in Slots : m_fifo[s] = <<>>)
=============================================================================
