------------------------------- MODULE TxPath --------------------------------
(***************************************************************************)
(* The transmit path of one modem, from IO::write() to the antenna.        *)
(*                                                                         *)
(*   clock thread   the protocol engines call setTransmit() and write();   *)
(*                  IO::process() decides when the transmitter goes off    *)
(*   tx thread      txThreadHelper()/interrupt(): moves samples from the   *)
(*                  ring to a staging frame and hands whole frames to the  *)
(*                  RadioManager                                           *)
(*   radio thread   the GNU Radio work functions ModemTxIqSource and       *)
(*                  ModemTxGate, which pull samples and radiate them       *)
(*                                                                         *)
(* m_txLock guards the ring and the staging frame; RadioManager::m_lock    *)
(* guards the radio's queues and the active flag.  A critical section that *)
(* is short and takes no other lock is one step; interrupt() holds         *)
(* m_txLock over a loop and takes m_lock inside it, so it is taken apart.  *)
(*                                                                         *)
(* Samples are numbered in the order they are written, and a control mark  *)
(* carries the number of the sample it was written with, so that the order *)
(* of samples and the pairing of marks with samples can be stated.  The    *)
(* ring is the FIFO that SampleRing is shown to implement.                 *)
(*                                                                         *)
(* The watchdog at the top of IO::process() and the receive loop at its    *)
(* end are left out: they touch none of the state kept here except         *)
(* m_lockout, which the receive loop only reads.                           *)
(***************************************************************************)
EXTENDS Integers, Sequences

CONSTANTS
  RingSize,    \* TX_RINGBUFFER_SIZE, in samples
  BlockLen,    \* samples of one write(): one byte of symbols
  FrameLen,    \* TX_FRAME_SAMPLES
  RadioCap,    \* samples RadioManager keeps for a channel
  HangTicks,   \* TX_HANG_MS in clock ticks
  MaxOps,      \* bound: engine operations (write, setTransmit) in a behaviour
  CosLockoutEnable, \* Modem::m_cosLockoutEnable
  PttInvert    \* IO::m_pttInvert

ASSUME TxPathAssumption ==
  /\ RingSize \in Nat \ {0}
  /\ BlockLen \in Nat \ {0}
  /\ FrameLen \in Nat \ {0}
  /\ RadioCap \in Nat \ {0}
  /\ HangTicks \in Nat \ {0}
  /\ MaxOps \in Nat
  /\ CosLockoutEnable \in BOOLEAN
  /\ PttInvert \in BOOLEAN

VARIABLES
  \* modem flags, written by the clock thread only
  m_tx,            \* Modem::m_tx
  m_lockout,       \* IO::m_lockout
  m_ptt,           \* IO::m_ptt, the PTT line
  m_cosInt,        \* IO::m_cosInt, set by the receivers' setDecode()
  idleTicks,       \* ticks since m_txLastActivityMs, saturating at HangTicks
  \* behind m_txLock
  txLock,          \* who holds m_txLock: "none" or "tx"
  m_txBuffer,      \* the transmit ring
  m_overflow,      \* its overflow latch
  m_audioBufTx,    \* staging frame: samples
  m_controlBufTx,  \* staging frame: control marks
  \* behind RadioManager::m_lock
  txActive,        \* ChannelState::txActive
  txSampleQueue,   \* ChannelState::txSampleQueue
  txControlQueue,  \* ChannelState::txControlQueue
  \* program counters and locals
  clk,             \* clock thread
  pending,         \* hasPendingTxRing in IO::process()
  txt,             \* tx thread
  gr,              \* radio thread
  inFlight,        \* the sample between the source block and the gate (0: none)
  onAir,           \* the last sample radiated (0: none yet)
  \* bookkeeping
  nextSample,      \* number of the next sample to be written
  ops,             \* engine operations so far
  partialFlush     \* a staging frame with samples in it was thrown away

flagVars  == <<m_tx, m_lockout, m_ptt, m_cosInt, idleTicks>>
stageVars == <<txLock, m_txBuffer, m_overflow, m_audioBufTx, m_controlBufTx>>
radioVars == <<txActive, txSampleQueue, txControlQueue>>
grVars    == <<gr, inFlight, onAir>>
auxVars   == <<nextSample, ops, partialFlush>>
vars == <<flagVars, stageVars, radioVars, grVars, auxVars, clk, pending, txt>>

Init ==
  /\ m_tx = FALSE /\ m_lockout = FALSE /\ m_ptt = FALSE /\ m_cosInt = FALSE
  /\ idleTicks = HangTicks        \* m_txLastActivityMs == 0U counts as expired
  /\ txLock = "none" /\ m_txBuffer = <<>> /\ m_overflow = FALSE
  /\ m_audioBufTx = <<>> /\ m_controlBufTx = <<>>
  /\ txActive = FALSE /\ txSampleQueue = <<>> /\ txControlQueue = <<>>
  /\ clk = "idle" /\ pending = FALSE /\ txt = "poll"
  /\ gr = "source" /\ inFlight = 0 /\ onAir = 0
  /\ nextSample = 1 /\ ops = 0 /\ partialFlush = FALSE

-----------------------------------------------------------------------------
(* Environment *)

\* Time passes: nowMs - m_txLastActivityMs grows.
Tick ==
  /\ idleTicks < HangTicks
  /\ idleTicks' = idleTicks + 1
  /\ UNCHANGED <<m_tx, m_lockout, m_ptt, m_cosInt, stageVars, radioVars, grVars,
                 auxVars, clk, pending, txt>>

\* A receiver detects or loses a carrier (IO::setDecode, called by the clock
\* thread from the receive loop).
SetDecode ==
  /\ clk = "idle"
  /\ m_cosInt' = ~m_cosInt
  /\ UNCHANGED <<m_tx, m_lockout, m_ptt, idleTicks, stageVars, radioVars, grVars,
                 auxVars, clk, pending, txt>>

-----------------------------------------------------------------------------
(* Clock thread: IO::setTransmit() and IO::write() *)

Block == [k \in 1 .. BlockLen |-> nextSample + k - 1]

\* IO::getSpace() is read without m_txLock.  One atomic read stands for it:
\* SampleRing shows that an interrupted one never promises more than fits.
Space == RingSize - Len(m_txBuffer)

\* IO::setTransmit(): asserts TX unless it is on.
SetTransmit ==
  /\ clk = "idle"
  /\ ops < MaxOps
  /\ ~m_tx
  /\ m_tx' = TRUE
  /\ clk' = "keyOnly"
  /\ ops' = ops + 1
  /\ UNCHANGED <<m_lockout, m_ptt, m_cosInt, idleTicks, stageVars, radioVars, grVars,
                 nextSample, partialFlush, pending, txt>>

\* Mutant: the engine does not ask getSpace().
WriteBeginNoBudget ==
  /\ clk = "idle" /\ ops < MaxOps /\ ~m_lockout
  /\ m_tx' = TRUE
  /\ clk' = IF m_tx THEN "put" ELSE "keyAndPut"
  /\ ops' = ops + 1
  /\ UNCHANGED <<m_lockout, m_ptt, m_cosInt, idleTicks, stageVars, radioVars, grVars,
                 nextSample, partialFlush, pending, txt>>

\* IO::write() up to the key-up test.  Every engine calls it only while
\* getSpace() exceeds the block; the code returns early under lockout.
WriteBegin ==
  /\ clk = "idle"
  /\ ops < MaxOps
  /\ Space > BlockLen
  /\ ~m_lockout
  /\ m_tx' = TRUE
  /\ clk' = IF m_tx THEN "put" ELSE "keyAndPut"
  /\ ops' = ops + 1
  /\ UNCHANGED <<m_lockout, m_ptt, m_cosInt, idleTicks, stageVars, radioVars, grVars,
                 nextSample, partialFlush, pending, txt>>

\* The rest of the key-up: setModemTxActive(true), the activity stamp, PTT.
KeyUp ==
  /\ clk \in {"keyOnly", "keyAndPut"}
  /\ txActive' = TRUE
  /\ idleTicks' = 0
  /\ m_ptt' = ~PttInvert
  /\ clk' = IF clk = "keyOnly" THEN "idle" ELSE "put"
  /\ UNCHANGED <<m_tx, m_lockout, m_cosInt, stageVars, txSampleQueue, txControlQueue,
                 grVars, auxVars, pending, txt>>

\* The put loop of write(), under m_txLock: what fits is stored, the rest is
\* dropped and latched as an overflow by SampleBuffer::put().
PutBlock ==
  /\ clk = "put"
  /\ txLock = "none"
  /\ IF BlockLen <= Space
       THEN /\ m_txBuffer' = m_txBuffer \o Block
            /\ UNCHANGED m_overflow
       ELSE /\ m_txBuffer' = m_txBuffer \o SubSeq(Block, 1, Space)
            /\ m_overflow' = TRUE
  /\ nextSample' = nextSample + BlockLen
  /\ clk' = "stamp"
  /\ UNCHANGED <<flagVars, txLock, m_audioBufTx, m_controlBufTx, radioVars, grVars,
                 ops, partialFlush, pending, txt>>

\* write() ends by stamping the activity time, outside the lock.
Stamp ==
  /\ clk = "stamp"
  /\ idleTicks' = 0
  /\ clk' = "idle"
  /\ UNCHANGED <<m_tx, m_lockout, m_ptt, m_cosInt, stageVars, radioVars, grVars,
                 auxVars, pending, txt>>

-----------------------------------------------------------------------------
(* Clock thread: the transmit half of IO::process() *)

\* The COS line locks the transmitter out, and the ring is polled under m_txLock.
ProcessPoll ==
  /\ clk = "idle"
  /\ txLock = "none"
  /\ m_lockout' = IF CosLockoutEnable THEN m_cosInt ELSE m_lockout
  /\ pending' = (m_txBuffer # <<>>)
  /\ clk' = "decide"
  /\ UNCHANGED <<m_tx, m_ptt, m_cosInt, idleTicks, stageVars, radioVars, grVars,
                 auxVars, txt>>

HangExpired == idleTicks >= HangTicks

\* Mutant: the emptiness of the ring is not looked at.
ProcessOnHangOnly ==
  /\ clk = "decide" /\ m_tx
  /\ clk' = IF HangExpired THEN "flush" ELSE "idle"
  /\ UNCHANGED <<flagVars, stageVars, radioVars, grVars, auxVars, pending, txt>>

\* Mutant: no hang time.
ProcessOnNoHang ==
  /\ clk = "decide" /\ m_tx
  /\ clk' = IF ~pending THEN "flush" ELSE "idle"
  /\ UNCHANGED <<flagVars, stageVars, radioVars, grVars, auxVars, pending, txt>>

\* Mutant: the decision is gated on the staging frame, the error the comment in
\* process() warns of.
ProcessOnGatedByStaging ==
  /\ clk = "decide" /\ m_tx
  /\ clk' = IF ~pending /\ m_audioBufTx = <<>> /\ HangExpired THEN "flush" ELSE "idle"
  /\ UNCHANGED <<flagVars, stageVars, radioVars, grVars, auxVars, pending, txt>>

\* TX is on: it goes off when the ring was empty and the hang time is over.
ProcessOn ==
  /\ clk = "decide"
  /\ m_tx
  /\ clk' = IF ~pending /\ HangExpired THEN "flush" ELSE "idle"
  /\ UNCHANGED <<flagVars, stageVars, radioVars, grVars, auxVars, pending, txt>>

\* TX is off: the radio channel is told so on every pass.
ProcessOff ==
  /\ clk = "decide"
  /\ ~m_tx
  /\ txActive' = FALSE
  /\ clk' = "idle"
  /\ UNCHANGED <<flagVars, stageVars, txSampleQueue, txControlQueue, grVars, auxVars,
                 pending, txt>>

\* "flush any partial staging frame": the samples are cleared under m_txLock,
\* then m_tx drops.  The control marks stay.
Flush ==
  /\ clk = "flush"
  /\ txLock = "none"
  /\ m_audioBufTx' = <<>>
  /\ partialFlush' = (partialFlush \/ m_audioBufTx # <<>>)
  /\ m_tx' = FALSE
  /\ clk' = "unkey"
  /\ UNCHANGED <<m_lockout, m_ptt, m_cosInt, idleTicks, txLock, m_txBuffer, m_overflow,
                 m_controlBufTx, radioVars, grVars, nextSample, ops, pending, txt>>

\* Mutant: the radio channel is not told.
UnkeyPttOnly ==
  /\ clk = "unkey"
  /\ m_ptt' = PttInvert
  /\ clk' = "idle"
  /\ UNCHANGED <<m_tx, m_lockout, m_cosInt, idleTicks, stageVars, radioVars, grVars,
                 auxVars, pending, txt>>

\* setModemTxActive(false) and the PTT line.
Unkey ==
  /\ clk = "unkey"
  /\ txActive' = FALSE
  /\ m_ptt' = PttInvert
  /\ clk' = "idle"
  /\ UNCHANGED <<m_tx, m_lockout, m_cosInt, idleTicks, stageVars, txSampleQueue,
                 txControlQueue, grVars, auxVars, pending, txt>>

-----------------------------------------------------------------------------
(* Tx thread: txThreadHelper() and interrupt() *)

\* txThreadHelper() polls the ring under m_txLock and sleeps when it is empty.
TxPoll ==
  /\ txt = "poll"
  /\ txLock = "none"
  /\ m_txBuffer # <<>>
  /\ txt' = "enter"
  /\ UNCHANGED <<flagVars, stageVars, radioVars, grVars, auxVars, clk, pending>>

\* interrupt() takes m_txLock: on entry, and again after each frame's sleep.
TxAcquire ==
  /\ txt \in {"enter", "sleep"}
  /\ txLock = "none"
  /\ txLock' = "tx"
  /\ txt' = "drain"
  /\ UNCHANGED <<flagVars, m_txBuffer, m_overflow, m_audioBufTx, m_controlBufTx,
                 radioVars, grVars, auxVars, clk, pending>>

\* One turn of the loop: a sample and its mark move to the staging frame.
TxStage ==
  /\ txt = "drain"
  /\ m_txBuffer # <<>>
  /\ m_audioBufTx' = Append(m_audioBufTx, Head(m_txBuffer))
  /\ m_controlBufTx' = Append(m_controlBufTx, Head(m_txBuffer))
  /\ m_txBuffer' = Tail(m_txBuffer)
  /\ txt' = IF Len(m_audioBufTx) + 1 >= FrameLen THEN "push" ELSE "drain"
  /\ UNCHANGED <<flagVars, txLock, m_overflow, radioVars, grVars, auxVars, clk, pending>>

\* Mutant: the radio queue is not capped.
KeepAll(s) == s

\* What pushChannelTxSamples() keeps of an over-full queue: the newest RadioCap.
KeepNewest(s) ==
  IF Len(s) > RadioCap THEN SubSeq(s, Len(s) - RadioCap + 1, Len(s)) ELSE s

\* Mutant: the marks of the frame are not erased.
TxPushKeepsMarks ==
  /\ txt = "push"
  /\ txSampleQueue' = KeepNewest(txSampleQueue \o SubSeq(m_audioBufTx, 1, FrameLen))
  /\ txControlQueue' = KeepNewest(txControlQueue \o SubSeq(m_controlBufTx, 1, FrameLen))
  /\ m_audioBufTx' = SubSeq(m_audioBufTx, FrameLen + 1, Len(m_audioBufTx))
  /\ txLock' = "none"
  /\ txt' = "sleep"
  /\ UNCHANGED <<flagVars, m_txBuffer, m_overflow, m_controlBufTx, txActive, grVars,
                 auxVars, clk, pending>>

\* Mutant: one sample too few is erased, so the last one is sent twice.
TxPushErasesOneLess ==
  /\ txt = "push"
  /\ txSampleQueue' = KeepNewest(txSampleQueue \o SubSeq(m_audioBufTx, 1, FrameLen))
  /\ txControlQueue' = KeepNewest(txControlQueue \o SubSeq(m_controlBufTx, 1, FrameLen))
  /\ m_audioBufTx' = SubSeq(m_audioBufTx, FrameLen, Len(m_audioBufTx))
  /\ m_controlBufTx' = SubSeq(m_controlBufTx, FrameLen, Len(m_controlBufTx))
  /\ txLock' = "none"
  /\ txt' = "sleep"
  /\ UNCHANGED <<flagVars, m_txBuffer, m_overflow, txActive, grVars, auxVars, clk, pending>>

\* A complete frame goes to the RadioManager (m_lock inside m_txLock), is erased
\* from both staging vectors, and m_txLock is released for the pacing sleep.
TxPush ==
  /\ txt = "push"
  /\ txSampleQueue' = KeepNewest(txSampleQueue \o SubSeq(m_audioBufTx, 1, FrameLen))
  /\ txControlQueue' = KeepNewest(txControlQueue \o SubSeq(m_controlBufTx, 1, FrameLen))
  /\ m_audioBufTx' = SubSeq(m_audioBufTx, FrameLen + 1, Len(m_audioBufTx))
  /\ m_controlBufTx' = SubSeq(m_controlBufTx, FrameLen + 1, Len(m_controlBufTx))
  /\ txLock' = "none"
  /\ txt' = "sleep"
  /\ UNCHANGED <<flagVars, m_txBuffer, m_overflow, txActive, grVars, auxVars, clk, pending>>

\* The ring is empty: interrupt() unlocks and returns to the polling loop.
TxReturn ==
  /\ txt = "drain"
  /\ m_txBuffer = <<>>
  /\ txLock' = "none"
  /\ txt' = "poll"
  /\ UNCHANGED <<flagVars, m_txBuffer, m_overflow, m_audioBufTx, m_controlBufTx,
                 radioVars, grVars, auxVars, clk, pending>>

-----------------------------------------------------------------------------
(* Radio thread: ModemTxIqSource::work() and ModemTxGate::work() *)

\* The source asks isChannelTxActive(); when off it emits zeros.
SourceCheck ==
  /\ gr = "source"
  /\ gr' = IF txActive THEN "dequeue" ELSE "gate"
  /\ inFlight' = 0
  /\ UNCHANGED <<flagVars, stageVars, radioVars, onAir, auxVars, clk, pending, txt>>

\* dequeueChannelTxIqSamples(): the oldest sample and mark, or a zero sample.
Dequeue ==
  /\ gr = "dequeue"
  /\ gr' = "gate"
  /\ IF txSampleQueue # <<>>
       THEN /\ inFlight' = Head(txSampleQueue)
            /\ txSampleQueue' = Tail(txSampleQueue)
            /\ txControlQueue' = Tail(txControlQueue)
       ELSE /\ inFlight' = 0
            /\ UNCHANGED <<txSampleQueue, txControlQueue>>
  /\ UNCHANGED <<flagVars, stageVars, txActive, onAir, auxVars, clk, pending, txt>>

\* The gate asks again and suppresses the output when TX is off.
Gate ==
  /\ gr = "gate"
  /\ gr' = "source"
  /\ onAir' = IF txActive /\ inFlight # 0 THEN inFlight ELSE onAir
  /\ inFlight' = 0
  /\ UNCHANGED <<flagVars, stageVars, radioVars, auxVars, clk, pending, txt>>

-----------------------------------------------------------------------------
ClockStep == \/ SetTransmit \/ WriteBegin \/ KeyUp \/ PutBlock \/ Stamp
             \/ ProcessPoll \/ ProcessOn \/ ProcessOff \/ Flush \/ Unkey
TxStep    == TxPoll \/ TxAcquire \/ TxStage \/ TxPush \/ TxReturn
RadioStep == SourceCheck \/ Dequeue \/ Gate

Next == ClockStep \/ TxStep \/ RadioStep \/ Tick \/ SetDecode

\* The three threads loop for ever and time passes; nothing obliges the engines
\* to write (the bound MaxOps ends their writes) or a carrier to come and go.
Spec == /\ Init /\ [][Next]_vars
        /\ WF_vars(ClockStep) /\ WF_vars(TxStep) /\ WF_vars(RadioStep) /\ WF_vars(Tick)

-----------------------------------------------------------------------------
(***************************************************************************)
(* Properties                                                              *)
(***************************************************************************)

ClockPc == {"idle", "keyOnly", "keyAndPut", "put", "stamp", "decide", "flush", "unkey"}

\* The shape of the state, and the radio queue's cap.
TypeOK ==
  /\ m_tx \in BOOLEAN /\ m_lockout \in BOOLEAN /\ m_ptt \in BOOLEAN
  /\ m_cosInt \in BOOLEAN /\ idleTicks \in 0 .. HangTicks
  /\ txLock \in {"none", "tx"} /\ m_overflow \in BOOLEAN
  /\ m_txBuffer \in Seq(Nat) /\ m_audioBufTx \in Seq(Nat) /\ m_controlBufTx \in Seq(Nat)
  /\ txActive \in BOOLEAN /\ txSampleQueue \in Seq(Nat) /\ txControlQueue \in Seq(Nat)
  /\ Len(txSampleQueue) <= RadioCap
  /\ clk \in ClockPc /\ pending \in BOOLEAN
  /\ txt \in {"poll", "enter", "drain", "push", "sleep"}
  /\ gr \in {"source", "dequeue", "gate"} /\ inFlight \in Nat /\ onAir \in Nat
  /\ nextSample \in Nat /\ ops \in Nat /\ partialFlush \in BOOLEAN

\* The transmitter is never off while samples wait in the ring: the emptiness
\* that process() polled under the lock is still true when, after the hang test
\* and another lock, it drops m_tx.
NothingWaitsWhileOff == ~m_tx => m_txBuffer = <<>>

\* The engines' "space > block" budget makes an overflow of the transmit ring
\* impossible, although space is read without the lock the tx thread holds.  The
\* ring does not even become full, on which the unlocked read relies.
NeverOverflows == ~m_overflow /\ Len(m_txBuffer) < RingSize

\* The staging frame is complete only inside interrupt()'s critical section, and
\* a mark is staged for every sample, so the frame handed to the radio always
\* has FrameLen samples and the mark array at least as many entries.
StagingBounded ==
  /\ Len(m_audioBufTx) <= FrameLen
  /\ Len(m_audioBufTx) = FrameLen <=> txt = "push"
  /\ Len(m_audioBufTx) <= Len(m_controlBufTx)
  /\ Len(txSampleQueue) = Len(txControlQueue)

\* Samples are radiated in the order they were written: along the whole path,
\* antenna, block in flight, radio queue, staging frame and ring, the numbers
\* rise, so no thread interleaving duplicates or reorders a sample.
Increasing(s) == \A i, j \in 1 .. Len(s) : i < j => s[i] < s[j]
SamplesInOrder ==
  Increasing((IF inFlight = 0 THEN <<onAir>> ELSE <<onAir, inFlight>>)
             \o txSampleQueue \o m_audioBufTx \o m_txBuffer)

\* As long as no partly filled staging frame has been thrown away, every sample
\* in the radio's queue is next to the control mark it was written with.
MarksAligned == ~partialFlush => txSampleQueue = txControlQueue

\* Between two operations of the clock thread, the modem, the radio channel and
\* the PTT line agree on whether the modem transmits.
KeyingAgrees ==
  clk = "idle" => /\ m_tx = txActive
                  /\ m_tx => m_ptt = ~PttInvert

\* TX is dropped only when the hang time has run out since the last sample was
\* put in the ring and the ring is empty: short producer gaps are bridged.
OffOnlyAfterHang == [][m_tx /\ ~m_tx' => HangExpired /\ m_txBuffer = <<>>]_vars

\* Once the engines stop, TX goes off and stays off, even with a partial frame
\* left in the staging area.
EventuallyOff == <>[]~m_tx

-----------------------------------------------------------------------------
(* What comments of the code say and the code does not do. *)

\* IO.cpp, process(): "flush any partial staging frame" - samples and marks are
\* one frame, so after a flush neither is left.
FlushEmptiesStaging == [][clk = "flush" /\ clk' = "unkey" => m_controlBufTx' = <<>>]_vars
=============================================================================
