----------------------------- MODULE RxChannel ------------------------------
(***************************************************************************)
(* One channel from the radio to the receivers: RadioManager's receive     *)
(* queues and delayed slot marks, the rx thread of IO, and the blocks that *)
(* IO::process() takes.                                                    *)
(*                                                                         *)
(* Samples of the two directions are numbered as they pass the radio.  A   *)
(* received sample travels with the mark of a sample sent earlier and with *)
(* its RSSI, in queues of their own.  Here a put or get of a ring is a     *)
(* step and the rings are sequences; RxRing says when that is so.  The     *)
(* demodulator's arithmetic is left out.                                   *)
(***************************************************************************)
EXTENDS Integers, Sequences, SequencesExt, FiniteSetsExt

CONSTANTS
  Delay,        \* CONTROL_DELAY_SAMPLES
  MaxLag,       \* samples of MAX_CHANNEL_TX_QUEUE_BYTES
  QueueLen,     \* samples of MAX_CHANNEL_RX_QUEUE_BYTES
  PopBurst,     \* RX_POP_BURST_SAMPLES
  RingLen,      \* RX_RINGBUFFER_SIZE
  Block,        \* RX_BLOCK_SIZE
  WorkBursts,   \* how many samples a work() call may have
  MaxSent, MaxCame  \* bounds: samples sent and received

RxChannelAssumption ==
  /\ {Delay, MaxLag, MaxSent, MaxCame} \subseteq Nat
  /\ {QueueLen, PopBurst, RingLen, Block} \cup WorkBursts \subseteq Nat \ {0} /\ Block <= RingLen
  /\ WorkBursts # {} /\ IsFiniteSet(WorkBursts)

VARIABLES
  rxFreq,          \* the channel has a frequency
  delayedControl,  \* marks that wait to be given to a received sample
  rxSampleQueue, rxControlQueue, rxRssiQueue,
  scratch,         \* the burst the rx thread has popped and not yet put
  putRssi,         \* the RSSI the rx thread puts next, 0 when its sample is next
  m_rxBuffer,      \* IO's rings: pairs of sample and mark,
  m_rssiBuffer,    \* and RSSI values
  fed,             \* the last block taken: [sample, control, rssi]
  \* bookkeeping
  sent, came,      \* samples sent and received so far
  given            \* the mark each received sample was given when it was queued

queues == <<rxSampleQueue, rxControlQueue, rxRssiQueue>>
rings == <<scratch, putRssi, m_rxBuffer, m_rssiBuffer>>
vars == <<rxFreq, delayedControl, queues, rings, fed, sent, came, given>>

None == 0 \* CHANNEL_MARK_NONE; of an RSSI: an uninitialised one

Init ==
  /\ rxFreq = FALSE /\ delayedControl = [i \in 1 .. Delay |-> None]
  /\ rxSampleQueue = <<>> /\ rxControlQueue = <<>> /\ rxRssiQueue = <<>>
  /\ scratch = <<>> /\ putRssi = 0 /\ m_rxBuffer = <<>> /\ m_rssiBuffer = <<>>
  /\ fed = <<>> /\ sent = 0 /\ came = 0 /\ given = <<>>

\* The last n elements at most: the oldest go.
Newest(queue, n) == IF Len(queue) > n THEN SubSeq(queue, Len(queue) - n + 1, Len(queue)) ELSE queue

-----------------------------------------------------------------------------
(* RadioManager, each call under m_lock *)

\* setChannelParams(), from the host.
SetChannelParams ==
  /\ ~rxFreq /\ rxFreq' = TRUE
  /\ UNCHANGED <<delayedControl, queues, rings, fed, sent, came, given>>

\* dequeueChannelTxIqSamples(), while TX is on: every sample, also one that fills a
\* gap, leaves a mark behind.
Dequeue(n) ==
  /\ sent + n <= MaxSent /\ sent' = sent + n
  /\ delayedControl' = Newest(delayedControl \o [i \in 1 .. n |-> sent + i], Delay + MaxLag)
  /\ UNCHANGED <<rxFreq, queues, rings, fed, came, given>>

\* The marks for n samples: the oldest, while more than the delay's are there.
Due == IF Len(delayedControl) > Delay THEN Len(delayedControl) - Delay ELSE 0

Aligned(n) == [i \in 1 .. n |-> IF i <= Due THEN delayedControl[i] ELSE None]

\* Mutant: the limit is kept for the samples alone.
TrimSamplesOnly(samples, controls, rssi) ==
  /\ rxSampleQueue' = Newest(samples, QueueLen)
  /\ rxControlQueue' = controls /\ rxRssiQueue' = rssi

Trim(samples, controls, rssi) ==
  /\ rxSampleQueue' = Newest(samples, QueueLen)
  /\ rxControlQueue' = Newest(controls, QueueLen)
  /\ rxRssiQueue' = Newest(rssi, QueueLen)

\* Mutant: a sample takes the newest mark.
MarkAfter(marks) == [i \in DOMAIN marks |-> IF marks[i] = None THEN None ELSE delayedControl[Len(delayedControl)]]

MarksFor(marks) == marks

\* The samples of a batch, in order, that may be queued.
Ascending(from, to) ==
  UNION {{s \in [1 .. k -> from .. to] : \A i, j \in 1 .. k : i < j => s[i] < s[j]} : k \in 0 .. to + 1 - from}

\* enqueueChannelRxIqSamples(): of a batch of n the samples in taken are queued.  One
\* that is not finite is skipped; AFC, when its interval ends within range, returns:
\* the rest of the batch is gone, and the limit is not looked at before the next
\* call, which comes well before AFC's next interval ends.
Enqueue(n, taken, afcReturns) ==
  /\ rxFreq /\ came + n <= MaxCame /\ came' = came + n
  /\ taken \in Ascending(came + 1, came + n)
  /\ afcReturns => Len(taken) < n /\ Len(rxSampleQueue) <= QueueLen
  /\ LET marks == MarksFor(Aligned(Len(taken)))
         popped == IF Len(taken) < Due THEN Len(taken) ELSE Due
         samples == rxSampleQueue \o taken
         controls == rxControlQueue \o marks
         rssi == rxRssiQueue \o taken
     IN  /\ IF afcReturns
            THEN rxSampleQueue' = samples /\ rxControlQueue' = controls /\ rxRssiQueue' = rssi
            ELSE Trim(samples, controls, rssi)
         /\ delayedControl' = SubSeq(delayedControl, popped + 1, Len(delayedControl))
         /\ given' = given \o [i \in 1 .. n |->
                       IF \E k \in DOMAIN taken : taken[k] = came + i
                       THEN marks[CHOOSE k \in DOMAIN taken : taken[k] = came + i] ELSE None]
  /\ UNCHANGED <<rxFreq, rings, fed, sent>>

\* The stream of a channel without a frequency is ignored.
Ignore(n) ==
  /\ ~rxFreq /\ came + n <= MaxCame /\ came' = came + n
  /\ given' = given \o [i \in 1 .. n |-> None]
  /\ UNCHANGED <<rxFreq, delayedControl, queues, rings, fed, sent>>

-----------------------------------------------------------------------------
(* The rx thread: interruptRx() *)

\* popChannelRxSamples().
Pop ==
  /\ scratch = <<>> /\ putRssi = 0 /\ rxSampleQueue # <<>>
  /\ LET n == IF Len(rxSampleQueue) < PopBurst THEN Len(rxSampleQueue) ELSE PopBurst
         Rest(queue) == SubSeq(queue, n + 1, Len(queue))
     IN  /\ scratch' = [i \in 1 .. n |-> [sample |-> rxSampleQueue[i],
                          control |-> rxControlQueue[i], rssi |-> rxRssiQueue[i]]]
         /\ rxSampleQueue' = Rest(rxSampleQueue) /\ rxControlQueue' = Rest(rxControlQueue)
         /\ rxRssiQueue' = Rest(rxRssiQueue)
  /\ UNCHANGED <<rxFreq, delayedControl, putRssi, m_rxBuffer, m_rssiBuffer, fed, sent, came, given>>

\* m_rxLock keeps nobody out between the puts of a sample and of its RSSI.
PutSample ==
  /\ scratch # <<>> /\ putRssi = 0
  /\ LET first == Head(scratch) IN
     /\ m_rxBuffer' = IF Len(m_rxBuffer) = RingLen THEN m_rxBuffer
                      ELSE Append(m_rxBuffer, [sample |-> first.sample, control |-> first.control])
     /\ putRssi' = first.rssi
  /\ scratch' = Tail(scratch)
  /\ UNCHANGED <<rxFreq, delayedControl, queues, m_rssiBuffer, fed, sent, came, given>>

RssiPut == IF Len(m_rssiBuffer) = RingLen THEN m_rssiBuffer ELSE Append(m_rssiBuffer, putRssi)

PutRssi ==
  /\ putRssi # 0
  /\ m_rssiBuffer' = RssiPut /\ putRssi' = 0
  /\ UNCHANGED <<rxFreq, delayedControl, queues, scratch, m_rxBuffer, fed, sent, came, given>>

-----------------------------------------------------------------------------
(* The clock thread: process() takes a block *)

\* An RSSI that is not there is left uninitialised.
Drain ==
  /\ Len(m_rxBuffer) >= Block
  /\ LET there == IF Len(m_rssiBuffer) < Block THEN Len(m_rssiBuffer) ELSE Block IN
     /\ fed' = [i \in 1 .. Block |-> [sample |-> m_rxBuffer[i].sample, control |-> m_rxBuffer[i].control,
                                      rssi |-> IF i <= there THEN m_rssiBuffer[i] ELSE None]]
     /\ m_rssiBuffer' = SubSeq(m_rssiBuffer, there + 1, Len(m_rssiBuffer))
  /\ m_rxBuffer' = SubSeq(m_rxBuffer, Block + 1, Len(m_rxBuffer))
  /\ UNCHANGED <<rxFreq, delayedControl, queues, scratch, putRssi, sent, came, given>>

Radio == \E n \in WorkBursts :
           \/ Dequeue(n) \/ Ignore(n)
           \/ \E taken \in Ascending(came + 1, came + n), afc \in BOOLEAN : Enqueue(n, taken, afc)

Next == SetChannelParams \/ Radio \/ Pop \/ PutSample \/ PutRssi \/ Drain

Spec == Init /\ [][Next]_vars

-----------------------------------------------------------------------------
(* Properties *)

Samples == 1 .. MaxCame
Marks == 0 .. MaxSent

\* Types, and the limits of the queues.
TypeOK ==
  /\ rxFreq \in BOOLEAN /\ Len(delayedControl) <= Delay + MaxLag
  /\ Len(rxSampleQueue) <= QueueLen + Max(WorkBursts) /\ Len(m_rxBuffer) <= RingLen /\ Len(m_rssiBuffer) <= RingLen
  /\ Range(rxSampleQueue) \subseteq Samples /\ Range(rxRssiQueue) \subseteq Samples
  /\ Range(rxControlQueue) \cup Range(delayedControl) \subseteq Marks
  /\ putRssi \in 0 .. MaxCame /\ Len(scratch) <= PopBurst
  /\ sent \in Marks /\ came \in 0 .. MaxCame /\ Len(given) = came

\* Whatever was lost at the queues' limits, a receiver gets a sample with the mark it
\* was given, and samples in order, each once; and its RSSI, which comes through a
\* ring of its own, is that of this sample or of an earlier one, never of a later one.
BlockTogether ==
  \A i \in 1 .. Block : fed' # fed =>
    /\ fed'[i].control = given[fed'[i].sample]
    /\ fed'[i].rssi <= fed'[i].sample
    /\ i > 1 => fed'[i - 1].sample < fed'[i].sample
    /\ fed # <<>> => fed[Block].sample < fed'[1].sample

FedTogether == [][BlockTogether]_vars

\* Marks are given in the order they were sent in, each once, and none before the
\* radio has been sent Delay samples more: a mark that is early would open a slot of
\* the receiver before the slot's samples are there.
MarksInTime ==
  \A r \in DOMAIN given : given[r] # None =>
    /\ given[r] + Delay <= sent
    /\ \A q \in 1 .. r - 1 : given[q] < given[r]
=============================================================================
