# Verification of dvmbbsdr

dvmbbsdr is a software modem for digital radio. A host program talks to it over
pseudo terminals with the protocol of a hardware hotspot; the program turns the
host's frames into samples and samples into frames (DMR, P25, NXDN), and hands
the samples to software radios through GNU Radio. This directory holds TLA+
modules of its control: queues, threads, keying, timers, receivers, settings,
start and stop, and of the small algorithms it is built from: rings, containers,
checksums, filters, symbol levels. What a correlator or a demodulator makes of its
samples is data to these models.

Paths below are relative to `src/src/sdr/` unless they begin with `common/`.

## 1. The system

### Threads

| thread | one per | runs |
|---|---|---|
| main | process | `SDRMain.cpp` main(), `SDR::run()`, and again after a SIGHUP |
| clock | modem | `Modem::threadClock`: `SerialPort::process()`, `IO::process()`, the engines of the modem's state |
| tx | modem | `IO::txThreadHelper`: ring to staging frame to the radio queue, one frame per 30 ms |
| rx | modem | `IO::rxThreadHelper`: radio receive queue to the rx rings |
| status | modem | `IO::modemStatusHelper`: logging |
| work | GNU Radio block | `ModemTxIqSource`, `ModemTxGate`, `ModemRxIqSink` call the manager |
| publisher | process | `RadioManager::publishRadioStatus` every interval |

Locks: `IO::m_txLock` and `IO::m_rxLock` per modem, `RadioManager::m_lock` for
everything in the manager. `interrupt()` takes m_lock while it holds m_txLock;
nothing takes them in the other order. What the clock thread alone touches
(engines, modem state, `m_tx`) has no lock.

### Components

| component | state | operations | what makes it correct |
|---|---|---|---|
| `SampleBuffer`, `RSSIBuffer` | slots, head, tail, full, overflow | put, get, getSpace, getData, hasOverflowed | a bounded FIFO |
| `SerialBuffer` | bytes, head, tail, full, length | put, get, peek, reset, reinitialize, getSpace, getData | what an engine put comes out, as long as it asks for no more |
| transmit half of `IO` | tx ring, staging frame and marks, `m_tx`, PTT, lockout, last activity | write, setTransmit, process, interrupt | no sample lost, repeated, reordered or stranded; TX on and off consistently |
| receive half of `IO` | rx rings, drain budget, lockout | interruptRx, process | samples reach the receivers in order, a modem has its own budget |
| `RadioManager` | channels, devices, queues, flowgraphs, publisher | push, dequeue, enqueue, pop, setChannel..., initialize, shutdown, retune | queues bounded and in step, released only when unused, shutdown ends |
| `DMRTX` | two queues, rotation, CACH and short LC, aborts | writeData1/2, writeShortLC, writeAbort, setStart, process | rotation kept, frames in order, short LC whole, credit honest |
| `P25TX` | byte queue with framed lengths, tail, preamble | writeData, clear, process | frames whole, in order, once; falls silent |
| `NXDNTX`, `DMRDMOTX`, `CWIdTX` | queue of frames of one length; bits | writeData / write, process | a credit is kept, frames whole and led by a preamble, silence in the end |
| `CalDMR`, `CalP25`, `CalNXDN`, `CalRSSI` | a test call, sums | write, process | a call has its header, its voice and its terminator, and ends when told to; a report is of its own samples |
| receivers (`DMRSlotRX`, `DMRIdleRX`, `DMRDMORX`, `P25RX`, `NXDNRX`) | sample ring and pointers into it, window, sync state, counters, levels | samples, reset | a lock is given up in time; frames are the length of a frame apart and reported once, for the right slot; levels are of the station that is heard |
| `SerialPort` | partial frame, settings | process, setMode, setConfig, write... | a command is executed once, whole or not at all; both sides find the frames |
| `PseudoPTYPort`, `UARTPort` | descriptor, link | open, read, write, close | bytes keep their order, a frame gets out |
| `Modem` | state, enables, `m_tx` | open, clock, close | one engine at a time |
| `SDR`, main | `g_killed`, `g_signal` | run, signal handler | starts, restarts, stops, waits for what it started |
| `common/` | thread pool, timer, ring, containers, CRC, bit fields, log | | works as a library must; the program uses little of it |

The components meet in three places. Host to air: `SerialPort` gives a frame to
an engine's queue and reports its room; the clock thread drains the engine into
`IO::write()` while the transmit ring has room; the tx thread hands frames to
the manager, whose queue a work thread empties. Air to host: the same backwards.
Control: mode changes, the watchdog and TX-off reach into the engines from
outside, at any point of a frame.

What is hard here: three threads and two locks between `write()` and the
antenna; TX-off by a timer that races late writers; a queue that is thrown away
when it is full, and a space report that must therefore be a safe credit; frame
boundaries that exist only as bytes in a ring; commands legal in one order and
not in another; shutdown with threads inside the thing being shut down; a second
run in one process. On the receive side: rings read without the lock, marks that
travel apart from their samples, syncs placed anywhere in a ring of one frame,
counts that every sync renews. `PROJECT.json` lists these as hazards, line by
line, with the properties that cover each.

## 2. Modules

The transmit side, host to air:

| module | models | state and actions |
|---|---|---|
| `BoundedFifo` | what a ring promises | a sequence and an overflow latch; Put, Get, HasOverflowed |
| `SampleRing` | `SampleBuffer`, `RSSIBuffer` | the fields of the class; an action per operation. Refines `BoundedFifo` (`FifoRefinement`) |
| `TxPath` | transmit half of `IO`, radio queue, gate | three program counters (clk, txt, gr); every lock-protected section is a step, `interrupt()` is taken apart because it holds m_txLock across a loop |
| `DmrTx` | `DMRTX` with its commands | a command, a new burst, a few bytes sent and TX-off are the actions; frames and short LCs are numbers |
| `P25Tx` | `P25TX` with its commands | as `DmrTx`, but frames are byte sequences in a `SerialBuffer`, framing and stale bytes included: a record with that class's fields, and an operator per method |
| `FixedTx` | `NXDNTX` and `DMRDMOTX` with their commands | one module, instantiated for each: frames have one length, so the queue is a sequence of numbers; preamble, frame, tail, credit, buffer sizes |
| `CalTx` | `CalDMR`, `CalP25`, `CalNXDN` and what they need of the transmitters | a record per engine's fields; a turn of the clock is calibration, then transmitter |
| `CwIdTx` | `CWIdTX` | bits left to send, the state it takes over and gives back |
| `Filters` | the three filters of `arm_math.cpp` | symbolic sums of products: which sample meets which coefficient, over blocks of any size |

The receive side, air to host:

| module | models | state and actions |
|---|---|---|
| `RxRing` | `m_rxBuffer` read without `m_rxLock` | put() and get() access by access |
| `RxChannel` | a channel's receive queues and marks, the rx thread, the rx rings, `IO::process()`'s blocks | samples numbered in both directions; Dequeue, Enqueue, Ignore, Pop, PutSample, PutRssi, Drain |
| `RxBudget` | the drain budget and the lockout | time, the shared credit, Process per modem |
| `NxdnRx`, `P25Rx` | `NXDNRX`, `P25RX` | the ring's pointers, window, counts and reports, a step per sample; the correlator is a choice |
| `DmrRx` | `DMRRX`, `DMRSlotRX`; `DMRDMORX` as a second instance | a step per burst: state, counts, numbers, reports |
| `DmrSync` | the sample rings of `DMRDMORX` and `DMRIdleRX` | a step per sample: where a burst is looked for and taken |
| `Symbols` | the levels the five transmit engines write and the averages the five receivers slice with | stations that differ in gain and offset, syncs, frames, losses |
| `SlotType` | `DMRSlotType` | operators only: the Golay code by what its tables hold, the bits' places in a frame. `MCLibrary` sends a burst and gets up to three of its bits wrong |
| `CalRssi` | `CalRSSI` | sums of a second of strengths |
| `Tuning` | `RadioManager`'s frequencies | two channels, two devices: assignment, centres, AFC, offset, retune |

The modem and its host, and the program:

| module | models | state and actions |
|---|---|---|
| `HostLink` | the parser of `SerialPort::process()` | a line of bytes, the fields of the parser; a step per byte, those behind the buffer included |
| `HostReplies` | everything `SerialPort` writes | a reply is its length field, the bytes written and the command it names |
| `Control` | modes, watchdog, TX-off, `Modem::clock()`'s choice of engine | a receiver is clear, live, paused by blocks of IDLE or DMR, or stale; an engine has something to send or not |
| `Settings` | configuration, level, buffer and RF commands | the modem's settings, the channel's, and those set before a command is known to be good |
| `Port` | the pseudo terminal | descriptor, link, bytes by number, short writes and failures |
| `Lifecycle` | main, `SDR::run`, manager start and stop | a place per thread and the holder of m_lock; one modem |

The library: `Concurrent` (six containers and their two locks), `Pool`
(`ThreadPool`), `Timer`, `DataRing` (`RingBuffer<T>`), `Crc` (every checksum and
its check), `Bits` (bit and byte fields).

`M_proofs` holds the theorems about `M` (`Receivers_proofs` and `RxChannel_proofs` hold
lemmas that `MCReceivers_proofs` uses); an MC module makes specifications finite
for TLC. `TxPath` and `DmrTx` need none, their .cfg does it. `MCLibrary`, `MCFrameTx`,
`MCLifecycle` and `MCReceivers` hold several that do not interact in the code
while they run: a behaviour is one of one part, and the variable `part` says
which; the other parts' variables stay as they were. A property of such a module
is the conjunction of the parts' properties of one kind, each defined and
explained in its own module. An operator whose comment begins "Mutant:" is a
plausible mistake in the definition below it, which is not part of the model:
putting it in the definition's place makes the property named in `PROJECT.json`
fail.

### Choices that need a reason

Transmit side.

- **Transmit ring as a sequence in `TxPath`.** `SampleRing` is proved to
  implement that sequence, so the path need not carry indices. All accesses to
  the ring's contents are under m_txLock, except `IO::getSpace()`, which the
  clock thread calls without it. Its reads of the tail can fall between the steps
  of a get(); `UnlockedSpaceSafe` (`SampleRing`) says that it then answers with
  no more than the room there is, so one atomic read stands for it. It needs a
  ring that is not full, which `NeverOverflows` states for the path, and fewer
  than 2^15 slots (the code has 500).
- **Samples are numbered**, and a mark is the number of its sample. This is what
  lets order and pairing be stated; nothing branches on the numbers.
- **Engines in `TxPath`** are any sequence of `setTransmit()` and of writes of
  one block for which there is room: all engines write under the test
  `space > block`.
- **The engines' modules stop at `IO::write()`**: bytes leave in groups of any
  size, as the transmit ring has room, and TX-off may come whenever
  `TxPath` allows. In `P25Tx`, TX does not drop while P25 is clocked and has
  something to send: that is the purpose of TX_HANG_MS ("hold TX across short
  producer gaps", `modem/IO.cpp`), and a clock thread descheduled for the
  whole hang time is not modelled. `DmrTx`, `FixedTx` and `CalTx` do not assume it.
- **The host** sends any commands in any order, up to MaxOps of them. Status
  requests are not counted: a host polls for ever, and the credit it acts on is
  the last one reported. It need not keep within the credit; `overdrawn` and
  `refusedWithin` record whether it did.
- **A filter's numbers are left out, its indices are not.** The unrolled loops take
  taps and outputs by fours and keep pairs of samples in registers; the error a
  test would miss is a sample that meets the wrong coefficient at a block
  border. So a product is the pair of its indices and a sum the sequence of its
  products, compared with the convolution of the whole signal.

Receive side.

- **A ring read without its lock.** `RxRing` takes put() and get() apart and shows
  what holds while neither crosses the other (`WholeWhileApart`); `RxChannel` then
  uses whole sequences, and does not claim order for a ring that was filled.
- **What the correlator finds is a choice** in every step, limited as the code
  limits it: only inside the window where there is one. Thus every placing of
  syncs is a behaviour, including those no transmitter makes.
- **`DmrRx` steps by bursts.** `DMRSlotRX` collects a burst between two marks and
  acts once at its end; the placing of a burst is in `DmrSync` for the two
  receivers that place it themselves.
- **AFC arithmetic is left open** in `Tuning`: the offset moves by a step at most,
  either way, as a clamped loop may.
- **`SlotType` states tables by what they hold**: a word is its eight bits, their
  remainder by the generator and a parity bit; a syndrome of up to three errors
  stands for those errors. The code's 256 words and the entries of its second
  table for all such syndromes are exactly these. (Other syndromes cannot come
  from three errors.)

The modem.

- **`Control` keeps no frames.** Which receiver is fed, paused or reset by a change
  of mode, and which engine is called, does not depend on frames; whether
  something is left does.
- **The terminal fills.** `UARTPort::write()` waits on a descriptor that blocks,
  on the clock thread. `Control` lets a host stop reading, with or without closing
  its end. `LeftAlone` claims silence for the threads that turn; `TimesOut`,
  which is violated, is the claim for all.
- **Saturating counts** (idle ticks, start-up and abort counts) stop at the
  value the code compares them with; nothing looks beyond it.
- **`Lifecycle`** has one modem, and its tx, rx and status threads are left out:
  nothing waits for them, and what they do to the manager is in `TxPath` and
  `RxChannel`. A work thread's call is one visit to m_lock. GNU Radio is modelled
  by its contract: `stop()` asks the threads to end, each ends between two calls of
  work(), `wait()` returns when all have. A flowgraph that fails to start is
  covered by `Initialize` starting any subset of the devices.
- **The two receivers of the base station.** `SerialPort::setMode()` resets neither
  `dmrRX` nor `dmrIdleRX` when the mode becomes IDLE or DMR, and `IO::process()` feeds
  one or the other as TX goes on and off. So in these two modes either may go on from
  where it was when the other was fed; `FreshStart` allows that to these two, and to
  nothing that was held through a block of any other mode.
- **A count that passes its length.** The parser ends a frame when its count equals the
  length. A length that is already passed is not met, and the count goes on behind
  `m_buffer`, over the parser's own fields. `ReadBehind` in `HostLink` lets them be
  anything then (a place further behind is told as the first one). `FramesFound` says
  that a parser in step never comes there; one that is out of step does, and nothing is
  claimed of it until it is in step again.
- **A thread joined twice** is undefined: `Join` in `Pool` lets the second wait() return,
  or never do so ("lost"), at each handle that was joined before. `WaitReturns` is about
  the first wait(), and `TasksAreTaken` about the first start(), as a second one makes no
  workers.
- **Containers.** A use of a std container is a period, not a step: two periods that
  overlap, one of them an edit, are the race that a lock is there to prevent.

## 3. Runs

Each run is one configuration. Every passing run checks one type invariant.

| run | properties | what it shows |
|---|---|---|
| `library` | `UnlockedSpaceSafe`, `QueuesKeepOrder`, `ReadAsSent`, `FifoRefinement`, `WholeWhileApart`, `CallsReturn` | rings are FIFOs at every wrap and safe to ask without the lock; a reader without the lock loses no order while the threads stay apart; of the container members that lock, none is inside beside one that edits; the pool begins each task once and in order, those of the first start are taken unless it is stopped, and its first wait() returns; a timer expires in time; damage up to what a code promises is seen or corrected; fields, slot types and symbols are read as written |
| `tx_path` | `NothingWaitsWhileOff`, `NeverOverflows`, `SamplesInOrder`, `MarksAligned`, `KeyingAgrees`, `OffOnlyAfterHang`, `EventuallyOff` | nothing stranded, lost, repeated or reordered; marks stay with samples; keying agrees; TX drops only after the hang time with the ring empty, and does drop |
| `tx_flush_marks` | `FlushEmptiesStaging` | *violated*: the TX-off flush clears the staged samples and keeps their marks |
| `dmr_tx` | `ShortLCWhole`, `FramesInOrder`, `CreditProtects`, `RotationKept`, `RunningDrains` | rotation kept, short LC whole, frames in order, credit safe, a running rotation drains |
| `frame_tx` | `RingAccounts`, `CreditIsKept`, `FramesArrive`, `SumsAreWhole`, `AllFallSilent` | P25, NXDN, direct mode, calibration, CW: what is accepted is sent whole, led by its preamble and in order; a credit is kept; test calls are whole; everything ends. Every filter output is its convolution |
| `p25_sent_once` | `SentOnce` | *violated*: a truncated frame makes old frames go out again |
| `lifecycle` | `ReleasedIsUnused`, `FreshStart`, `BytesInOrder`, `PublisherJoined`, `CommandsWhole`, `LeftAlone` | nothing released in use, restarts are fresh, the publisher is joined; a receiver begins a mode where it was reset, but for `dmrRX` and `dmrIdleRX`, which IDLE and DMR feed again from where they were; a refused command changes nothing but debugging (configuration) or power, AFC and bandwidths (RF parameters), and the channel agrees with the modem; bytes keep their order; a host that is gone leaves no transmitter on |
| `lifecycle_shutdown` | `ShutdownCompletes` | *violated*: shutdown() can wait for ever |
| `times_out` | `TimesOut` | *violated*: a modem waits in write() for a host that does not read, with TX on |
| `receivers` | `LocksAreLive`, `TunedTogether`, `FramesFound`, `FedTogether`, `CallsInPlace` | locks, carriers and flags begin and end together; frames are a frame apart and reported once; voice frames are numbered in place; two channels on shared devices stay where they were asked to be; a block has its samples, marks and strengths from the same place; a parser in step finds the frames and stays in its buffer; a reply is as long as it says, a long P25 report exactly four bytes longer; a report of strengths is of what came since the last |
| `dmr_slot` | `SlotIsTold` | *violated*: data of slot 2 are reported as slot 1 |
| `rx_budget` | `NoneRefused` | *violated*: two modems share one drain budget, and a ring overflows |

### Why the bounds are enough

- `tx_path`: blocks of 2, frames of 3, a ring of 5 and a radio queue of 4: a frame
  completed in the middle of a block, a leftover in the staging area, a ring
  without room and an over-full radio queue all occur, and three ways of leaving
  TX. Five writes are two frames and a rest.
- `dmr_tx`: four commands are enough to fill a queue, abort it, stop and start
  again; two sizes (5 and 8 bytes) let `setBuffers` grow and shrink.
- `frame_tx`: five P25 commands fill the ring of 12, wrap it and meet each header
  form: ByteMax is 7 instead of 255, so that length bytes have both forms at
  small sizes. NXDN and direct mode have queues of 3 and 7 bytes for frames of 2
  and 3, so that a size is not a multiple of a frame. A test call is played
  with a wait of 4 frames and queues of 2. A CW message has 0 to 4 bits in 5
  with a buffer of 6, so that it fits, just fits and does not. Filters are those of
  the program by their numbers of taps, and all small ones, over three blocks.
- `lifecycle`: two signals in two runs give a restart, a stop in the restarted
  run, and a second signal at every point of the first shutdown. A terminal of
  2 bytes makes frames of 3 wait and be cut. A watchdog of 2, a ring of 1.
- `receivers`: an NXDN frame of 12 samples with a sync of 3, a P25 LDU of 16, HDU of
  8 and PDU of 20: all windows, and windows across the wrap, are reached; three
  frames without a sync end a lock. MaxSyncLost is the
  code's 13, and so are the six voice frames of a DMR superframe. A channel carries four samples through queues of
  3 and a ring of 3. Two channels and two devices are the least that share; three
  requests and one AFC move let each channel move the other's centre and
  be moved. A line of two frames of each form, cut anywhere, with a buffer of 7.
- `library`: a ring of 4 with 2 values; two threads in a container, a call each,
  since a clash is of two; two workers, three tasks, two queued, a pool started
  twice; averages of 3 for 16 and 2 for 4, so that the index wraps within a call;
  three stations (gain, offset) and two noises.

What small sizes cannot show (a space report that wraps in its uint8_t,
buffers of thousands of bytes) is covered by the proofs where there are any
(section 5), and by nothing for the parts that have none.

Deadlock is not checked where the system really stops: an idle engine with a
quiet host, a process that has ended, a bounded number of calls.

### Fairness

- `TxPath`: weak fairness for each of the three threads and for time. The
  threads are loops that sleep and never exit; a work thread is called by the
  scheduler as long as the flowgraph runs. The engines owe nothing: when they
  write is not assumed, only that they stop (MaxOps).
- `DmrTx`, `P25Tx`, `FixedTx`, `CalTx`, `CwIdTx`: weak fairness for process(), which
  the clock thread calls for ever, and for TX-off in the three that need it to
  begin again (`TxPath` shows `EventuallyOff`); not for the host.
- `Control`: weak fairness for the clock thread's turns that have no report to
  write, and for interrupt(), which the tx thread calls. A turn that waits for
  the terminal owes nothing; nor does the host.
- `Port`: a write that the terminal has room for goes on, and the host reads. The
  second is assumed only here, where the question is whether a frame ends; what
  happens without it is `TimesOut`.
- `Lifecycle`: in `MCLifecycle` main and the publisher are strongly fair, work and
  clock threads weakly. m_lock is not a fair mutex, but each holder keeps it for
  one call and then returns to its pacing (the sample rate, a sleep), so a
  thread that keeps asking is not overtaken for ever. This is what
  `PublisherJoined` needs; the violation of `ShutdownCompletes` does not come from
  starvation but from a cycle, and no fairness breaks it.
- `Concurrent`, `Pool`: a thread that can take a step takes it in the end; a waiting
  worker owes nothing until it is notified.
- Safety only, without fairness: the receivers, `RxChannel`, `RxBudget`, `Tuning`,
  `Settings`, `HostLink`, `HostReplies`, the data modules. That a lock is given up
  is stated as a bound (`LocksAreLive`: frames without a sync stay below the
  count that ends the lock), which is stronger than "eventually".

## 4. What the violations say

- `FlushEmptiesStaging`: process() flushes m_audioBufTx and leaves
  m_controlBufTx. From then on each mark is sent with a later sample. The
  property `MarksAligned` holds up to that flush and not after it.
- `SentOnce`: `P25TX::writeData()` compares the room with the length of the
  command and puts one or two bytes more, and getSpace() ignores the framing.
  With the default ring of 522 bytes: a TSDU (45 + 2) and two TDUs (18 + 2
  each) queued take 87 bytes, 435 are left, the report says 435 / 216 = 2 frames,
  and two LDUs need 436. The second LDU passes the test, 217 bytes for 217, and
  is stored without its last byte; after it the tail runs past the head, and what
  was sent before is sent again.
- `ShutdownCompletes`: shutdown() holds m_lock and waits for threads that take
  it in work(). A work thread inside work() when shutdown() gets the lock is
  enough.
- `TimesOut`: the watchdog that drops TX runs on the thread that waits in write()
  for the host. The modem itself holds the terminal's other end open, so a
  host that died does not end the wait either.
- `SlotIsTold`: `DMRSlotRX` passes its slot only with late bursts and losses.
- `NoneRefused`: `rxSampleBudget` and its clock are statics of a member function.
  With one modem the budget keeps up (`KeepsUp` in `FedTogether`).

## 5. Proofs

All theorems are proved for every value of the constants that satisfies the
module's assumption (sizes positive, limits natural numbers), and checked to the
last leaf.

There are 46 listed theorems in six modules, and two more modules of lemmas. They
say of the library, of the transmit side, of the receive side and of the program's
life what TLC shows on small instances. In the modules about an MC module
(`MCLibrary_proofs`, `MCFrameTx_proofs`, `MCLifecycle_proofs`, `MCReceivers_proofs`) the
constants are those of the parts, with
no bound but the parts' assumptions: the values of the .cfg are TLC's alone. Each part
has an invariant of its own, which holds in its part, or in every part when nothing
disturbs it; a theorem about the whole takes the parts one by one.

**MCLibrary_proofs.** The transmit ring: types, and `m_full` only with equal indices.
From it `SpaceAndDataAgree`, and step simulation of `BoundedFifo` under the
mapping that reads the slots from tail to head: a put writes behind the last
element, a get removes the first, also across the wrap. And `UnlockedSpaceSafe`,
by the code's three cases: a tail read below the head cannot wrap before it is
read again; one read above it can, and then the difference is negative, its
uint16_t larger than the length, and the answer 0.
The receive ring, whose reader takes no lock (`RxInv`): at each access of put() and
get() the head is as many slots behind the tail as samples are stored, those slots
hold consecutive numbers, and, while the ring was never full, what getData() has
begun to count and what is left of a block are no more than are there
(`WholeWhileApart`). For this a block must divide the ring, or a block would be
counted across the wrap as one that lies before it: with a ring of 5 and blocks of 2 TLC
breaks the property. The code has 600 and 2 (`RX_RINGBUFFER_SIZE`,
`modem/Modem.h:55`, and `RX_BLOCK_SIZE`, line 52), and the assumption of `RxRing` says so.
The containers (`ContainerInv`): of the members that lock, who edits holds the mutex, who walks shares it with
walkers alone. The pool (`PoolInv`): the tasks taken and those that wait are one rising
sequence, no worker has a task of another, and a second start leaves at most twice the
workers. `RingBuffer` (`DataInv`): the slots from one index to the other are what
was added, which a block that fits, a peek and a resize keep. Together
`AllTypesOK` and `QueuesKeepOrder`.

**TxPath_proofs.** The invariant says what each thread knows at each place. The
clock thread after a poll that found the ring empty still finds it so, because
only the clock thread puts (`ClockInv`); between the space test and the put the
room can only grow (`BudgetInv`); outside the few steps of keying `m_tx`, the
channel's flag and PTT agree (`KeyedInv`); the staging frame is complete only
while the tx thread holds the lock (`StageInv`). None of the checked invariants
is inductive alone: `NothingWaitsWhileOff`, for one, is broken by the step
"drop m_tx" unless the emptiness seen two lock acquisitions earlier is carried
along. `SamplesInOrder` and `MarksAligned` are about the concatenation of five
places; inductive is what each step keeps between neighbours (`OrderInv`): within a
queue numbers rise, and everything of one place is earlier than everything of the
next, from the antenna to the sample not yet written. A push takes the oldest away
from two queues at once, so that samples and marks stay equal as sequences until a
flush throws a part of one away (`MarkInv`).

**DmrTx_proofs.** Rotation: the last burst and m_state determine each other
while TX is on. Round: all fragments of a round are of m_shortLC. Order: queued
frames are later than the last sent. Credit: a host that has not overdrawn has,
in every slot, credit whose frames fit in the room, which survives getStatus,
writes, clears, aborts and resizes, and the % 256 of the report.

**MCFrameTx_proofs.** NXDN and direct mode (`FixedInv`): the room is at least the
credit times what a frame is counted as; frames wait in the order written, after the
one on the air; nothing is on the air without a preamble unless the mode was left half
way. Calibration (`CalInv`): which frame follows which in a call, and how far the
queues may be behind the engine at each place of the rotation. P25 (`P25Inv`): there
are places in the ring at which the accepted frames lie one behind the other, each
with its header, up to the head; a get reads from the front of the first, so that
process() finds the length of the next frame where it expects it, at every wrap. Once
a frame was cut short at the head (`tight`, see `SentOnce`) the ring is only known to
hold bytes from which no wrong kind is read. From these `CreditIsKept`, `FramesArrive`
and the types. `RingAccounts` follows from the places: those of the frames one behind the
other are the partial sums of their lengths, so that the last is the number of bytes.
The filters (`FilterReady`): between blocks the state array holds what the next block
needs of the samples before it. Within a block each loop has a closed form: after n
outputs the array holds the samples up to the n-th in their places and the sums are those
of the n outputs; four taps of four outputs are four products more in each of the four
sums, for registers that hold the right pairs of samples, and at the end the sum of an
output is the set of products its convolution names, each once. That no load leaves the
array (`wild`) needs the spare sample behind the block that the assumption gives. Hence
`SumsAreWhole` for every even number of taps, every phase length, any stages and blocks.

**MCLifecycle_proofs.** `Lifecycle`: the invariant ties m_lock to the one thread that is
inside, and lists what is left of a run at each place of the main thread (no
publisher from "lock" on, no flowgraph from "ended" on, a live work thread only
in a live flowgraph, no clock thread of a run before its modem exists). It
yields `ReleasedIsUnused` and `FreshStart`. `WaitsUnderLock` is an action
property: while shutdown() waits, a work thread that wants the lock takes no
step. That is the formal reason of the hang found by `lifecycle_shutdown`.
`Control`: a receiver that is live is one the mode feeds, so that none is left in
the middle of something, but for the base station's two: those are clear in every
mode but IDLE and DMR, so that what they go on from was paused by these alone; the watchdog, which changes the mode and resets nothing,
leads to one that feeds the same receivers. `Settings`: the modem's and the
channel's record agree after every accepted or refused command, and what stays of a refused
one is named. `Port`: what was read,
what is in the terminal and what write() still has are together the bytes numbered
from 1, and only a modem that has sent nothing opens a port: `BytesInOrder` for a
terminal and frames of any length.

**MCReceivers_proofs.** NXDN, P25 and the sample rings of DMR: a ring as long as a
frame makes the place of a sample that of the last sync plus the samples since, up to
rounds. Every pointer is then that place and a constant, and "before", "in" and
"behind the window" become comparisons of numbers without a modulus. A sync that moves the
window is within a sample of its middle (NXDN), or stronger than the last (DMR), which
bounds how often it moves by the number of strengths (the assumption that these are
fewer than half the samples of a ring stands for the width of a correlation peak,
a symbol of five samples; it is of the signal, not of the code): `LocksAreLive` and
`CallsInPlace` for every length of frame, sync and window the assumptions allow.
`Tuning`: the centre of a device with a frequency is a number above 0, therefore taken,
and what each channel adds to it makes up its own frequency. `RxBudget`: of a modem that
is alone what waits is what came since its last turn and less than a block; hence the
hypothesis `Modem = {m}` of `ModemIsFedTogether`, which with two modems is false
(`NoneRefused`).
`HostLink` (`LinkInv`): there are places in the bytes read and on the line at which the
frames not yet handled begin, one behind the other; within a frame its first bytes have
given the parser the length it counts to. The frame's last byte moves the places
by one; a host that goes away in a frame leaves the parser out of step until the watchdog
has emptied it. In step the count is below the length, which is at most the buffer's, so
that no byte comes behind it. A reply's length against its length field is arithmetic on each
form, the four bytes of a long P25 report included.

**Receivers_proofs** holds what is proved of `NxdnRx`, `P25Rx` and `DmrRx` apart from the
others: of NXDN and P25 as above; of a DMR receiver for any set of slots, used for the
two slots of a repeater and for direct mode: counts below the limit that ends the
call, the carrier exactly while a slot has a call, a late voice burst's number the
bursts since the last sync.

**RxChannel_proofs.** Samples have numbers, and three numbers c <= a <= b part the way from
the radio to a receiver: what is in a block is at most c, what is in the ring between c
and a, what the rx thread holds between a and b, and what is in the queues above b.
Each step moves one of them up. The strength beside a sample is of no later
sample in each place; the two rings may differ by one, as the code takes a sample and
not its strength when the second ring is full. Marks wait in increasing order, each as
old as the marks behind it, so that one given is late by the delay at least.

Only model-checked:

- liveness (`EventuallyOff`, `RunningDrains`, `AllFallSilent`, `PublisherJoined`,
  `LeftAlone`, `CallsReturn`): fairness and ENABLED are beyond the prover;
- `ReadAsSent`: what the checksums, the bit fields, the Golay code and the averages of the
  levels compute are folds over data, of operators given to the library's `FoldLeft` and
  `MapThenSumSet`, which is the induction named below; and that the Golay code corrects
  three errors is a calculation over its 1351 patterns of them, which is TLC's work.

Induction over data needs an operator as a parameter, which no prover here takes. Where a
property is about a sum, a concatenation or a loop (`RingAccounts`, `FramesFound`,
`SumsAreWhole`), the value is a recursive function in a LET, and is proved about by a
witness, the places or the closed form, and by the least number at which two functions
with the same steps could differ.

`MCFrameTx` also checks, by evaluation over every small ring, that the whole-frame
operators of `P25Tx` on a `SerialBuffer` equal byte by byte put() and get().

## 6. Not modelled, and the plan

Not modelled for good: the YAML and backtrace libraries (third-party; a quarter of
the lines), logging, the contents of the status message, the command line and the
parsing of the configuration, termios flags, a real serial port and the Windows
and Apple branches, correlation, FM and the AFC's arithmetic, widths and saturation
of the filters, levels and inversion in `TxPath`. `PROJECT.json` names per
component what else is left out.

Next, in this order:

1. `RxChannel` as a refinement: a FIFO that may lose and never reorders, with the
   ring of `RxRing` below it for the runs in which its threads stay apart.
2. One abstract engine (a queue of frames; accepted, sent once, in order) that
   `FixedTx`, `DmrTx` and, within its bounds, `P25Tx` implement.
3. Two modems in `Control` and `RxBudget` together with `Tuning`.

Proofs to come: the checksums, once their register is a recursive function and not a fold.

### Also seen while modelling

Read in the code and not stated as a property, because no document says otherwise
or because the part is outside the models. Each is a place to look at, not a
verdict.

Transmit: a settled AFC leaves the rest of a batch of samples (radio/RadioManager.cpp:929).
An identifier of 995 or more elements is refused after the old one was thrown away
(modem/CWIdTX.cpp:147). The low frequency calibration overwrites its length
(dmr/DMRTX.cpp:487). The P25 tail count outlives a change of mode
(p25/P25TX.cpp:99). A DMR frame accepted in the hang time after a stop waits behind a
stopped rotation until the next start (dmr/DMRTX.cpp:186). A start leaves the abort
count as it is (270).

Receive: a ring that is filled while it is drained without the lock may lose its
order (modem/IO.cpp:319; `WholeWhileApart` excludes it). Under lockout the drain
returns in mid-block, and the lockout of a modem whose COS stays up does not end
(339). `m_centreVal` and `m_thresholdVal` of P25RX and NXDNRX are q15_t sums of sixteen
and wrap when a threshold reaches 2048. NXDNRX's SCALING_FACTOR 18750 is commented as
Q15(0.55), and is 0.572. The unrolled FIR loads one sample beyond the state its
comment documents; it multiplies it with nothing. CalRSSI is not reset by a change
of mode.

Host: a parser left in mid-frame by a host that stopped may meet a length it has already
passed (0 to 2, or 3 in a long frame), which nothing ends: `m_buffer[m_ptr] = c`
(modem/SerialPort.cpp:110) then goes past the buffer, over `m_ptr` and `m_len`, unless the
watchdog comes first; line 104 tests the other side only. A long P25 frame is answered by a NAK though it was queued
(modem/SerialPort.cpp:352). A long P25 report is four bytes longer than it
says (529-536): the framing is added to its length and again to what is copied and written.
For the 513 bytes `P25RX` reports of a packet (p25/P25RX.cpp:525) that also ends one byte
beyond `reply[520]` and takes four from beyond the frame; line 511 makes room for four bytes,
not for eight. writeDump() loops a uint8_t over a uint16_t (838). setConfig() sets the
debug flag before it validates (1033), and a change of duplex leaves the direct mode
receiver as it was. setChannelAFC() turns AFC on for a range that the command
left out. setBuffers tests for one byte and reads six. setRFParams accepts when
either frequency is in a band. The range checks of setSymbolLvlAdj on int8_t never
fail. createModems() accepts 76800 baud, setTermios() does not; a failed open leaves a
link to nothing and an open slave descriptor. Reads and writes after close() meet
`assert(m_fd != -1)` on the clock thread. `Modem::open()` returns EXIT_FAILURE, which
is true, when the clock thread cannot be created.

Program: a signal that arrives after a run has ended and before the flags are cleared
is lost (SDRMain.cpp:212). The rx, tx and status threads of a modem end only in
~IO, so a restart by SIGHUP leaves those of the run before (modem/IO.cpp:200).

Library: lookups on the concurrent containers run together with edits, which
concurrent_lock.h (66, 91) does not lead one to expect; lock() and then a member on
the same thread does not return; swap() and = do not lock the other container;
reserve() and operator[] of the maps take no lock, though the headers say "Thread-safe"
(common/concurrent/unordered_map.h:30); `QueuesKeepOrder` claims exclusion for the members
that lock alone; __unlock() clears its flag after
the mutex. `RingBuffer::addData()` may fill the ring until it looks empty. ThreadPool
guards its workers by two mutexes; its stop() leaves tasks, though wait() is "for
termination of any remaining thread pool tasks" (common/ThreadPool.h:110); a second start()
makes no workers, and the wait() after it joins threads that were joined
(common/ThreadPool.cpp:156).
CRC8_TABLE has 257 entries.
