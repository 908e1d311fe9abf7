------------------------------ MODULE MCLibrary -------------------------------
(***************************************************************************)
(* The parts that the others are built from, small, for TLC.  A behaviour  *)
(* is one of a single part: the transmit ring, whose calls are steps, a    *)
(* receive ring, access by access, a locked container, the thread pool, a  *)
(* timer, a ring of the common library, a checksum, a bit field, the slot  *)
(* type of a DMR burst, or the symbols of a station.  What belongs to the  *)
(* other parts stays as it was.                                            *)
(***************************************************************************)
EXTENDS SampleRing, Integers

CONSTANTS
  Block, Numbers,                                    \* RxRing
  Thread, NoThread, MaxCalls,                        \* Concurrent
  m_maxWorkerCnt, m_maxQueuedTasks, Caller, MaxTasks, MaxStarts,   \* Pool
  TicksPerSec, Secs, Msecs, Ticks, MaxElapsed,       \* Timer
  Lengths, Items, MaxBlock,                          \* DataRing
  Bytes                                              \* Crc, Bits

VARIABLES
  part,   \* which of them
  r_samples, r_head, r_tail, r_full, r_overflow, put, get, left, sample, next, due, stored, order,
  kind, owner, readers, m_locked, pc, call, calls,
  m_poolState, m_tasks, m_workers, holds, caller, control, index, made, taken, starts, joined,
  m_ticksPerSec, m_timeout, m_timer, m_paused, asked, elapsed,
  d_length, d_buffer, m_iPtr, m_oPtr, d_got, content,
  code, message, frame,
  field, before, buffer, range,
  slotType, beforeType,  \* what was encoded, and the frame it was encoded into
  burst, noisy,          \* what is received, once the channel has done what it does
  mode, adjust, channel, locked, m_averagePtr, levels, current, read, stale

R == INSTANCE RxRing WITH m_samples <- r_samples, m_head <- r_head, m_tail <- r_tail,
                          m_full <- r_full, m_overflow <- r_overflow
C == INSTANCE Concurrent
P == INSTANCE Pool
T == INSTANCE Timer
D == INSTANCE DataRing WITH m_length <- d_length, m_buffer <- d_buffer, got <- d_got

OneOf(n, S) == [i \in 1..n |-> IF i \in S THEN 1 ELSE 0]
Messages ==
  {OneOf(3, S) : S \in SUBSET (1..3)}
    \cup {OneOf(8, S) : S \in {{}, {1}, {1, 3, 4, 8}}} \cup {OneOf(16, S) : S \in {{2, 9}, 1..16}}
Bursts == {<<1>>, <<1, 1>>, <<1, 0, 1>>}
Fields == {<<b>> : b \in Bytes} \cup {<<195, 129>>}
Buffers == {<<0, 0, 0>>, <<255, 255>>}

K == INSTANCE Crc
B == INSTANCE Bits


\* Three levels for sixteen and two for four: a ring that goes round.
Averages == [DMR |-> 2, DMO |-> 2, idle |-> 1, P25 |-> 3, NXDN |-> 3]
Channels == {[gain |-> 16, offset |-> 0], [gain |-> 32, offset |-> 0], [gain |-> 16, offset |-> 30]}
Quiet == [bits \in {0, 1} \X {0, 1} |-> 0]
Squeeze == [bits \in {0, 1} \X {0, 1} |-> IF bits[1] = bits[2] THEN -20 ELSE 20]
Noises == {Quiet, Squeeze}
Adjusts == {<<0, 0>>, <<-128, 50>>}

G == INSTANCE SlotType
Y == INSTANCE Symbols

ASSUME LibraryConstants ==
  /\ R!RxRingAssumption /\ C!ConcurrentAssumption /\ P!PoolAssumption /\ T!TimerAssumption
  /\ D!DataRingAssumption /\ K!CrcAssumption /\ B!BitsAssumption
  /\ Y!SymbolsAssumption

rxVars == <<r_samples, r_head, r_tail, r_full, r_overflow,
            put, get, left, sample, next, due, stored, order>>
containerVars == <<kind, owner, readers, m_locked, pc, call, calls>>
poolVars == <<m_poolState, m_tasks, m_workers, holds, caller, control, index, made, taken, starts, joined>>
timerVars == <<m_ticksPerSec, m_timeout, m_timer, m_paused, asked, elapsed>>
dataVars == <<d_length, d_buffer, m_iPtr, m_oPtr, d_got, content>>
typeVars == <<slotType, beforeType, burst, noisy>>
symbolVars == <<mode, adjust, channel, locked, m_averagePtr, levels, current, read, stale>>
airVars == <<typeVars, symbolVars>>
frameVars == <<code, message, frame, field, before, buffer, range, airVars>>
libraryVars == <<part, ringVars, rxVars, containerVars, poolVars, timerVars, dataVars, frameVars>>

-----------------------------------------------------------------------------
(* A burst with its slot type, sent over a channel that gets up to three of its bits wrong *)

SlotTypes == {{}, {0, 1, 4}, 0..7}     \* colours 0, 1 and 15, data types 0, 3 and 15
Befores == {{}, 90..175}

Send ==
  /\ slotType \in SlotTypes /\ beforeType \in Befores
  /\ burst = G!encode(slotType, beforeType) /\ noisy = FALSE

\* Up to three bits of the word are received wrong.
Receive(errors) ==
  /\ ~noisy /\ noisy' = TRUE
  /\ burst' = G!Xor(burst, {G!Place(i) : i \in errors})
  /\ UNCHANGED <<slotType, beforeType>>

\* With three bits wrong a receiver reads the colour code and the data type that were sent,
\* and the encoder has touched nothing else in the frame, the sync in between included.
SlotTypeReturns ==
  /\ G!decode(burst) = slotType
  /\ burst \ G!Places = beforeType \ G!Places

-----------------------------------------------------------------------------
\* A part that is not used stays in one of its initial states.
LibraryInit ==
  /\ part \in {"tx", "rx", "container", "pool", "timer", "data", "checksum", "bits",
               "slot type", "symbols"}
  /\ part = "tx" \/ m_samples = [i \in Index |-> CHOOSE e \in Element : TRUE]
  /\ part = "container" \/ kind = "vector"
  /\ part = "timer" \/ (m_ticksPerSec = 1 /\ asked = 0 /\ m_timeout = 0)
  /\ part = "data" \/ d_length = CHOOSE n \in Lengths : TRUE
  /\ part = "checksum" \/ (code = "CRC8" /\ message = OneOf(8, {}))
  /\ part = "bits" \/ (field = <<195, 129>> /\ before = <<255, 255>>)
  /\ part = "slot type" \/ (slotType = {} /\ beforeType = {})
  /\ part = "symbols" \/ (mode = "DMR" /\ adjust = <<0, 0>> /\ channel = CHOOSE c \in Channels : TRUE)
  /\ Init /\ R!Init /\ C!Init /\ P!Init /\ T!Init /\ D!Init /\ K!Init /\ B!Init /\ Send /\ Y!Init

NextTx == part = "tx" /\ Next /\ UNCHANGED <<part, rxVars, containerVars, poolVars, timerVars, dataVars, frameVars>>
NextRx == part = "rx" /\ R!Next /\ UNCHANGED <<part, ringVars, containerVars, poolVars, timerVars, dataVars, frameVars>>
NotContainer == UNCHANGED <<part, ringVars, rxVars, poolVars, timerVars, dataVars, frameVars>>
NextContainer == part = "container" /\ C!Next /\ NotContainer
NotPool == UNCHANGED <<part, ringVars, rxVars, containerVars, timerVars, dataVars, frameVars>>
NextPool == part = "pool" /\ P!Next /\ NotPool
NextTimer == part = "timer" /\ T!Next /\ UNCHANGED <<part, ringVars, rxVars, containerVars, poolVars, dataVars, frameVars>>
NextData == part = "data" /\ D!Next /\ UNCHANGED <<part, ringVars, rxVars, containerVars, poolVars, timerVars, frameVars>>
NotFrame == UNCHANGED <<part, ringVars, rxVars, containerVars, poolVars, timerVars, dataVars>>
NextChecksum == part = "checksum" /\ K!Next /\ NotFrame /\ UNCHANGED <<field, before, buffer, range, airVars>>
NextBits == part = "bits" /\ B!Next /\ NotFrame /\ UNCHANGED <<code, message, frame, airVars>>
NextSlotType ==
  /\ part = "slot type" /\ NotFrame /\ \E i, j, k \in 0..19 : Receive({i, j, k})
  /\ UNCHANGED <<code, message, frame, field, before, buffer, range, symbolVars>>
NextSymbols ==
  /\ part = "symbols" /\ Y!Next /\ NotFrame
  /\ UNCHANGED <<code, message, frame, field, before, buffer, range, typeVars>>

LibraryNext ==
  \/ NextTx \/ NextRx \/ NextContainer \/ NextPool
  \/ NextTimer \/ NextData \/ NextChecksum \/ NextBits
  \/ NextSlotType \/ NextSymbols

\* The fairness of the threads of a container and of a pool.
LibrarySpec ==
  /\ LibraryInit /\ [][LibraryNext]_libraryVars
  /\ \A t \in Thread : WF_libraryVars(part = "container" /\ C!Step(t) /\ NotContainer)
  /\ WF_libraryVars(part = "pool" /\ P!Finish /\ NotPool)
  /\ \A w \in 1..P!MostWorkers :
       WF_libraryVars(part = "pool" /\ w \in P!Handles /\ P!Work(w) /\ NotPool)

-----------------------------------------------------------------------------
\* Types; an index of a receive ring is past the end only between the steps of its advance,
\* and the pool has no more than twice its workers.
AllTypesOK ==
  /\ TypeOK /\ R!TypeOK /\ D!TypeOK
  /\ part = "container" => C!TypeOK
  /\ part = "pool" => P!TypeOK

\* IO::m_rxBuffer: without a lock the reader still gets whole blocks, in order and
\* once, as long as the ends of the ring stay apart.
WholeWhileApart ==
  [][order = "kept" /\ part = "rx" /\ R!Get => order' # "lost"]_rxVars

\* RingBuffer and ThreadPool: what was accepted is there, in order and once; concurrent:
\* of the members that lock and the walks within lock(false) or shared_lock(), two are never
\* in a container together when one of them changes it.  Members that take no lock are not
\* meant.
QueuesKeepOrder ==
  /\ part = "data" => D!ContentKept
  /\ part = "pool" => P!TasksInOrder
  /\ part = "container" => C!GuardedApart

\* Whoever calls a container is served; a task of a pool that was started once is taken,
\* unless the pool is stopped before, and the first wait() returns; and a time is over when
\* its ticks have passed, paused, restarted or changed.
CallsReturn ==
  /\ part = "container" => C!CallsReturn
  /\ part = "pool" => P!TasksAreTaken /\ P!WaitReturns
  /\ [](part = "timer" => T!ExpiresInTime)

\* CRC, Utils: a checksum shows the damage of a burst, and a field is read as written.
\* DMRSlotType, samplesToBits(): colour code, data type and symbols are read as they were
\* sent, with three bits wrong and whatever was heard before.
ReadAsSent ==
  /\ part = "checksum" => K!DamageIsSeen
  /\ part = "bits" => B!FieldsReturn
  /\ part = "slot type" => SlotTypeReturns
  /\ part = "symbols" => Y!ReadsWhatIsSent
=============================================================================
