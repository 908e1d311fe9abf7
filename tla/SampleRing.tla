----------------------------- MODULE SampleRing ------------------------------
(***************************************************************************)
(* SampleBuffer: the circular buffer between a thread that produces        *)
(* samples and one that consumes them (IO::m_txBuffer, IO::m_rxBuffer).    *)
(* RSSIBuffer is the same code over another element type.  Every call is   *)
(* one step, as it is for the transmit ring, whose users hold m_txLock,    *)
(* with one exception: IO::getSpace() asks the transmit ring for its space *)
(* without the lock, so GetSpaceRead takes the reads of the tail apart.    *)
(* The receive rings, whose reader does not lock, are in RxRing.           *)
(*                                                                         *)
(* A slot holds one element: the pair of a sample and its control mark,    *)
(* which the code stores in two arrays at the same index.                  *)
(***************************************************************************)
EXTENDS Naturals, Sequences

CONSTANTS
  Length,     \* m_length, the number of slots
  Element,    \* the (sample, control) pairs
  NoElement   \* stands for the "return false" of get()

ASSUME LengthAssumption == Length \in Nat \ {0}
ASSUME ElementAssumption == Element # {} /\ NoElement \notin Element

VARIABLES
  m_samples,  \* m_samples and m_control, one element per index
  m_head,     \* index of the next slot to write
  m_tail,     \* index of the next slot to read
  m_full,     \* tells a full ring from an empty one when m_head = m_tail
  m_overflow, \* latched when a put is refused, cleared when read
  got         \* what the last get() handed out

ringVars == <<m_samples, m_head, m_tail, m_full, m_overflow, got>>

Index == 0 .. Length - 1

\* Mutant: wraps one index late.
SuccLate(i) == IF i + 1 > Length THEN 0 ELSE i + 1

\* The index that follows i: incremented, and back to 0 at m_length.
Succ(i) == IF i + 1 >= Length THEN 0 ELSE i + 1

\* getData(): how many elements are stored.
GetData ==
  IF m_tail = m_head THEN IF m_full THEN Length ELSE 0
  ELSE IF m_tail < m_head THEN m_head - m_tail
  ELSE Length - m_tail + m_head

\* What a difference becomes when it is stored in a uint16_t.
Uint16(n) == IF n < 0 THEN n + 65536 ELSE n

\* Mutant: the last test, n > m_length, is left out.
GetSpaceReadUnclamped(t1, t2, t3) ==
  IF t1 = m_head THEN IF m_full THEN 0 ELSE Length
  ELSE IF t2 < m_head THEN Length - m_head + t3
  ELSE Uint16(t3 - m_head)

\* getSpace(), with the values its three reads of m_tail found.
GetSpaceRead(t1, t2, t3) ==
  LET n == IF t1 = m_head THEN IF m_full THEN 0 ELSE Length
           ELSE IF t2 < m_head THEN Length - m_head + t3
           ELSE Uint16(t3 - m_head)
  IN  IF n > Length THEN 0 ELSE n

\* getSpace() with nobody moving the tail: how many more elements fit.
GetSpace == GetSpaceRead(m_tail, m_tail, m_tail)

\* What a read of m_tail can find when k elements have been taken meanwhile:
\* get() increments the tail first and wraps it afterwards.
TailAfter(k) ==
  IF m_tail + k < Length THEN {m_tail + k}
  ELSE IF m_tail + k = Length THEN {Length, 0}
  ELSE {m_tail + k - Length}

-----------------------------------------------------------------------------
\* The arrays come from new[] and are not initialised.
Init ==
  /\ m_samples \in [Index -> Element]
  /\ m_head = 0
  /\ m_tail = 0
  /\ m_full = FALSE
  /\ m_overflow = FALSE
  /\ got = NoElement

\* put() on a full ring: the element is lost and the loss is latched.
PutRefused ==
  /\ m_full
  /\ m_overflow' = TRUE
  /\ UNCHANGED <<m_samples, m_head, m_tail, m_full, got>>

\* Mutant: the head advances before the element is stored.
PutStoredAfterAdvance(e) ==
  /\ ~m_full
  /\ m_samples' = [m_samples EXCEPT ![Succ(m_head)] = e]
  /\ m_head' = Succ(m_head)
  /\ m_full' = (Succ(m_head) = m_tail)
  /\ UNCHANGED <<m_tail, m_overflow, got>>

\* put(): store at m_head, advance, and note whether that filled the ring.
PutStored(e) ==
  /\ ~m_full
  /\ m_samples' = [m_samples EXCEPT ![m_head] = e]
  /\ m_head' = Succ(m_head)
  /\ m_full' = (Succ(m_head) = m_tail)
  /\ UNCHANGED <<m_tail, m_overflow, got>>

Put(e) == PutRefused \/ PutStored(e)

\* get(): refused on an empty ring; otherwise read at m_tail and advance.
GetNothing ==
  /\ m_head = m_tail
  /\ ~m_full
  /\ got' = NoElement
  /\ UNCHANGED <<m_samples, m_head, m_tail, m_full, m_overflow>>

GetStored ==
  /\ ~(m_head = m_tail /\ ~m_full)
  /\ got' = m_samples[m_tail]
  /\ m_full' = FALSE
  /\ m_tail' = Succ(m_tail)
  /\ UNCHANGED <<m_samples, m_head, m_overflow>>

Get == GetNothing \/ GetStored

\* hasOverflowed(): reading the latch clears it.
HasOverflowed ==
  /\ m_overflow' = FALSE
  /\ UNCHANGED <<m_samples, m_head, m_tail, m_full, got>>

Next ==
  \/ \E e \in Element : Put(e)
  \/ Get
  \/ HasOverflowed

Spec == Init /\ [][Next]_ringVars

-----------------------------------------------------------------------------
(***************************************************************************)
(* Properties                                                              *)
(***************************************************************************)

\* The indices stay inside the arrays and the flags stay flags.
TypeOK ==
  /\ m_samples \in [Index -> Element]
  /\ m_head \in Index
  /\ m_tail \in Index
  /\ m_full \in BOOLEAN
  /\ m_overflow \in BOOLEAN
  /\ got \in Element \cup {NoElement}

\* m_full is only ever set while the indices coincide: put() sets it after the
\* head has caught up, and every get() clears it before the tail moves away.
FullMeansWrapped == m_full => m_head = m_tail

\* The two getters of the code never disagree: what is stored and what still
\* fits add up to the length, whatever the wrap position.  The transmit engines
\* budget their writes with getSpace() and the threads poll getData().
SpaceAndDataAgree == GetData + GetSpace = Length

\* IO::getSpace() is called by the thread that puts, without m_txLock, while the
\* tx thread takes elements out.  Whatever the reads of the tail find, before or
\* after each get(), or between its increment and its wrap, the answer is never
\* more than what fits when it is given.  (A full ring is excepted: get() clears
\* m_full before it moves the tail.  TxPath's ring is never full.)
UnlockedSpaceSafe ==
  ~m_full =>
    \A k1, k2, k3 \in 0 .. GetData :
      k1 <= k2 /\ k2 <= k3 =>
        \A t1 \in TailAfter(k1), t2 \in TailAfter(k2), t3 \in TailAfter(k3) :
          GetSpaceRead(t1, t2, t3) <= Length - (GetData - k3)

\* The stored elements in the order they will be read.
SlotAt(k) == IF m_tail + k - 1 < Length THEN m_tail + k - 1 ELSE m_tail + k - 1 - Length
Contents == [k \in 1 .. GetData |-> m_samples[SlotAt(k)]]

\* The ring implements a bounded FIFO: nothing accepted is lost, duplicated or
\* reordered, only a full ring refuses, and only an empty one reads nothing.
Fifo == INSTANCE BoundedFifo
          WITH Capacity <- Length, queue <- Contents,
               overflowed <- m_overflow, taken <- got
FifoRefinement == Fifo!FifoSpec
=============================================================================
