------------------------------- MODULE RxRing --------------------------------
(***************************************************************************)
(* IO::m_rxBuffer with its two threads.  The rx thread puts samples while  *)
(* it holds m_rxLock; the clock thread drains blocks in IO::process() and  *)
(* takes no lock.  So nothing keeps the threads apart, and every access to *)
(* a field of the ring is a step.  m_rssiBuffer is used in the same way.   *)
(***************************************************************************)
EXTENDS Integers

CONSTANTS
  Length,    \* RX_RINGBUFFER_SIZE
  Block,     \* RX_BLOCK_SIZE
  Numbers    \* samples are numbered modulo this

RxRingAssumption ==
  /\ Length \in Nat \ {0} /\ Block \in 1 .. Length /\ Numbers \in Nat /\ Numbers > 2 * Length
  /\ \E k \in 1 .. Length : Length = k * Block   \* a block never goes around the end

VARIABLES
  m_samples, m_head, m_tail, m_full, m_overflow,   \* as in SampleRing
  put,      \* where the rx thread is in put()
  get,      \* where the clock thread is in process(), getData() and get()
  left,     \* gets left of the block
  sample,   \* the sample read last, None when the get was refused
  \* bookkeeping
  next,     \* the number of the next sample to put
  due,      \* the number of the next sample to get
  stored,   \* samples put and not yet got
  order     \* "kept"; "crossed": the ring was emptied while a put was under way;
            \* "lost": it was filled, or a get gave another sample than the next

ring == <<m_samples, m_head, m_tail, m_full, m_overflow>>
vars == <<ring, put, get, left, sample, next, due, stored, order>>

Index == 0 .. Length - 1
None == -1

\* The difference of two uint16_t.
Minus(a, b) == (a - b) % 65536

Init ==
  /\ m_samples = [i \in Index |-> None] /\ m_head = 0 /\ m_tail = 0
  /\ m_full = FALSE /\ m_overflow = FALSE
  /\ put = "test" /\ get = "data" /\ left = 0 /\ sample = None
  /\ next = 0 /\ due = 0 /\ stored = 0 /\ order = "kept"

\* Once the order is lost the numbers mean nothing: they are not kept any longer.
Lost == /\ order' = "lost" /\ next' = 0 /\ due' = 0 /\ stored' = 0
        /\ m_samples' = [i \in Index |-> 0]

-----------------------------------------------------------------------------
(* put(), by the rx thread *)

PutRefused ==
  /\ put = "test" /\ m_full
  /\ m_overflow' = TRUE
  /\ UNCHANGED <<m_samples, m_head, m_tail, m_full, put, get, left, sample, next, due, stored, order>>

PutStore ==
  /\ put = "test" /\ ~m_full
  /\ m_samples' = [m_samples EXCEPT ![m_head] = next]
  /\ put' = "advance"
  /\ UNCHANGED <<m_head, m_tail, m_full, m_overflow, get, left, sample, next, due, stored, order>>

\* From here on the clock thread can find the sample.
PutAdvance ==
  /\ put = "advance"
  /\ m_head' = m_head + 1
  /\ put' = "wrap"
  /\ IF order = "lost" THEN UNCHANGED <<m_samples, next, due, stored, order>>
     ELSE IF stored + 1 = Length THEN Lost
     ELSE /\ next' = (next + 1) % Numbers /\ stored' = stored + 1
          /\ UNCHANGED <<m_samples, due, order>>
  /\ UNCHANGED <<m_tail, m_full, m_overflow, get, left, sample>>

PutWrap ==
  /\ put = "wrap"
  /\ m_head' = (IF m_head >= Length THEN 0 ELSE m_head)
  /\ put' = "compare"
  /\ UNCHANGED <<m_samples, m_tail, m_full, m_overflow, get, left, sample, next, due, stored, order>>

\* The ends are equal when the ring is full, or when the clock thread has taken
\* all there was since PutAdvance.
PutCompare ==
  /\ put = "compare"
  /\ put' = (IF m_head = m_tail THEN "full" ELSE "test")
  /\ UNCHANGED <<ring, get, left, sample, next, due, stored, order>>

PutFull ==
  /\ put = "full"
  /\ m_full' = TRUE /\ put' = "test"
  /\ UNCHANGED <<m_samples, m_head, m_tail, m_overflow, get, left, sample, next, due, stored, order>>

Put == PutRefused \/ PutStore \/ PutAdvance \/ PutWrap \/ PutCompare \/ PutFull

-----------------------------------------------------------------------------
(* process(): getData() >= RX_BLOCK_SIZE, then a block of get() *)

\* What the clock thread does once getData() has answered.
Answered(n) ==
  IF n >= Block THEN get' = "test" /\ left' = Block ELSE get' = "data" /\ UNCHANGED left

ClockOnly == UNCHANGED <<m_head, m_overflow, put>>

NumbersKept == UNCHANGED <<m_samples, next, due, stored, order>>

\* getData() reads the head up to three times.  The head it finds may be that of
\* a put between its two steps.
DataEqual ==
  /\ get = "data"
  /\ get' = (IF m_tail = m_head THEN "data full" ELSE "data less")
  /\ UNCHANGED <<m_tail, m_full, left, sample>> /\ ClockOnly /\ NumbersKept

DataFull ==
  /\ get = "data full" /\ Answered(IF m_full THEN Length ELSE 0)
  /\ UNCHANGED <<m_tail, m_full, sample>> /\ ClockOnly /\ NumbersKept

DataLess ==
  /\ get = "data less"
  /\ get' = (IF m_tail < m_head THEN "data ahead" ELSE "data around")
  /\ UNCHANGED <<m_tail, m_full, left, sample>> /\ ClockOnly /\ NumbersKept

DataAhead ==
  /\ get = "data ahead" /\ Answered(Minus(m_head, m_tail))
  /\ UNCHANGED <<m_tail, m_full, sample>> /\ ClockOnly /\ NumbersKept

DataAround ==
  /\ get = "data around" /\ Answered(Minus(Length + m_head, m_tail))
  /\ UNCHANGED <<m_tail, m_full, sample>> /\ ClockOnly /\ NumbersKept

\* A get must give the next sample.
Expect(number) == IF order # "lost" /\ number # due THEN Lost ELSE NumbersKept

\* get(), refused: the sample stays 0 and its mark whatever the stack held.
GetRefused ==
  /\ get = "test" /\ m_head = m_tail /\ ~m_full
  /\ sample' = None /\ Expect(None)
  /\ left' = left - 1 /\ get' = (IF left = 1 THEN "data" ELSE "test")
  /\ UNCHANGED <<m_tail, m_full>> /\ ClockOnly

\* Mutant: the tail advances before the sample is read.
SlotAfterTail == (m_tail + 1) % Length

SlotRead == m_tail

GetRead ==
  /\ get = "test" /\ ~(m_head = m_tail /\ ~m_full)
  /\ sample' = m_samples[SlotRead] /\ Expect(m_samples[SlotRead])
  /\ get' = "clear"
  /\ UNCHANGED <<m_tail, m_full, left>> /\ ClockOnly

\* Every get clears the flag, also one that was not full.
GetClear ==
  /\ get = "clear"
  /\ m_full' = FALSE /\ get' = "advance"
  /\ UNCHANGED <<m_tail, left, sample>> /\ ClockOnly /\ NumbersKept

TailWrapped(tail) == IF tail >= Length THEN 0 ELSE tail

\* The last sample, taken from between the steps of its put.
Crosses == stored = 1 /\ put \in {"wrap", "compare"}

GetAdvance ==
  /\ get = "advance"
  /\ m_tail' = m_tail + 1
  /\ get' = "wrap"
  /\ IF order = "lost" THEN NumbersKept
     ELSE /\ stored' = stored - 1 /\ due' = (due + 1) % Numbers
          /\ order' = (IF Crosses THEN "crossed" ELSE order)
          /\ UNCHANGED <<m_samples, next>>
  /\ UNCHANGED <<m_full, left, sample>> /\ ClockOnly

GetWrap ==
  /\ get = "wrap"
  /\ m_tail' = TailWrapped(m_tail)
  /\ left' = left - 1 /\ get' = (IF left = 1 THEN "data" ELSE "test")
  /\ UNCHANGED <<m_full, sample>> /\ ClockOnly /\ NumbersKept

Get == \/ DataEqual \/ DataFull \/ DataLess \/ DataAhead \/ DataAround
       \/ GetRefused \/ GetRead \/ GetClear \/ GetAdvance \/ GetWrap

Next == Put \/ Get

Spec == Init /\ [][Next]_vars

-----------------------------------------------------------------------------
(* Properties *)

\* Types, of the state and of the bookkeeping.
TypeOK ==
  /\ m_samples \in [Index -> 0 .. Numbers - 1 \cup {None}]
  /\ m_head \in 0 .. Length /\ m_tail \in 0 .. Length
  /\ put = "wrap" \/ m_head \in Index
  /\ get = "wrap" \/ m_tail \in Index
  /\ m_full \in BOOLEAN /\ m_overflow \in BOOLEAN
  /\ put \in {"test", "advance", "wrap", "compare", "full"}
  /\ get \in {"data", "data full", "data less", "data ahead", "data around",
              "test", "clear", "advance", "wrap"}
  /\ left \in 0 .. Block /\ sample \in 0 .. Numbers - 1 \cup {None}
  /\ next \in 0 .. Numbers - 1 /\ due \in 0 .. Numbers - 1
  /\ stored \in 0 .. Length /\ order \in {"kept", "crossed", "lost"}
=============================================================================
