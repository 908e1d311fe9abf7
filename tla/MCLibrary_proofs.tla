-------------------------- MODULE MCLibrary_proofs ---------------------------
(***************************************************************************)
(* Proofs about the parts that the others are built from, of any size.     *)
(* The transmit ring: its invariant, the agreement of its two getters, and *)
(* that it implements BoundedFifo.  The receive ring, whose reader takes   *)
(* no lock: no block is refused and no sample is out of order while the    *)
(* ends stay apart.  The containers, the thread pool and the ring of the   *)
(* common library: who is alone and what keeps its order.                  *)
(***************************************************************************)
EXTENDS MCLibrary, SequenceTheorems, TLAPS

-----------------------------------------------------------------------------
(* The transmit ring *)

\* The inductive invariant: types, and the meaning of m_full.
RingInv == TypeOK /\ FullMeansWrapped

\* The successor of an index is an index.
LEMMA SuccIndex == \A i \in Index : Succ(i) \in Index
  BY LengthAssumption DEF Index, Succ

\* Every reachable state satisfies the ring invariant: no sequence of put(),
\* get() and hasOverflowed() calls takes an index outside the arrays or leaves
\* m_full set while the indices differ.
THEOREM RingInvariant == Spec => []RingInv
<1>1. Init => RingInv
  <2>1. 0 \in Index
    BY LengthAssumption DEF Index
  <2>2. QED
    BY <2>1 DEF Init, RingInv, TypeOK, FullMeansWrapped
<1>2. RingInv /\ [Next]_ringVars => RingInv'
  <2> SUFFICES ASSUME RingInv, [Next]_ringVars PROVE RingInv'
    OBVIOUS
  <2> USE DEF RingInv, TypeOK, FullMeansWrapped
  <2>1. ASSUME PutRefused PROVE RingInv'
    BY <2>1 DEF PutRefused
  <2>2. ASSUME NEW e \in Element, PutStored(e) PROVE RingInv'
    BY <2>2, SuccIndex DEF PutStored
  <2>3. ASSUME GetNothing PROVE RingInv'
    BY <2>3 DEF GetNothing
  <2>4. ASSUME GetStored PROVE RingInv'
    BY <2>4, SuccIndex DEF GetStored
  <2>5. ASSUME HasOverflowed PROVE RingInv'
    BY <2>5 DEF HasOverflowed
  <2>6. CASE UNCHANGED ringVars
    BY <2>6 DEF ringVars
  <2>7. QED
    BY <2>1, <2>2, <2>3, <2>4, <2>5, <2>6 DEF Next, Put, Get
<1>3. QED
  BY <1>1, <1>2, PTL DEF Spec

\* No call takes an index outside the arrays.
THEOREM RingTypes == Spec => []TypeOK
<1>1. RingInv => TypeOK
  BY DEF RingInv
<1>2. QED
  BY RingInvariant, <1>1, PTL

\* The inductive invariant implies that getData() + getSpace() = m_length.
LEMMA GettersAgree == RingInv => SpaceAndDataAgree
  BY LengthAssumption
  DEF RingInv, TypeOK, FullMeansWrapped, Index, SpaceAndDataAgree, GetData, GetSpace, GetSpaceRead, Uint16

\* getData() and getSpace() always add up to the length of the ring.
THEOREM SpaceAndData == Spec => []SpaceAndDataAgree
  BY RingInvariant, GettersAgree, PTL

-----------------------------------------------------------------------------
(* getSpace() without the lock. *)

\* The inductive invariant implies that the unlocked answer is a safe one.  The
\* cases are those of the code: it saw an empty ring, or a tail below the head,
\* which then cannot wrap, or a tail above the head, which can, and then the
\* difference is negative and its uint16_t too large to be believed.
LEMMA UnlockedSpaceIsSafe == Length < 32768 /\ RingInv => UnlockedSpaceSafe
<1> SUFFICES ASSUME Length < 32768, RingInv, ~m_full,
                    NEW k1 \in 0 .. GetData, NEW k2 \in 0 .. GetData, NEW k3 \in 0 .. GetData,
                    k1 <= k2, k2 <= k3,
                    NEW t1 \in TailAfter(k1), NEW t2 \in TailAfter(k2), NEW t3 \in TailAfter(k3)
             PROVE  GetSpaceRead(t1, t2, t3) <= Length - (GetData - k3)
  BY DEF UnlockedSpaceSafe
<1>1. /\ Length \in Nat \ {0} /\ m_head \in 0 .. Length - 1 /\ m_tail \in 0 .. Length - 1
      /\ GetData \in 0 .. Length - 1
      /\ GetData = IF m_tail <= m_head THEN m_head - m_tail ELSE Length - m_tail + m_head
  BY LengthAssumption DEF RingInv, TypeOK, Index, GetData
<1>2. /\ t1 \in 0 .. Length /\ t2 \in 0 .. Length /\ t3 \in 0 .. Length
      /\ t1 = m_tail + k1 \/ t1 = m_tail + k1 - Length
      /\ t2 = m_tail + k2 \/ t2 = m_tail + k2 - Length
      /\ t3 = m_tail + k3 \/ t3 = m_tail + k3 - Length
  BY <1>1 DEF TailAfter
<1>3. CASE t1 = m_head
  BY <1>1, <1>2, <1>3 DEF GetSpaceRead
<1>4. CASE t1 # m_head /\ t2 < m_head
  BY <1>1, <1>2, <1>4 DEF GetSpaceRead
<1>5. CASE t1 # m_head /\ ~(t2 < m_head)
  BY <1>1, <1>2, <1>5 DEF GetSpaceRead, Uint16
<1>6. QED
  BY <1>3, <1>4, <1>5

\* The thread that puts can ask for the space without the lock: however its reads
\* fall between the steps of get(), it is promised no more than fits.  A uint16_t
\* difference must be recognisable, so the ring has fewer than 2^15 slots.
THEOREM UnlockedSpace == Length < 32768 => (Spec => []UnlockedSpaceSafe)
<1> SUFFICES ASSUME Length < 32768 PROVE Spec => []UnlockedSpaceSafe
  OBVIOUS
<1>1. RingInv => UnlockedSpaceSafe
  BY UnlockedSpaceIsSafe
<1>2. QED
  BY RingInvariant, <1>1, PTL

-----------------------------------------------------------------------------
(* The refinement. *)

\* getData() is a number of slots.
LEMMA DataBounds == ASSUME RingInv PROVE GetData \in 0 .. Length
  BY LengthAssumption DEF RingInv, TypeOK, FullMeansWrapped, Index, GetData

\* The contents of the ring are a sequence of GetData elements.
LEMMA ContentsSeq ==
  ASSUME RingInv
  PROVE  /\ Contents \in Seq(Element)
         /\ Len(Contents) = GetData
         /\ \A k \in 1 .. GetData : SlotAt(k) \in Index
<1>1. GetData \in Nat /\ GetData <= Length
  BY DataBounds, LengthAssumption
<1>2. \A k \in 1 .. GetData : SlotAt(k) \in Index
  BY <1>1, LengthAssumption DEF RingInv, TypeOK, Index, SlotAt
<1>3. \A k \in 1 .. GetData : m_samples[SlotAt(k)] \in Element
  BY <1>2 DEF RingInv, TypeOK
<1>4. QED
  BY <1>1, <1>2, <1>3 DEF Contents

\* Storing an element appends it to the contents.
LEMMA PutAppends ==
  ASSUME RingInv, NEW e \in Element, PutStored(e)
  PROVE  GetData < Length /\ Contents' = Append(Contents, e)
<1> DEFINE n == GetData
<1>1. n \in Nat /\ n < Length /\ Length \in Nat
  BY LengthAssumption
  DEF RingInv, TypeOK, FullMeansWrapped, Index, GetData, PutStored
<1>2. GetData' = n + 1
  <2>1. /\ m_tail' = m_tail
        /\ m_head' = IF m_head + 1 >= Length THEN 0 ELSE m_head + 1
        /\ m_full' <=> m_head' = m_tail
    BY DEF PutStored, Succ
  <2>2. CASE m_head' = m_tail
    BY <2>1, <2>2, LengthAssumption
    DEF RingInv, TypeOK, FullMeansWrapped, Index, GetData, PutStored
  <2>3. CASE m_head' # m_tail
    BY <2>1, <2>3, LengthAssumption
    DEF RingInv, TypeOK, FullMeansWrapped, Index, GetData, PutStored
  <2>4. QED
    BY <2>2, <2>3
<1>3. SlotAt(n + 1) = m_head
  BY <1>1, LengthAssumption
  DEF RingInv, TypeOK, FullMeansWrapped, Index, GetData, PutStored, SlotAt
<1>4. \A k \in 1 .. n : SlotAt(k) \in Index /\ SlotAt(k) # m_head
  BY <1>1, LengthAssumption
  DEF RingInv, TypeOK, FullMeansWrapped, Index, GetData, PutStored, SlotAt
<1>5. \A k \in 1 .. n + 1 : SlotAt(k)' = SlotAt(k)
  BY DEF SlotAt, PutStored
<1>6. \A k \in 1 .. n : m_samples'[SlotAt(k)] = m_samples[SlotAt(k)]
  BY <1>4 DEF PutStored, RingInv, TypeOK
<1>7. m_samples'[m_head] = e
  BY DEF PutStored, RingInv, TypeOK
<1>8. Contents' = [k \in 1 .. n + 1 |-> m_samples'[SlotAt(k)]]
  BY <1>2, <1>5 DEF Contents
<1>9. Contents \in Seq(Element) /\ Len(Contents) = n
  BY ContentsSeq
<1>10. /\ Append(Contents, e) \in Seq(Element)
       /\ Len(Append(Contents, e)) = n + 1
       /\ \A k \in 1 .. n : Append(Contents, e)[k] = Contents[k]
       /\ Append(Contents, e)[n + 1] = e
  BY <1>9, AppendProperties
<1>11. \A k \in 1 .. n + 1 : m_samples'[SlotAt(k)] = Append(Contents, e)[k]
  BY <1>1, <1>3, <1>6, <1>7, <1>10 DEF Contents
<1>12. Append(Contents, e) = [k \in 1 .. n + 1 |-> Append(Contents, e)[k]]
  BY <1>10, LenProperties
<1>13. QED
  BY <1>1, <1>8, <1>11, <1>12

\* Reading takes the oldest element off the contents.
LEMMA GetTakesHead ==
  ASSUME RingInv, GetStored
  PROVE  /\ Contents # <<>>
         /\ got' = Head(Contents)
         /\ Contents' = Tail(Contents)
<1> DEFINE n == GetData
<1>1. n \in Nat /\ n > 0 /\ Length \in Nat /\ n <= Length
  BY LengthAssumption
  DEF RingInv, TypeOK, FullMeansWrapped, Index, GetData, GetStored
<1>2. GetData' = n - 1
  BY LengthAssumption
  DEF RingInv, TypeOK, FullMeansWrapped, Index, GetData, GetStored, Succ
<1>3. SlotAt(1) = m_tail
  BY <1>1, LengthAssumption DEF RingInv, TypeOK, Index, SlotAt
<1>4. \A k \in 1 .. n - 1 : SlotAt(k)' = SlotAt(k + 1)
  BY <1>1, LengthAssumption DEF RingInv, TypeOK, Index, SlotAt, GetStored, Succ
<1>5. Contents \in Seq(Element) /\ Len(Contents) = n
  BY ContentsSeq
<1>6. Contents # <<>>
  BY <1>5, <1>1
<1>7. got' = Head(Contents)
  BY <1>1, <1>3, <1>5 DEF Contents, GetStored
<1>8. Tail(Contents) = [k \in 1 .. n - 1 |-> Contents[k + 1]]
  <2>1. /\ Tail(Contents) \in Seq(Element)
        /\ Len(Tail(Contents)) = n - 1
        /\ \A k \in 1 .. n - 1 : Tail(Contents)[k] = Contents[k + 1]
    BY <1>5, <1>6, HeadTailProperties
  <2>2. Tail(Contents) = [k \in 1 .. n - 1 |-> Tail(Contents)[k]]
    BY <2>1, LenProperties
  <2>3. QED
    BY <2>1, <2>2
<1>9. Contents' = [k \in 1 .. n - 1 |-> m_samples[SlotAt(k + 1)]]
  BY <1>2, <1>4 DEF Contents, GetStored
<1>10. \A k \in 1 .. n - 1 : Contents[k + 1] = m_samples[SlotAt(k + 1)]
  BY <1>1 DEF Contents
<1>11. QED
  BY <1>6, <1>7, <1>8, <1>9, <1>10

\* The contents do not change while the samples and the indices do not.
LEMMA ContentsStable ==
  ASSUME UNCHANGED <<m_samples, m_head, m_tail, m_full>>
  PROVE  Contents' = Contents
  BY DEF Contents, GetData, SlotAt

\* SampleBuffer implements a bounded FIFO of m_length elements: every call maps
\* to a step of the abstract queue or leaves it alone.
THEOREM RingImplementsFifo == Spec => FifoRefinement
<1>1. Init => Fifo!FifoInit
  <2> SUFFICES ASSUME Init PROVE Fifo!FifoInit
    OBVIOUS
  <2>1. GetData = 0
    BY DEF Init, GetData
  <2>2. Contents = <<>>
    BY <2>1 DEF Contents
  <2>3. QED
    BY <2>2 DEF Init, Fifo!FifoInit
<1>2. RingInv /\ [Next]_ringVars => [Fifo!FifoNext]_(Fifo!fifoVars)
  <2> SUFFICES ASSUME RingInv, [Next]_ringVars
               PROVE  [Fifo!FifoNext]_(Fifo!fifoVars)
    OBVIOUS
  <2>0. Contents \in Seq(Element) /\ Len(Contents) = GetData
    BY ContentsSeq
  <2>1. ASSUME PutRefused PROVE Fifo!Refuse
    <3>1. Contents' = Contents
      BY <2>1, ContentsStable DEF PutRefused
    <3>2. Len(Contents) = Length
      BY <2>0, <2>1 DEF PutRefused, GetData, RingInv, FullMeansWrapped
    <3>3. QED
      BY <2>1, <3>1, <3>2 DEF PutRefused, Fifo!Refuse
  <2>2. ASSUME NEW e \in Element, PutStored(e) PROVE Fifo!Accept(e)
    BY <2>0, <2>2, PutAppends DEF PutStored, Fifo!Accept
  <2>3. ASSUME GetNothing PROVE Fifo!TakeNothing
    <3>1. Contents' = Contents
      BY <2>3, ContentsStable DEF GetNothing
    <3>2. GetData = 0
      BY <2>3 DEF GetNothing, GetData
    <3>3. Contents = <<>>
      BY <3>2 DEF Contents
    <3>4. QED
      BY <2>3, <3>1, <3>3 DEF GetNothing, Fifo!TakeNothing
  <2>4. ASSUME GetStored PROVE Fifo!Take
    BY <2>4, GetTakesHead DEF GetStored, Fifo!Take
  <2>5. ASSUME HasOverflowed PROVE Fifo!ClearOverflow
    <3>1. Contents' = Contents
      BY <2>5, ContentsStable DEF HasOverflowed
    <3>2. QED
      BY <2>5, <3>1 DEF HasOverflowed, Fifo!ClearOverflow
  <2>6. ASSUME UNCHANGED ringVars PROVE UNCHANGED Fifo!fifoVars
    <3>1. Contents' = Contents
      BY <2>6, ContentsStable DEF ringVars
    <3>2. QED
      BY <2>6, <3>1 DEF ringVars, Fifo!fifoVars
  <2>7. QED
    BY <2>1, <2>2, <2>3, <2>4, <2>5, <2>6 DEF Next, Put, Get, Fifo!FifoNext
<1>3. QED
  BY <1>1, <1>2, RingInvariant, PTL DEF Spec, FifoRefinement, Fifo!FifoSpec

-----------------------------------------------------------------------------
(* The receive ring.  Its reader takes no lock, so the invariant says what  *)
(* the slots hold between any two accesses.                                 *)

\* An index between its advance and its wrap counts as wrapped.
Wrapped(i) == IF i = Length THEN 0 ELSE i
Around(i) == IF i >= Length THEN i - Length ELSE i

\* Slots from tail to i, and the number a count below zero or past the last stands for.
Away(tail, i) == IF i >= tail THEN i - tail ELSE i - tail + Length
Numbered(n) == IF n < 0 THEN n + Numbers ELSE IF n >= Numbers THEN n - Numbers ELSE n

\* From tail on, written slots hold the numbers from first, and the others nothing or what
\* was there a round ago.
Slots(samples, tail, written, first) ==
  \A i \in 0 .. Length - 1 :
    IF Away(tail, i) < written THEN samples[i] = Numbered(first + Away(tail, i))
    ELSE samples[i] \in {-1, Numbered(first + Away(tail, i) - Length)}

LEMMA RxConstants ==
  /\ Length \in Nat \ {0} /\ Block \in 1 .. Length /\ Numbers \in Nat /\ Numbers > 2 * Length
  /\ \E k \in Nat : Length = k * Block
  BY LibraryConstants DEF R!RxRingAssumption

\* The number after a number.
LEMMA NumberAfter ==
  ASSUME NEW n \in 0 .. Numbers - 1
  PROVE  (n + 1) % Numbers = Numbered(n + 1) /\ Numbered(n + 1) \in 0 .. Numbers - 1
<1>1. Numbers \in Nat \ {0}
  BY RxConstants
<1>2. CASE n + 1 = Numbers
  BY <1>1, <1>2 DEF Numbered
<1>3. CASE n + 1 < Numbers
  BY <1>1, <1>3 DEF Numbered
<1>4. QED
  BY <1>1, <1>2, <1>3

\* The next sample is written behind the others.
LEMMA SlotsPut ==
  ASSUME NEW samples, NEW tail \in 0 .. Length - 1, NEW written \in 0 .. Length - 1,
         NEW first \in 0 .. Numbers - 1, DOMAIN samples = 0 .. Length - 1,
         Slots(samples, tail, written, first)
  PROVE  Slots([samples EXCEPT ![Around(tail + written)] = Numbered(first + written)],
               tail, written + 1, first)
<1>1. Length \in Nat \ {0} /\ Numbers \in Nat /\ Numbers > 2 * Length
  BY RxConstants
<1> DEFINE place == Around(tail + written)
           after == [samples EXCEPT ![place] = Numbered(first + written)]
<1>2. place \in 0 .. Length - 1 /\ Away(tail, place) = written
  BY <1>1 DEF Around, Away
<1>3. ASSUME NEW i \in 0 .. Length - 1
      PROVE  IF Away(tail, i) < written + 1 THEN after[i] = Numbered(first + Away(tail, i))
             ELSE after[i] \in {-1, Numbered(first + Away(tail, i) - Length)}
  <2>1. CASE i = place
    <3>1. after[i] = Numbered(first + written)
      BY <1>2, <2>1
    <3> HIDE DEF after, place
    <3>2. Away(tail, i) < written + 1 /\ Away(tail, i) = written
      BY <1>2, <2>1
    <3>3. QED
      BY <3>1, <3>2
  <2>2. CASE i # place
    <3>1. after[i] = samples[i]
      BY <2>2
    <3>2. Away(tail, i) \in Int /\ Away(tail, i) # written
      BY <1>1, <1>2, <2>2 DEF Away, Around
    <3>3. IF Away(tail, i) < written THEN samples[i] = Numbered(first + Away(tail, i))
          ELSE samples[i] \in {-1, Numbered(first + Away(tail, i) - Length)}
      BY DEF Slots
    <3> HIDE DEF after, place
    <3>4. Away(tail, i) < written + 1 <=> Away(tail, i) < written
      BY <3>2
    <3>5. QED
      BY <3>1, <3>3, <3>4
  <2>3. QED
    BY <2>1, <2>2
<1>4. QED
  BY <1>3 DEF Slots

\* The oldest sample is read: its slot is the last now, a round behind.
LEMMA SlotsGet ==
  ASSUME NEW samples, NEW tail \in 0 .. Length - 1, NEW written \in 1 .. Length,
         NEW first \in 0 .. Numbers - 1, Slots(samples, tail, written, first)
  PROVE  Slots(samples, Around(tail + 1), written - 1, Numbered(first + 1))
<1>1. Length \in Nat \ {0} /\ Numbers \in Nat /\ Numbers > 2 * Length
  BY RxConstants
<1> DEFINE then == Around(tail + 1)
<1>2. ASSUME NEW i \in 0 .. Length - 1
      PROVE  IF Away(then, i) < written - 1 THEN samples[i] = Numbered(Numbered(first + 1) + Away(then, i))
             ELSE samples[i] \in {-1, Numbered(Numbered(first + 1) + Away(then, i) - Length)}
  <2>0. IF Away(tail, i) < written THEN samples[i] = Numbered(first + Away(tail, i))
        ELSE samples[i] \in {-1, Numbered(first + Away(tail, i) - Length)}
    BY DEF Slots
  <2>1. CASE i = tail
    <3>1. Away(tail, i) = 0 /\ Away(then, i) = Length - 1
      BY <1>1, <2>1 DEF Away, Around
    <3>2. Numbered(first) = first
      BY <1>1 DEF Numbered
    <3>3. Numbered(Numbered(first + 1) + (Length - 1) - Length) = first
      BY <1>1 DEF Numbered
    <3>4. QED
      BY <1>1, <2>0, <3>1, <3>2, <3>3
  <2>2. CASE i # tail
    <3>1. /\ Away(tail, i) \in 1 .. Length - 1 /\ Away(then, i) = Away(tail, i) - 1
      BY <1>1, <2>2 DEF Away, Around
    <3>2. PICK d \in 1 .. Length - 1 : d = Away(tail, i)
      BY <3>1
    <3>3. Numbered(Numbered(first + 1) + (d - 1)) = Numbered(first + d)
      BY <1>1 DEF Numbered
    <3>4. Numbered(Numbered(first + 1) + (d - 1) - Length) = Numbered(first + d - Length)
      BY <1>1 DEF Numbered
    <3>5. d - 1 < written - 1 <=> d < written
      BY <1>1
    <3>6. Away(then, i) = d - 1
      BY <3>1, <3>2
    <3>7. QED
      BY <2>0, <3>2, <3>3, <3>4, <3>5, <3>6
  <2>3. QED
    BY <2>1, <2>2
<1>3. QED
  BY <1>2 DEF Slots

\* The slot at the tail holds the first number, and only when it was written.
LEMMA SlotOfFirst ==
  ASSUME NEW samples, NEW tail \in 0 .. Length - 1, NEW written \in 0 .. Length,
         NEW first \in 0 .. Numbers - 1, Slots(samples, tail, written, first)
  PROVE  samples[tail] = first <=> written > 0
<1>1. Length \in Nat \ {0} /\ Numbers \in Nat /\ Numbers > 2 * Length
  BY RxConstants
<1>2. Away(tail, tail) = 0
  BY <1>1 DEF Away
<1>3. IF 0 < written THEN samples[tail] = Numbered(first + 0)
      ELSE samples[tail] \in {-1, Numbered(first + 0 - Length)}
  BY <1>2 DEF Slots
<1>4. Numbered(first + 0) = first /\ Numbered(first + 0 - Length) # first /\ -1 # first
  BY <1>1 DEF Numbered
<1>5. QED
  BY <1>3, <1>4

\* An index at a block that is not at the end has a block before it.
LEMMA BlockFits ==
  ASSUME NEW j \in Nat, j * Block < Length
  PROVE  j * Block + Block = (j + 1) * Block /\ j * Block + Block <= Length
<1>1. PICK k \in Nat : Length = k * Block
  BY RxConstants
<1>2. PICK b \in Nat \ {0} : b = Block
  BY RxConstants
<1>3. j < k
  <2>1. ASSUME k <= j PROVE FALSE
    <3>1. k * b <= j * b
      BY <2>1, SMTT(20)
    <3>2. QED
      BY <1>1, <1>2, <3>1
  <2>2. QED
    BY <2>1
<1>4. (j + 1) * b = j * b + b
  BY SMTT(20)
<1>5. (j + 1) * b <= k * b
  <2>1. j + 1 <= k
    BY <1>3
  <2>2. QED
    BY <2>1, SMTT(20)
<1>6. QED
  BY <1>1, <1>2, <1>4, <1>5

\* A difference of two uint16_t that is not negative is not made larger.
LEMMA MinusAtMost == \A n \in Nat : n % 65536 \in Nat /\ n % 65536 <= n
  OBVIOUS


\* Between a store and the advance that follows one more slot is written than stored.
Written == IF put = "advance" THEN stored + 1 ELSE stored

RxHolds(samples, head, tail, first, after, count, written) ==
  /\ count \in 0 .. Length - 1 /\ Wrapped(head) = Around(Wrapped(tail) + count)
  /\ after = Numbered(first + count)
  /\ Slots(samples, Wrapped(tail), written, first)

\* n samples from tail on are the rest of a block.
AtBlock(n) == \E j \in Nat : n = j * Block
BlockAt(tail, n, count) == n <= count /\ AtBlock(tail + n) /\ tail + n <= Length

Asking == get \in {"data", "data full", "data less", "data ahead", "data around"}
Getting == get \in {"test", "clear", "advance"}

\* While the order is kept: the ring was never full, what getData() has begun to count is
\* there, and so is the rest of the block that get() is in.
RxApart ==
  /\ ~r_full /\ put # "full"
  /\ put \in {"wrap", "compare"} => stored >= 1
  /\ get \in {"data less", "data ahead", "data around"} => stored >= 1
  /\ get = "data around" => r_head < r_tail
  /\ Asking => AtBlock(r_tail)
  /\ Getting => BlockAt(r_tail, left, stored)
  /\ get = "wrap" => BlockAt(r_tail, left - 1, stored)

RxInv ==
  /\ R!TypeOK
  /\ order # "lost" => RxHolds(r_samples, r_head, r_tail, due, next, stored, Written)
  /\ put # "test" => ~r_full
  /\ Asking \/ left >= 1
  /\ order # "lost" /\ get \in {"clear", "advance"} => stored >= 1
  /\ order = "kept" => RxApart

-----------------------------------------------------------------------------
(* What a step does to the slots. *)

LEMMA HoldsStore ==
  ASSUME NEW samples, NEW head \in 0 .. Length - 1, NEW tail \in 0 .. Length,
         NEW first \in 0 .. Numbers - 1, NEW after, NEW count,
         DOMAIN samples = 0 .. Length - 1,
         RxHolds(samples, head, tail, first, after, count, count)
  PROVE  RxHolds([samples EXCEPT ![head] = after], head, tail, first, after, count, count + 1)
<1>1. /\ count \in 0 .. Length - 1 /\ Wrapped(head) = Around(Wrapped(tail) + count)
      /\ after = Numbered(first + count)
      /\ Slots(samples, Wrapped(tail), count, first)
  BY DEF RxHolds
<1>2. Wrapped(tail) \in 0 .. Length - 1 /\ Wrapped(head) = head
  BY RxConstants DEF Wrapped
<1>3. Slots([samples EXCEPT ![head] = after], Wrapped(tail), count + 1, first)
  BY <1>1, <1>2, SlotsPut
<1>4. QED
  BY <1>1, <1>3 DEF RxHolds

LEMMA HoldsAdvance ==
  ASSUME NEW samples, NEW head \in 0 .. Length - 1, NEW tail \in 0 .. Length,
         NEW first \in 0 .. Numbers - 1, NEW after, NEW count, count + 1 # Length,
         RxHolds(samples, head, tail, first, after, count, count + 1)
  PROVE  RxHolds(samples, head + 1, tail, first, Numbered(after + 1), count + 1, count + 1)
<1>1. /\ count \in 0 .. Length - 1 /\ Wrapped(head) = Around(Wrapped(tail) + count)
      /\ after = Numbered(first + count)
      /\ Slots(samples, Wrapped(tail), count + 1, first)
  BY DEF RxHolds
<1>2. Length \in Nat \ {0} /\ Numbers \in Nat /\ Numbers > 2 * Length
  BY RxConstants
<1>3. count + 1 \in 0 .. Length - 1
  BY <1>1, <1>2
<1>4. Wrapped(head + 1) = Around(Wrapped(tail) + (count + 1))
  BY <1>1, <1>2, <1>3 DEF Wrapped, Around
<1>5. Numbered(after + 1) = Numbered(first + (count + 1))
  BY <1>1, <1>2, <1>3 DEF Numbered
<1>6. QED
  BY <1>1, <1>3, <1>4, <1>5 DEF RxHolds

\* The wrap of either index changes nothing.
LEMMA HoldsWrap ==
  ASSUME NEW samples, NEW head \in 0 .. Length, NEW tail \in 0 .. Length,
         NEW first, NEW after, NEW count, NEW written,
         RxHolds(samples, head, tail, first, after, count, written)
  PROVE  /\ RxHolds(samples, IF head >= Length THEN 0 ELSE head, tail, first, after, count, written)
         /\ RxHolds(samples, head, IF tail >= Length THEN 0 ELSE tail, first, after, count, written)
<1>1. /\ Wrapped(IF head >= Length THEN 0 ELSE head) = Wrapped(head)
      /\ Wrapped(IF tail >= Length THEN 0 ELSE tail) = Wrapped(tail)
  BY RxConstants DEF Wrapped
<1>2. QED
  BY <1>1 DEF RxHolds

LEMMA HoldsTake ==
  ASSUME NEW samples, NEW head \in 0 .. Length, NEW tail \in 0 .. Length - 1,
         NEW first \in 0 .. Numbers - 1, NEW after, NEW count \in Nat, count >= 1,
         NEW written \in {count, count + 1},
         RxHolds(samples, head, tail, first, after, count, written)
  PROVE  RxHolds(samples, head, tail + 1, Numbered(first + 1), after, count - 1, written - 1)
<1>1. /\ count \in 0 .. Length - 1 /\ Wrapped(head) = Around(Wrapped(tail) + count)
      /\ after = Numbered(first + count)
      /\ Slots(samples, Wrapped(tail), written, first)
  BY DEF RxHolds
<1>2. Length \in Nat \ {0} /\ Numbers \in Nat /\ Numbers > 2 * Length
  BY RxConstants
<1>3. /\ Wrapped(tail) = tail /\ Wrapped(tail + 1) = Around(tail + 1) /\ written \in 1 .. Length
      /\ count - 1 \in 0 .. Length - 1
  BY <1>1, <1>2 DEF Wrapped, Around
<1>4. Slots(samples, Wrapped(tail + 1), written - 1, Numbered(first + 1))
  BY <1>1, <1>3, SlotsGet
<1>5. Wrapped(head) = Around(Wrapped(tail + 1) + (count - 1))
  BY <1>1, <1>2, <1>3 DEF Around
<1>6. after = Numbered(Numbered(first + 1) + (count - 1))
  BY <1>1, <1>2, <1>3 DEF Numbered
<1>7. QED
  BY <1>3, <1>4, <1>5, <1>6 DEF RxHolds

\* Equal ends say that nothing is stored.
LEMMA HoldsEqual ==
  ASSUME NEW samples, NEW head \in 0 .. Length, NEW tail \in 0 .. Length,
         NEW first, NEW after, NEW count, NEW written,
         RxHolds(samples, head, tail, first, after, count, written)
  PROVE  /\ Wrapped(head) = Wrapped(tail) <=> count = 0
         /\ head = tail => count = 0
<1>1. count \in 0 .. Length - 1 /\ Wrapped(head) = Around(Wrapped(tail) + count)
  BY DEF RxHolds
<1>2. QED
  BY <1>1, RxConstants DEF Wrapped, Around

-----------------------------------------------------------------------------
(* What getData() counts is there when get() begins. *)

LEMMA BlockThere ==
  ASSUME NEW tail \in 0 .. Length - 1, NEW count \in Nat, AtBlock(tail), count >= Block \/ count >= Length - tail
  PROVE  BlockAt(tail, Block, count)
<1>1. PICK j \in Nat : tail = j * Block
  BY DEF AtBlock
<1>2. tail + Block = (j + 1) * Block /\ tail + Block <= Length
  <2>1. j * Block < Length
    BY <1>1, RxConstants
  <2>2. j * Block + Block = (j + 1) * Block /\ j * Block + Block <= Length
    BY <2>1, BlockFits, Zenon
  <2>3. QED
    BY <1>1, <2>2, Zenon
<1>3. Block <= count
  BY <1>2, RxConstants
<1>4. AtBlock(tail + Block)
  BY <1>2 DEF AtBlock
<1>5. QED
  BY <1>2, <1>3, <1>4 DEF BlockAt

LEMMA AheadIsBlock ==
  ASSUME NEW samples, NEW head \in 0 .. Length, NEW tail \in 0 .. Length - 1,
         NEW first, NEW after, NEW count, NEW written, count >= 1, AtBlock(tail),
         RxHolds(samples, head, tail, first, after, count, written),
         R!Minus(head, tail) >= Block
  PROVE  BlockAt(tail, Block, count)
<1>1. count \in 0 .. Length - 1 /\ Wrapped(head) = Around(Wrapped(tail) + count)
  BY DEF RxHolds
<1>2. Wrapped(tail) = tail /\ Length \in Nat \ {0} /\ Block \in Nat
  BY RxConstants DEF Wrapped
<1>3. head # tail
  BY <1>1, <1>2 DEF Around, Wrapped
<1>4. CASE head < tail
  <2>1. count >= Length - tail
    BY <1>1, <1>2, <1>4 DEF Around, Wrapped
  <2>2. QED
    BY <1>1, <2>1, BlockThere
<1>5. CASE head > tail
  <2>1. head - tail \in Nat /\ head - tail <= count
    BY <1>1, <1>2, <1>5 DEF Around, Wrapped
  <2>2. count >= Block
    BY <1>1, <1>2, <2>1, MinusAtMost DEF R!Minus
  <2>3. QED
    BY <1>1, <2>2, BlockThere
<1>6. QED
  BY <1>3, <1>4, <1>5

LEMMA AroundIsBlock ==
  ASSUME NEW samples, NEW head \in 0 .. Length, NEW tail \in 0 .. Length - 1,
         NEW first, NEW after, NEW count, NEW written, head < tail, AtBlock(tail),
         RxHolds(samples, head, tail, first, after, count, written),
         R!Minus(Length + head, tail) >= Block
  PROVE  BlockAt(tail, Block, count)
<1>1. count \in 0 .. Length - 1 /\ Wrapped(head) = Around(Wrapped(tail) + count)
  BY DEF RxHolds
<1>2. Wrapped(tail) = tail /\ Length \in Nat \ {0} /\ Block \in Nat
  BY RxConstants DEF Wrapped
<1>3. count >= Length - tail
  BY <1>1, <1>2 DEF Around, Wrapped
<1>4. QED
  BY <1>1, <1>3, BlockThere

\* One sample of the block is got.
LEMMA BlockStep ==
  ASSUME NEW tail \in 0 .. Length - 1, NEW n \in Nat, NEW count \in Nat, n >= 1, BlockAt(tail, n, count)
  PROVE  BlockAt(tail + 1, n - 1, count - 1)
<1>1. tail + 1 + (n - 1) = tail + n
  OBVIOUS
<1>2. QED
  BY <1>1 DEF BlockAt

\* The tail wraps at the end of a block only.
LEMMA BlockWrap ==
  ASSUME NEW tail \in 0 .. Length, NEW n \in Nat, NEW count, BlockAt(tail, n, count)
  PROVE  /\ n = 0 => AtBlock(IF tail >= Length THEN 0 ELSE tail)
         /\ n > 0 => BlockAt(IF tail >= Length THEN 0 ELSE tail, n, count)
<1>1. n <= count /\ AtBlock(tail + n) /\ tail + n <= Length
  BY DEF BlockAt
<1>2. AtBlock(0)
  <2>1. 0 = 0 * Block
    BY RxConstants
  <2>2. QED
    BY <2>1 DEF AtBlock
<1>3. n = 0 => AtBlock(tail)
  BY <1>1
<1>4. n > 0 => tail < Length
  BY <1>1, RxConstants
<1>5. QED
  BY <1>2, <1>3, <1>4, RxConstants

-----------------------------------------------------------------------------
(* The steps of put(). *)

LEMMA RxFacts ==
  ASSUME RxInv
  PROVE  /\ r_samples \in [0 .. Length - 1 -> 0 .. Numbers - 1 \cup {-1}]
         /\ r_head \in 0 .. Length /\ r_tail \in 0 .. Length
         /\ put = "wrap" \/ r_head \in 0 .. Length - 1
         /\ get = "wrap" \/ r_tail \in 0 .. Length - 1
         /\ left \in 0 .. Block /\ sample \in 0 .. Numbers - 1 \cup {-1}
         /\ next \in 0 .. Numbers - 1 /\ due \in 0 .. Numbers - 1 /\ stored \in 0 .. Length
         /\ Length \in Nat \ {0} /\ Block \in Nat /\ Numbers \in Nat
         /\ -1 \in 0 .. Numbers - 1 \cup {-1}
<1>1. /\ Length \in Nat \ {0} /\ Block \in Nat /\ Numbers \in Nat
      /\ -1 \in 0 .. Numbers - 1 \cup {-1}
  BY RxConstants
<1>2. QED
  BY <1>1, Zenon DEF RxInv, R!TypeOK, R!Index, R!None

\* Once the order is lost nothing is said of the slots and the numbers.
LEMMA LostFacts ==
  ASSUME R!Lost
  PROVE  /\ order' = "lost" /\ next' \in 0 .. Numbers - 1 /\ due' \in 0 .. Numbers - 1
         /\ stored' \in 0 .. Length
         /\ r_samples' \in [R!Index -> 0 .. Numbers - 1 \cup {R!None}]
<1>1. 0 \in 0 .. Numbers - 1 /\ 0 \in 0 .. Length
  BY RxConstants
<1>2. QED
  BY <1>1, Zenon DEF R!Lost

LEMMA RxPutRefused == ASSUME RxInv, R!PutRefused PROVE RxInv'
<1>1. /\ r_overflow' = TRUE
      /\ UNCHANGED <<r_samples, r_head, r_tail, r_full, put, get, left, sample, next, due, stored, order>>
  BY Zenon DEF R!PutRefused
<1>2. R!TypeOK'
  BY <1>1, Zenon DEF RxInv, R!TypeOK
<1>3. QED
  BY <1>1, <1>2, Zenon DEF RxInv, RxApart, Written, Asking, Getting

LEMMA RxPutStore == ASSUME RxInv, R!PutStore PROVE RxInv'
<1>1. /\ put = "test" /\ ~r_full /\ put' = "advance"
      /\ r_samples' = [r_samples EXCEPT ![r_head] = next]
      /\ UNCHANGED <<r_head, r_tail, r_full, r_overflow, get, left, sample, next, due, stored, order>>
  BY Zenon DEF R!PutStore
<1>2. /\ r_samples \in [0 .. Length - 1 -> 0 .. Numbers - 1 \cup {-1}]
      /\ r_head \in 0 .. Length - 1 /\ r_tail \in 0 .. Length
      /\ next \in 0 .. Numbers - 1 /\ due \in 0 .. Numbers - 1
  BY <1>1, RxFacts, Zenon
<1>3. r_samples' \in [R!Index -> 0 .. Numbers - 1 \cup {R!None}]
  BY <1>1, <1>2, Zenon DEF R!Index, R!None
<1>4. R!TypeOK'
  BY <1>1, <1>2, <1>3, Zenon DEF RxInv, R!TypeOK, R!Index
<1>5. order' # "lost" => RxHolds(r_samples, r_head, r_tail, due, next, stored, Written)'
  <2>1. Written = stored /\ Written' = stored + 1
    BY <1>1, Zenon DEF Written
  <2>2. SUFFICES ASSUME RxHolds(r_samples, r_head, r_tail, due, next, stored, stored)
                 PROVE  RxHolds([r_samples EXCEPT ![r_head] = next], r_head, r_tail, due, next, stored, stored + 1)
    BY <1>1, <2>1, Zenon DEF RxInv
  <2>3. DOMAIN r_samples = 0 .. Length - 1
    BY <1>2, Zenon
  <2>4. QED
    BY <1>2, <2>2, <2>3, HoldsStore
<1>6. QED
  BY <1>1, <1>4, <1>5, Zenon DEF RxInv, RxApart, Asking, Getting

LEMMA RxPutAdvance == ASSUME RxInv, R!PutAdvance PROVE RxInv'
<1>1. /\ put = "advance" /\ put' = "wrap" /\ r_head' = r_head + 1
      /\ UNCHANGED <<r_tail, r_full, r_overflow, get, left, sample>>
      /\ \/ order = "lost" /\ UNCHANGED <<r_samples, next, due, stored, order>>
         \/ order # "lost" /\ stored + 1 = Length /\ R!Lost
         \/ /\ order # "lost" /\ stored + 1 # Length
            /\ next' = (next + 1) % Numbers /\ stored' = stored + 1
            /\ UNCHANGED <<r_samples, due, order>>
  BY Zenon DEF R!PutAdvance
<1>2. /\ r_head \in 0 .. Length - 1 /\ r_tail \in 0 .. Length /\ stored \in 0 .. Length
      /\ next \in 0 .. Numbers - 1 /\ due \in 0 .. Numbers - 1 /\ left \in 0 .. Block
      /\ Length \in Nat \ {0} /\ Block \in Nat
  BY <1>1, RxFacts, Zenon
<1>3. Written = stored + 1 /\ Written' = stored'
  BY <1>1, Zenon DEF Written
<1>4. r_head' \in 0 .. Length
  BY <1>1, <1>2
<1>5. (next + 1) % Numbers = Numbered(next + 1) /\ Numbered(next + 1) \in 0 .. Numbers - 1
  BY <1>2, NumberAfter, Zenon
<1>6. ASSUME order # "lost", stored + 1 # Length
      PROVE  /\ stored + 1 \in 0 .. Length /\ stored + 1 >= 1
             /\ RxHolds(r_samples, r_head + 1, r_tail, due, Numbered(next + 1), stored + 1, stored + 1)
  <2>1. RxHolds(r_samples, r_head, r_tail, due, next, stored, stored + 1)
    BY <1>3, <1>6, Zenon DEF RxInv
  <2>2. stored \in 0 .. Length - 1
    BY <2>1, Zenon DEF RxHolds
  <2>3. stored + 1 \in 0 .. Length /\ stored + 1 >= 1
    BY <1>2, <2>2
  <2>4. stored + 1 # Length
    BY <1>6
  <2>5. QED
    BY <1>2, <2>1, <2>3, <2>4, HoldsAdvance
<1>7. CASE order = "lost" /\ UNCHANGED <<r_samples, next, due, stored, order>>
  <2>1. R!TypeOK'
    BY <1>1, <1>4, <1>7, Zenon DEF RxInv, R!TypeOK
  <2>2. QED
    BY <1>1, <1>7, <2>1, Zenon DEF RxInv, Asking
<1>8. CASE order # "lost" /\ stored + 1 = Length /\ R!Lost
  <2>1. R!TypeOK'
    BY <1>1, <1>4, <1>8, LostFacts, Zenon DEF RxInv, R!TypeOK
  <2>2. QED
    BY <1>1, <1>8, <2>1, LostFacts, Zenon DEF RxInv, Asking
<1>9. CASE /\ order # "lost" /\ stored + 1 # Length
           /\ next' = (next + 1) % Numbers /\ stored' = stored + 1
           /\ UNCHANGED <<r_samples, due, order>>
  <2>1. R!TypeOK'
    BY <1>1, <1>4, <1>5, <1>6, <1>9, Zenon DEF RxInv, R!TypeOK
  <2>2. RxHolds(r_samples, r_head, r_tail, due, next, stored, Written)'
    BY <1>1, <1>3, <1>5, <1>6, <1>9, Zenon
  <2>3. order = "kept" => RxApart'
    <3>1. ASSUME order = "kept" PROVE RxApart'
      <4>1. RxApart
        BY <3>1, Zenon DEF RxInv
      <4>2. get = "data around" => r_head + 1 < r_tail
        <5>1. ASSUME r_head < r_tail, r_tail \in 0 .. Length - 1 PROVE r_head + 1 < r_tail
          <6>1. RxHolds(r_samples, r_head, r_tail, due, next, stored, stored + 1)
            BY <1>3, <1>9, Zenon DEF RxInv
          <6>2. stored \in 0 .. Length - 1 /\ Wrapped(r_head) = Around(Wrapped(r_tail) + stored)
            BY <6>1, Zenon DEF RxHolds
          <6>3. stored + 1 # Length
            BY <1>9
          <6>4. QED
            BY <1>2, <5>1, <6>2, <6>3 DEF Wrapped, Around
        <5>2. get = "data around" => r_head < r_tail /\ r_tail \in 0 .. Length - 1
          BY <4>1, RxFacts, Zenon DEF RxApart
        <5>3. QED
          BY <5>1, <5>2, Zenon
      <4>3. \A n : n \in 0 .. Block /\ BlockAt(r_tail, n, stored) => BlockAt(r_tail, n, stored + 1)
        BY <1>2 DEF BlockAt
      <4>4. Getting => BlockAt(r_tail, left, stored + 1)
        BY <1>2, <4>1, <4>3, Zenon DEF RxApart
      <4>5. get = "wrap" => left - 1 \in 0 .. Block
        <5>1. left >= 1 => left - 1 \in 0 .. Block
          BY <1>2
        <5>2. get = "wrap" => left >= 1
          BY Zenon DEF RxInv, Asking
        <5>3. QED
          BY <5>1, <5>2, Zenon
      <4>6. get = "wrap" => BlockAt(r_tail, left - 1, stored + 1)
        BY <4>1, <4>3, <4>5, Zenon DEF RxApart
      <4>7. QED
        BY <1>1, <1>6, <1>9, <4>1, <4>2, <4>4, <4>6, Zenon DEF RxApart, Asking, Getting
    <3>2. QED
      BY <3>1, Zenon
  <2>4. QED
    BY <1>1, <1>6, <1>9, <2>1, <2>2, <2>3, Zenon DEF RxInv, Asking
<1>10. QED
  BY <1>1, <1>7, <1>8, <1>9, Zenon

LEMMA RxPutWrap == ASSUME RxInv, R!PutWrap PROVE RxInv'
<1>1. /\ put = "wrap" /\ put' = "compare" /\ r_head' = (IF r_head >= Length THEN 0 ELSE r_head)
      /\ UNCHANGED <<r_samples, r_tail, r_full, r_overflow, get, left, sample, next, due, stored, order>>
  BY Zenon DEF R!PutWrap
<1>2. /\ r_head \in 0 .. Length /\ r_tail \in 0 .. Length /\ Length \in Nat \ {0}
  BY RxFacts, Zenon
<1>3. /\ (IF r_head >= Length THEN 0 ELSE r_head) \in 0 .. Length - 1
      /\ (IF r_head >= Length THEN 0 ELSE r_head) \in 0 .. Length
      /\ (IF r_head >= Length THEN 0 ELSE r_head) <= r_head
      /\ r_head < r_tail => (IF r_head >= Length THEN 0 ELSE r_head) < r_tail
  BY <1>2
<1>4. Written' = Written
  BY <1>1, Zenon DEF Written
<1>5. R!TypeOK'
  BY <1>1, <1>3, Zenon DEF RxInv, R!TypeOK, R!Index
<1>6. order' # "lost" => RxHolds(r_samples, r_head, r_tail, due, next, stored, Written)'
  <2>1. SUFFICES ASSUME RxHolds(r_samples, r_head, r_tail, due, next, stored, Written)
                 PROVE  RxHolds(r_samples, IF r_head >= Length THEN 0 ELSE r_head, r_tail, due, next, stored, Written)
    BY <1>1, <1>4, Zenon DEF RxInv
  <2>2. QED
    BY <1>2, <2>1, HoldsWrap
<1>7. order' = "kept" => RxApart'
  BY <1>1, <1>3, Zenon DEF RxInv, RxApart, Asking, Getting
<1>8. QED
  BY <1>1, <1>5, <1>6, <1>7, Zenon DEF RxInv, Asking

LEMMA RxPutCompare == ASSUME RxInv, R!PutCompare PROVE RxInv'
<1>1. /\ put = "compare" /\ put' = (IF r_head = r_tail THEN "full" ELSE "test")
      /\ UNCHANGED <<r_samples, r_head, r_tail, r_full, r_overflow,
                     get, left, sample, next, due, stored, order>>
  BY Zenon DEF R!PutCompare, R!ring
<1>2. r_head \in 0 .. Length /\ r_tail \in 0 .. Length
  BY RxFacts, Zenon
<1>3. put' \in {"full", "test"}
  BY <1>1, Zenon
<1>4. Written' = Written
  BY <1>1, <1>3, Zenon DEF Written
<1>5. R!TypeOK'
  <2>1. put = "wrap" \/ r_head \in R!Index
    BY Zenon DEF RxInv, R!TypeOK
  <2>2. r_head \in R!Index
    BY <1>1, <2>1, Zenon
  <2>3. QED
    BY <1>1, <1>3, <2>2, Zenon DEF RxInv, R!TypeOK
<1>6. order = "kept" => r_head # r_tail
  <2>1. ASSUME order = "kept", r_head = r_tail PROVE FALSE
    <3>1. RxHolds(r_samples, r_head, r_tail, due, next, stored, Written) /\ stored >= 1
      BY <1>1, <2>1, Zenon DEF RxInv, RxApart
    <3>2. stored = 0
      BY <1>2, <2>1, <3>1, HoldsEqual
    <3>3. QED
      BY <3>1, <3>2
  <2>2. QED
    BY <2>1, Zenon
<1>7. order' = "kept" => RxApart'
  BY <1>1, <1>6, Zenon DEF RxInv, RxApart, Asking, Getting
<1>8. QED
  BY <1>1, <1>4, <1>5, <1>7, Zenon DEF RxInv, Asking

LEMMA RxPutFull == ASSUME RxInv, R!PutFull PROVE RxInv'
<1>1. /\ put = "full" /\ r_full' = TRUE /\ put' = "test"
      /\ UNCHANGED <<r_samples, r_head, r_tail, r_overflow, get, left, sample, next, due, stored, order>>
  BY Zenon DEF R!PutFull
<1>2. order # "kept" /\ Written' = Written
  BY <1>1, Zenon DEF RxInv, RxApart, Written
<1>3. R!TypeOK'
  BY <1>1, Zenon DEF RxInv, R!TypeOK
<1>4. QED
  BY <1>1, <1>2, <1>3, Zenon DEF RxInv, Asking

-----------------------------------------------------------------------------
(* The steps of getData() and get(). *)

LEMMA RxDataEqual == ASSUME RxInv, R!DataEqual PROVE RxInv'
<1>1. /\ get = "data" /\ get' = (IF r_tail = r_head THEN "data full" ELSE "data less")
      /\ UNCHANGED <<r_samples, r_head, r_tail, r_full, r_overflow, put, left, sample, next, due, stored, order>>
  BY Zenon DEF R!DataEqual, R!ClockOnly, R!NumbersKept
<1>2. get' \in {"data full", "data less"} /\ Written' = Written
  BY <1>1, Zenon DEF Written
<1>3. r_tail \in R!Index
  BY <1>1, Zenon DEF RxInv, R!TypeOK
<1>4. R!TypeOK'
  BY <1>1, <1>2, <1>3, Zenon DEF RxInv, R!TypeOK
<1>5. ASSUME order = "kept", get' = "data less" PROVE stored >= 1
  <2>1. RxHolds(r_samples, r_head, r_tail, due, next, stored, Written)
    BY <1>5, Zenon DEF RxInv
  <2>2. r_head # r_tail
    BY <1>1, <1>5, Zenon
  <2>3. /\ r_head \in 0 .. Length /\ r_tail \in 0 .. Length - 1 /\ stored \in 0 .. Length
    BY <1>1, RxFacts, Zenon
  <2>4. CASE Wrapped(r_head) = r_head
    <3>1. Wrapped(r_tail) = r_tail /\ stored \in Nat
      BY <2>3, RxConstants DEF Wrapped
    <3>2. r_tail \in 0 .. Length
      BY <2>3, RxConstants
    <3>3. stored # 0
      BY <2>1, <2>2, <2>3, <2>4, <3>1, <3>2, HoldsEqual
    <3>4. QED
      BY <3>1, <3>3
  <2>5. CASE Wrapped(r_head) # r_head
    <3>1. r_head = Length
      BY <2>5 DEF Wrapped
    <3>2. put = "wrap"
      <4>1. Length \notin 0 .. Length - 1
        BY RxConstants
      <4>2. QED
        BY <3>1, <4>1, RxFacts, Zenon
    <3>3. QED
      BY <1>5, <3>2, Zenon DEF RxInv, RxApart
  <2>6. QED
    BY <2>4, <2>5
<1>6. order' = "kept" => RxApart'
  BY <1>1, <1>2, <1>5, Zenon DEF RxInv, RxApart, Asking, Getting
<1>7. QED
  BY <1>1, <1>2, <1>4, <1>6, Zenon DEF RxInv, Asking

\* getData() answers with no less than a block only when a block is there.
LEMMA RxAnswered ==
  ASSUME RxInv, NEW n, Asking, R!Answered(n),
         order = "kept" /\ n >= Block => BlockAt(r_tail, Block, stored),
         UNCHANGED <<r_samples, r_head, r_tail, r_full, r_overflow, put, sample, next, due, stored, order>>
  PROVE  RxInv'
<1>1. \/ n >= Block /\ get' = "test" /\ left' = Block
      \/ get' = "data" /\ left' = left
  BY Zenon DEF R!Answered
<1>2. Block \in 0 .. Block /\ Block >= 1
  BY RxConstants
<1>3. Written' = Written
  BY Zenon DEF Written
<1>4. r_tail \in R!Index
  BY Zenon DEF RxInv, R!TypeOK, Asking
<1>5. R!TypeOK'
  BY <1>1, <1>2, <1>4, Zenon DEF RxInv, R!TypeOK
<1>6. order' = "kept" => RxApart'
  BY <1>1, Zenon DEF RxInv, RxApart, Asking, Getting
<1>7. QED
  BY <1>1, <1>2, <1>3, <1>5, <1>6, Zenon DEF RxInv, Asking

LEMMA RxDataFull == ASSUME RxInv, R!DataFull PROVE RxInv'
<1>1. /\ get = "data full" /\ R!Answered(IF r_full THEN Length ELSE 0) /\ Asking
      /\ UNCHANGED <<r_samples, r_head, r_tail, r_full, r_overflow, put, sample, next, due, stored, order>>
  BY Zenon DEF R!DataFull, R!ClockOnly, R!NumbersKept, Asking
<1>2. order = "kept" => ~r_full
  BY Zenon DEF RxInv, RxApart
<1>3. ~(0 >= Block)
  BY RxConstants
<1>4. QED
  BY <1>1, <1>2, <1>3, RxAnswered, Zenon

LEMMA RxDataLess == ASSUME RxInv, R!DataLess PROVE RxInv'
<1>1. /\ get = "data less" /\ get' = (IF r_tail < r_head THEN "data ahead" ELSE "data around")
      /\ UNCHANGED <<r_samples, r_head, r_tail, r_full, r_overflow, put, left, sample, next, due, stored, order>>
  BY Zenon DEF R!DataLess, R!ClockOnly, R!NumbersKept
<1>2. get' \in {"data ahead", "data around"} /\ Written' = Written
  BY <1>1, Zenon DEF Written
<1>3. r_tail \in R!Index
  BY <1>1, Zenon DEF RxInv, R!TypeOK
<1>4. R!TypeOK'
  BY <1>1, <1>2, <1>3, Zenon DEF RxInv, R!TypeOK
<1>5. ASSUME order = "kept", get' = "data around" PROVE r_head < r_tail
  <2>1. /\ RxHolds(r_samples, r_head, r_tail, due, next, stored, Written) /\ stored >= 1
    BY <1>1, <1>5, Zenon DEF RxInv, RxApart
  <2>2. ~(r_tail < r_head)
    BY <1>1, <1>5, Zenon
  <2>3. r_head \in 0 .. Length /\ r_tail \in 0 .. Length
    BY RxFacts, Zenon
  <2>4. r_head # r_tail
    <3>1. r_head = r_tail => stored = 0
      BY <2>1, <2>3, HoldsEqual
    <3>2. QED
      BY <2>1, <3>1
  <2>5. QED
    BY <2>2, <2>3, <2>4
<1>6. order' = "kept" => RxApart'
  BY <1>1, <1>2, <1>5, Zenon DEF RxInv, RxApart, Asking, Getting
<1>7. QED
  BY <1>1, <1>2, <1>4, <1>6, Zenon DEF RxInv, Asking

LEMMA RxDataAhead == ASSUME RxInv, R!DataAhead PROVE RxInv'
<1>1. /\ get = "data ahead" /\ R!Answered(R!Minus(r_head, r_tail)) /\ Asking
      /\ UNCHANGED <<r_samples, r_head, r_tail, r_full, r_overflow, put, sample, next, due, stored, order>>
  BY Zenon DEF R!DataAhead, R!ClockOnly, R!NumbersKept, Asking
<1>2. r_head \in 0 .. Length /\ r_tail \in 0 .. Length - 1
  BY <1>1, RxFacts, Zenon
<1>3. ASSUME order = "kept", R!Minus(r_head, r_tail) >= Block PROVE BlockAt(r_tail, Block, stored)
  <2>1. /\ RxHolds(r_samples, r_head, r_tail, due, next, stored, Written) /\ stored >= 1
        /\ AtBlock(r_tail)
    BY <1>1, <1>3, Zenon DEF RxInv, RxApart
  <2>2. R!Minus(r_head, r_tail) >= Block
    BY <1>3
  <2>3. QED
    BY <1>2, <2>1, <2>2, AheadIsBlock
<1>4. QED
  BY <1>1, <1>3, RxAnswered, Zenon

LEMMA RxDataAround == ASSUME RxInv, R!DataAround PROVE RxInv'
<1>1. /\ get = "data around" /\ R!Answered(R!Minus(Length + r_head, r_tail)) /\ Asking
      /\ UNCHANGED <<r_samples, r_head, r_tail, r_full, r_overflow, put, sample, next, due, stored, order>>
  BY Zenon DEF R!DataAround, R!ClockOnly, R!NumbersKept, Asking
<1>2. r_head \in 0 .. Length /\ r_tail \in 0 .. Length - 1
  BY <1>1, RxFacts, Zenon
<1>3. ASSUME order = "kept", R!Minus(Length + r_head, r_tail) >= Block PROVE BlockAt(r_tail, Block, stored)
  <2>1. /\ RxHolds(r_samples, r_head, r_tail, due, next, stored, Written) /\ r_head < r_tail
        /\ AtBlock(r_tail)
    BY <1>1, <1>3, Zenon DEF RxInv, RxApart
  <2>2. R!Minus(Length + r_head, r_tail) >= Block
    BY <1>3
  <2>3. QED
    BY <1>2, <2>1, <2>2, AroundIsBlock
<1>4. QED
  BY <1>1, <1>3, RxAnswered, Zenon

LEMMA LeftIsLess ==
  ASSUME NEW n \in 0 .. Block, n >= 1
  PROVE  n - 1 \in 0 .. Block /\ n - 1 \in Nat /\ (n # 1 => n - 1 >= 1)
  BY RxConstants

LEMMA RxGetRefused ==
  ASSUME RxInv, R!GetRefused
  PROVE  RxInv' /\ (order = "kept" => order' # "lost")
<1>1. /\ get = "test" /\ r_head = r_tail /\ ~r_full
      /\ sample' = -1 /\ left' = left - 1 /\ get' = (IF left = 1 THEN "data" ELSE "test")
      /\ UNCHANGED <<r_head, r_tail, r_full, r_overflow, put>>
      /\ IF order # "lost" /\ -1 # due THEN R!Lost
         ELSE UNCHANGED <<r_samples, next, due, stored, order>>
  BY Zenon DEF R!GetRefused, R!ClockOnly, R!Expect, R!NumbersKept, R!None
<1>2. /\ r_head \in 0 .. Length /\ r_tail \in 0 .. Length - 1 /\ left \in 0 .. Block
      /\ due \in 0 .. Numbers - 1 /\ left >= 1 /\ stored \in 0 .. Length /\ Length \in Nat \ {0}
      /\ -1 \in 0 .. Numbers - 1 \cup {-1}
  BY <1>1, RxFacts, Zenon DEF RxInv, Asking
<1>3. order # "kept"
  <2>1. ASSUME order = "kept" PROVE FALSE
    <3>1. RxHolds(r_samples, r_head, r_tail, due, next, stored, Written) /\ BlockAt(r_tail, left, stored)
      BY <1>1, <2>1, Zenon DEF RxInv, RxApart, Getting
    <3>2. left <= stored
      BY <3>1 DEF BlockAt
    <3>3. r_tail \in 0 .. Length /\ r_head = r_tail
      BY <1>1, <1>2
    <3>4. stored = 0
      BY <1>2, <3>1, <3>3, HoldsEqual
    <3>5. QED
      BY <1>2, <3>2, <3>4, RxConstants
  <2>2. QED
    BY <2>1, Zenon
<1>4. order' = "lost" /\ r_samples' \in [R!Index -> 0 .. Numbers - 1 \cup {R!None}]
      /\ next' \in 0 .. Numbers - 1 /\ due' \in 0 .. Numbers - 1 /\ stored' \in 0 .. Length
  <2>1. -1 # due
    BY <1>2
  <2>2. order = "lost" \/ R!Lost
    BY <1>1, <2>1, Zenon
  <2>3. CASE R!Lost
    BY <2>3, LostFacts, Zenon
  <2>4. CASE order = "lost"
    BY <1>1, <2>4, Zenon DEF RxInv, R!TypeOK
  <2>5. QED
    BY <2>2, <2>3, <2>4, Zenon
<1>5. left - 1 \in 0 .. Block /\ (left # 1 => left - 1 >= 1)
  BY <1>2, LeftIsLess
<1>6. get' \in {"data", "test"} /\ r_tail \in R!Index
  BY <1>1, <1>2, Zenon DEF R!Index
<1>7. R!TypeOK'
  BY <1>1, <1>2, <1>4, <1>5, <1>6, Zenon DEF RxInv, R!TypeOK, R!None
<1>8. QED
  BY <1>1, <1>3, <1>4, <1>5, <1>6, <1>7, Zenon DEF RxInv, Asking

\* What get() finds at the tail is the next sample if one is written there.
LEMMA RxGetRead ==
  ASSUME RxInv, R!GetRead
  PROVE  RxInv' /\ (order = "kept" => order' # "lost")
<1>1. /\ get = "test" /\ ~(r_head = r_tail /\ ~r_full)
      /\ sample' = r_samples[r_tail] /\ get' = "clear"
      /\ UNCHANGED <<r_head, r_tail, r_full, r_overflow, put, left>>
      /\ IF order # "lost" /\ r_samples[r_tail] # due THEN R!Lost
         ELSE UNCHANGED <<r_samples, next, due, stored, order>>
  BY Zenon DEF R!GetRead, R!ClockOnly, R!Expect, R!NumbersKept, R!SlotRead
<1>2. /\ r_head \in 0 .. Length /\ r_tail \in 0 .. Length - 1
      /\ r_samples \in [0 .. Length - 1 -> 0 .. Numbers - 1 \cup {-1}]
      /\ due \in 0 .. Numbers - 1 /\ left >= 1 /\ stored \in 0 .. Length /\ Length \in Nat \ {0}
      /\ left \in 0 .. Block
  BY <1>1, RxFacts, Zenon DEF RxInv, Asking
<1>3. /\ sample' \in 0 .. Numbers - 1 \cup {R!None} /\ r_tail \in R!Index
  BY <1>1, <1>2, Zenon DEF R!Index, R!None
<1>4. Written \in {stored, stored + 1} /\ (put # "advance" => Written = stored) /\ stored \in Nat
  <2>1. stored \in Nat
    BY <1>2
  <2>2. QED
    BY <2>1, Zenon DEF Written
<1>5. order # "lost" => (r_samples[r_tail] = due <=> Written > 0)
  <2>1. ASSUME RxHolds(r_samples, r_head, r_tail, due, next, stored, Written)
        PROVE  r_samples[r_tail] = due <=> Written > 0
    <3>1. stored \in 0 .. Length - 1 /\ Slots(r_samples, Wrapped(r_tail), Written, due)
      BY <2>1, Zenon DEF RxHolds
    <3>2. Written \in {stored, stored + 1}
      BY <1>4, Zenon
    <3>3. PICK w \in 0 .. Length : w = Written
      BY <1>2, <3>1, <3>2
    <3>4. Wrapped(r_tail) = r_tail
      BY <1>2 DEF Wrapped
    <3>5. Slots(r_samples, r_tail, w, due)
      BY <3>1, <3>3, <3>4, Zenon
    <3>6. r_samples[r_tail] = due <=> w > 0
      BY <1>2, <3>5, SlotOfFirst
    <3>7. QED
      BY <3>3, <3>6
  <2>2. QED
    BY <2>1, Zenon DEF RxInv
<1>6. ASSUME order # "lost", Written > 0 PROVE stored >= 1
  <2>1. CASE put = "advance"
    <3>1. r_head # r_tail /\ r_head \in 0 .. Length - 1
      BY <1>1, <2>1, RxFacts, Zenon DEF RxInv
    <3>2. RxHolds(r_samples, r_head, r_tail, due, next, stored, Written)
      BY <1>6, Zenon DEF RxInv
    <3>3. Wrapped(r_head) # Wrapped(r_tail)
      BY <1>2, <3>1 DEF Wrapped
    <3>4. r_tail \in 0 .. Length
      BY <1>2
    <3>5. stored # 0
      BY <1>2, <3>2, <3>3, <3>4, HoldsEqual
    <3>6. QED
      BY <1>4, <3>5
  <2>2. CASE put # "advance"
    <3>1. Written = stored
      BY <1>4, <2>2, Zenon
    <3>2. Written > 0
      BY <1>6
    <3>3. QED
      BY <1>4, <3>1, <3>2
  <2>3. QED
    BY <2>1, <2>2, Zenon
<1>7. order = "kept" => Written > 0
  <2>1. ASSUME BlockAt(r_tail, left, stored) PROVE Written > 0
    <3>1. left <= stored
      BY <2>1 DEF BlockAt
    <3>2. QED
      BY <1>2, <1>4, <3>1, RxConstants
  <2>2. QED
    BY <1>1, <2>1, Zenon DEF RxInv, RxApart, Getting
<1>8. Written' = Written \/ order' = "lost"
  BY <1>1, LostFacts, Zenon DEF Written
<1>9. CASE R!Lost /\ order # "lost" /\ r_samples[r_tail] # due
  <2>1. R!TypeOK'
    BY <1>1, <1>3, <1>9, LostFacts, Zenon DEF RxInv, R!TypeOK
  <2>2. order # "kept"
    BY <1>5, <1>7, <1>9, Zenon
  <2>3. QED
    BY <1>1, <1>2, <1>9, <2>1, <2>2, LostFacts, Zenon DEF RxInv
<1>10. CASE UNCHANGED <<r_samples, next, due, stored, order>> /\ (order # "lost" => r_samples[r_tail] = due)
  <2>1. R!TypeOK'
    BY <1>1, <1>3, <1>10, Zenon DEF RxInv, R!TypeOK
  <2>2. order # "lost" => stored >= 1
    BY <1>5, <1>6, <1>10, Zenon
  <2>3. Written' = Written
    BY <1>1, <1>10, Zenon DEF Written
  <2>4. order' = "kept" => RxApart'
    BY <1>1, <1>10, Zenon DEF RxInv, RxApart, Asking, Getting
  <2>5. QED
    BY <1>1, <1>2, <1>10, <2>1, <2>2, <2>3, <2>4, Zenon DEF RxInv
<1>11. QED
  BY <1>1, <1>9, <1>10, Zenon

LEMMA RxGetClear == ASSUME RxInv, R!GetClear PROVE RxInv'
<1>1. /\ get = "clear" /\ r_full' = FALSE /\ get' = "advance"
      /\ UNCHANGED <<r_samples, r_head, r_tail, r_overflow, put, left, sample, next, due, stored, order>>
  BY Zenon DEF R!GetClear, R!ClockOnly, R!NumbersKept
<1>2. R!TypeOK'
  BY <1>1, Zenon DEF RxInv, R!TypeOK
<1>3. Written' = Written
  BY <1>1, Zenon DEF Written
<1>4. QED
  BY <1>1, <1>2, <1>3, Zenon DEF RxInv, RxApart, Asking, Getting

LEMMA RxGetAdvance ==
  ASSUME RxInv, R!GetAdvance
  PROVE  RxInv' /\ (order = "kept" => order' # "lost")
<1>1. /\ get = "advance" /\ get' = "wrap" /\ r_tail' = r_tail + 1
      /\ UNCHANGED <<r_samples, r_head, r_full, r_overflow, put, left, sample, next>>
      /\ \/ order = "lost" /\ UNCHANGED <<due, stored, order>>
         \/ /\ order # "lost" /\ stored' = stored - 1 /\ due' = (due + 1) % Numbers
            /\ order' = (IF R!Crosses THEN "crossed" ELSE order)
  BY Zenon DEF R!GetAdvance, R!ClockOnly, R!NumbersKept
<1>2. /\ r_head \in 0 .. Length /\ r_tail \in 0 .. Length - 1 /\ left \in 0 .. Block /\ left >= 1
      /\ due \in 0 .. Numbers - 1 /\ stored \in 0 .. Length /\ Length \in Nat \ {0} /\ Block \in Nat
  BY <1>1, RxFacts, Zenon DEF RxInv, Asking
<1>3. r_tail' \in 0 .. Length
  BY <1>1, <1>2
<1>4. (due + 1) % Numbers = Numbered(due + 1) /\ Numbered(due + 1) \in 0 .. Numbers - 1
  BY <1>2, NumberAfter, Zenon
<1>5. CASE order = "lost" /\ UNCHANGED <<due, stored, order>>
  <2>1. R!TypeOK'
    BY <1>1, <1>3, <1>5, Zenon DEF RxInv, R!TypeOK
  <2>2. QED
    BY <1>1, <1>2, <1>5, <2>1, Zenon DEF RxInv
<1>6. CASE /\ order # "lost" /\ stored' = stored - 1 /\ due' = (due + 1) % Numbers
           /\ order' = (IF R!Crosses THEN "crossed" ELSE order)
  <2>1. stored >= 1 /\ stored \in Nat /\ stored - 1 \in 0 .. Length
    <3>1. stored >= 1
      BY <1>1, <1>6, Zenon DEF RxInv
    <3>2. QED
      BY <1>2, <3>1
  <2>2. order' # "lost" /\ order' \in {"crossed", order}
    BY <1>6, Zenon
  <2>3. R!TypeOK'
    BY <1>1, <1>3, <1>4, <1>6, <2>1, <2>2, Zenon DEF RxInv, R!TypeOK
  <2>4. Written \in {stored, stored + 1} /\ Written' = Written - 1
    <3>1. /\ Written = IF put = "advance" THEN stored + 1 ELSE stored
          /\ Written' = IF put = "advance" THEN stored - 1 + 1 ELSE stored - 1
      BY <1>1, <1>6, Zenon DEF Written
    <3>2. CASE put = "advance"
      <4>1. Written = stored + 1 /\ Written' = stored - 1 + 1
        BY <3>1, <3>2, Zenon
      <4>2. Written' = Written - 1
        BY <2>1, <4>1
      <4>3. QED
        BY <4>1, <4>2, Zenon
    <3>3. CASE put # "advance"
      BY <3>1, <3>3, Zenon
    <3>4. QED
      BY <3>2, <3>3, Zenon
  <2>5. RxHolds(r_samples, r_head, r_tail, due, next, stored, Written)'
    <3>1. RxHolds(r_samples, r_head, r_tail, due, next, stored, Written)
      BY <1>6, Zenon DEF RxInv
    <3>2. RxHolds(r_samples, r_head, r_tail + 1, Numbered(due + 1), next, stored - 1, Written - 1)
      BY <1>2, <2>1, <2>4, <3>1, HoldsTake
    <3>3. QED
      BY <1>1, <1>4, <1>6, <2>4, <3>2, Zenon
  <2>6. ASSUME order' = "kept" PROVE RxApart'
    <3>1. order = "kept" /\ ~R!Crosses
      <4>1. "crossed" # "kept"
        BY Zenon
      <4>2. QED
        BY <1>6, <2>6, <4>1, Zenon
    <3>2. RxApart /\ BlockAt(r_tail, left, stored)
      BY <1>1, <3>1, Zenon DEF RxInv, RxApart, Getting
    <3>3. stored # 1 => stored - 1 >= 1
      BY <2>1
    <3>4. put \in {"wrap", "compare"} => stored - 1 >= 1
      BY <3>1, <3>3, Zenon DEF R!Crosses
    <3>5. left \in Nat
      BY <1>2
    <3>6. BlockAt(r_tail + 1, left - 1, stored - 1)
      BY <1>2, <2>1, <3>2, <3>5, BlockStep
    <3>7. QED
      BY <1>1, <1>6, <3>2, <3>4, <3>6, Zenon DEF RxApart, Asking, Getting
  <2>7. QED
    BY <1>1, <1>2, <2>2, <2>3, <2>5, <2>6, Zenon DEF RxInv
<1>7. QED
  BY <1>1, <1>5, <1>6, Zenon

LEMMA RxGetWrap == ASSUME RxInv, R!GetWrap PROVE RxInv'
<1> DEFINE Tail0 == IF r_tail >= Length THEN 0 ELSE r_tail
<1>1. /\ get = "wrap" /\ r_tail' = Tail0 /\ left' = left - 1
      /\ get' = (IF left = 1 THEN "data" ELSE "test")
      /\ UNCHANGED <<r_samples, r_head, r_full, r_overflow, put, sample, next, due, stored, order>>
  BY Zenon DEF R!GetWrap, R!ClockOnly, R!NumbersKept, R!TailWrapped
<1>2. /\ r_head \in 0 .. Length /\ r_tail \in 0 .. Length /\ left \in 0 .. Block /\ left >= 1
      /\ Length \in Nat \ {0}
  BY <1>1, RxFacts, Zenon DEF RxInv, Asking
<1>3. Tail0 \in 0 .. Length /\ Tail0 \in 0 .. Length - 1
  BY <1>2
<1>4. left - 1 \in 0 .. Block /\ left - 1 \in Nat /\ (left # 1 => left - 1 >= 1)
  BY <1>2, LeftIsLess
<1>5. get' \in {"data", "test"} /\ Written' = Written
  BY <1>1, Zenon DEF Written
<1>6. R!TypeOK'
  BY <1>1, <1>3, <1>4, <1>5, Zenon DEF RxInv, R!TypeOK, R!Index
<1>7. order' # "lost" => RxHolds(r_samples, r_head, r_tail, due, next, stored, Written)'
  <2>1. SUFFICES ASSUME RxHolds(r_samples, r_head, r_tail, due, next, stored, Written)
                 PROVE  RxHolds(r_samples, r_head, Tail0, due, next, stored, Written)
    BY <1>1, <1>5, Zenon DEF RxInv
  <2>2. QED
    BY <1>2, <2>1, HoldsWrap
<1>8. ASSUME order' = "kept" PROVE RxApart'
  <2>1. RxApart /\ BlockAt(r_tail, left - 1, stored)
    BY <1>1, <1>8, Zenon DEF RxInv, RxApart
  <2>2. /\ left - 1 = 0 => AtBlock(Tail0)
        /\ left - 1 > 0 => BlockAt(Tail0, left - 1, stored)
    BY <1>2, <1>4, <2>1, BlockWrap
  <2>3. /\ left = 1 => AtBlock(Tail0)
        /\ left # 1 => BlockAt(Tail0, left - 1, stored)
    <3>1. (left = 1 <=> left - 1 = 0) /\ (left # 1 <=> left - 1 > 0)
      BY <1>2, RxConstants
    <3>2. QED
      BY <2>2, <3>1, Zenon
  <2> HIDE DEF Tail0
  <2>4. QED
    BY <1>1, <1>5, <2>1, <2>3, Zenon DEF RxApart, Asking, Getting
<1>9. QED
  BY <1>1, <1>4, <1>5, <1>6, <1>7, <1>8, Zenon DEF RxInv, Asking

\* The invariant holds at first, and of a step of the clock thread while the order is kept
\* it is kept or, by the last sample, crossed.
LEMMA RxInit == ASSUME R!Init PROVE RxInv
<1>1. /\ 0 \in 0 .. Length - 1 /\ 0 \in 0 .. Length /\ 0 \in 0 .. Block /\ 0 \in 0 .. Numbers - 1
      /\ -1 \in 0 .. Numbers - 1 \cup {-1} /\ AtBlock(0)
  <2>1. 0 = 0 * Block
    BY RxConstants
  <2>2. QED
    BY <2>1, RxConstants DEF AtBlock
<1>2. R!TypeOK
  BY <1>1, Zenon DEF R!Init, R!TypeOK, R!Index, R!None
<1>3. r_samples = [i \in 0 .. Length - 1 |-> -1] /\ r_head = 0 /\ r_tail = 0 /\ next = 0 /\ due = 0 /\ stored = 0
  BY Zenon DEF R!Init, R!Index, R!None
<1>4. Written = 0
  BY <1>3, Zenon DEF R!Init, Written
<1>5. RxHolds(r_samples, r_head, r_tail, due, next, stored, Written)
  <2>1. Length \in Nat \ {0} /\ Numbers \in Nat /\ Numbers > 2 * Length
    BY RxConstants
  <2>2. Wrapped(0) = 0 /\ Around(0) = 0 /\ Numbered(0) = 0
    BY <2>1 DEF Wrapped, Around, Numbered
  <2>3. Slots([i \in 0 .. Length - 1 |-> -1], 0, 0, 0)
    BY <2>1 DEF Slots, Away
  <2>4. Around(0 + 0) = 0 /\ Numbered(0 + 0) = 0
    BY <2>2
  <2>5. QED
    BY <1>1, <1>3, <1>4, <2>2, <2>3, <2>4 DEF RxHolds
<1>6. QED
  BY <1>1, <1>2, <1>3, <1>5, Zenon DEF R!Init, RxInv, RxApart, Asking, Getting

LEMMA RxStep ==
  ASSUME RxInv, R!Next
  PROVE  RxInv' /\ (R!Get /\ order = "kept" => order' # "lost")
<1>1. ASSUME R!Put PROVE RxInv'
  BY <1>1, RxPutRefused, RxPutStore, RxPutAdvance, RxPutWrap, RxPutCompare, RxPutFull, Zenon DEF R!Put
<1>2. ASSUME R!Get PROVE RxInv' /\ (order = "kept" => order' # "lost")
  <2>1. ASSUME R!DataEqual \/ R!DataFull \/ R!DataLess \/ R!DataAhead \/ R!DataAround
        PROVE  RxInv' /\ order' = order
    <3>1. RxInv'
      BY <2>1, RxDataEqual, RxDataFull, RxDataLess, RxDataAhead, RxDataAround, Zenon
    <3>2. order' = order
      BY <2>1, Zenon DEF R!DataEqual, R!DataFull, R!DataLess, R!DataAhead, R!DataAround, R!NumbersKept
    <3>3. QED
      BY <3>1, <3>2
  <2>2. ASSUME R!GetClear \/ R!GetWrap PROVE RxInv' /\ order' = order
    <3>1. RxInv'
      BY <2>2, RxGetClear, RxGetWrap, Zenon
    <3>2. order' = order
      BY <2>2, Zenon DEF R!GetClear, R!GetWrap, R!NumbersKept
    <3>3. QED
      BY <3>1, <3>2
  <2>3. "kept" # "lost"
    BY Zenon
  <2>4. QED
    BY <1>2, <2>1, <2>2, <2>3, RxGetRefused, RxGetRead, RxGetAdvance, Zenon DEF R!Get
<1>3. QED
  BY <1>1, <1>2, Zenon DEF R!Next


-----------------------------------------------------------------------------
(* The containers: who holds the mutex of one, and how. *)

\* Of these members, those that edit are guarded by the lock.
EditsLocked(members) == \A m \in C!Edits \cap DOMAIN members : members[m] = "lock"

LEMMA LockedMembers == \A S : EditsLocked(C!Locked(S))
  BY Zenon DEF EditsLocked, C!Locked

LEMMA OtherMembers ==
  ASSUME NEW S, \A m \in S : m \notin C!Edits
  PROVE  EditsLocked(C!Spun(S)) /\ EditsLocked(C!Bare(S))
  BY Zenon DEF EditsLocked, C!Spun, C!Bare

LEMMA JoinedMembers ==
  ASSUME NEW f, NEW g, EditsLocked(f), EditsLocked(g)
  PROVE  EditsLocked(C!++(f, g))
  BY Zenon DEF EditsLocked, C!++

\* The members without the lock edit nothing: looks, members of a reference, arguments.
LEMMA NoEdits ==
  /\ \A m \in {"other of ="} : m \notin C!Edits
  /\ \A m \in C!Positions \cup {"size", "capacity", "empty", "[]", "at"} : m \notin C!Edits
  /\ \A m \in C!Positions \cup {"size", "capacity", "empty", "[]", "at", "front"} : m \notin C!Edits
  /\ \A m \in C!Positions \cup {"[]", "at", "size", "empty", "contains"} : m \notin C!Edits
  /\ \A m \in {"front", "back", "get"} : m \notin C!Edits
  /\ \A m \in {"reserve", "other of swap"} : m \notin C!Edits
  /\ \A m \in {"other of swap"} : m \notin C!Edits
  /\ \A m \in {"reserve"} : m \notin C!Edits
  /\ \A m \in {"front", "back", "get", "reserve", "other of swap"} : m \notin C!Edits
  /\ \A m \in {"find", "count", "get"} : m \notin C!Edits
  /\ \A m \in {"find", "count", "get", "reserve"} : m \notin C!Edits
  BY Zenon DEF C!Edits, C!Positions

\* In every container the members that edit take the lock.
LEMMA EditsLock == \A k \in C!Kinds : EditsLocked(C!Members[k])
<1>1. EditsLocked(C!Members["vector"])
  BY LockedMembers, OtherMembers, JoinedMembers, NoEdits, Zenon
  DEF C!Members, C!VectorWhole, C!VectorLooks, C!VectorEdits
<1>2. EditsLocked(C!Members["deque"])
  BY LockedMembers, OtherMembers, JoinedMembers, NoEdits, Zenon
  DEF C!Members, C!DequeWhole, C!DequeLooks, C!DequeEdits
<1>3. EditsLocked(C!Members["shared_vector"])
  BY LockedMembers, OtherMembers, JoinedMembers, NoEdits, Zenon
  DEF C!Members, C!SharedVectorWhole, C!SharedVectorLooks, C!SharedVectorEdits
<1>4. EditsLocked(C!Members["map"])
  BY LockedMembers, OtherMembers, JoinedMembers, NoEdits, Zenon
  DEF C!Members, C!MapWhole, C!MapLooks, C!MapEdits
<1>5. EditsLocked(C!Members["unordered_map"])
  BY LockedMembers, OtherMembers, JoinedMembers, NoEdits, Zenon
  DEF C!Members, C!UnorderedMapWhole, C!UnorderedMapLooks, C!UnorderedMapEdits
<1>6. EditsLocked(C!Members["shared_unordered_map"])
  BY LockedMembers, OtherMembers, JoinedMembers, NoEdits, Zenon
  DEF C!Members, C!SharedMapWhole, C!SharedMapLooks, C!SharedMapEdits
<1>7. C!Kinds = {"vector", "deque", "shared_vector", "map", "unordered_map", "shared_unordered_map"}
  BY Zenon DEF C!Kinds, C!Members
<1>8. QED
  BY <1>1, <1>2, <1>3, <1>4, <1>5, <1>6, <1>7, Zenon

\* A thread within its use of the mutex, the flag or the container.
Within == {"flag", "spin", "in"}

\* Who edits or walks has the container, for itself or shared with those that walk.
ContainerInv ==
  /\ C!TypeOK
  /\ DOMAIN call = Thread
  /\ kind \notin C!Shared => readers = {}
  /\ readers = {} \/ owner = NoThread
  /\ \A t \in readers : call[t] = "walk" /\ pc[t] \in {"in", "release"}
  /\ \A t \in Thread : pc[t] \in Within /\ C!Alone(t) => owner = t \/ t \in readers
  /\ \A t \in Thread : pc[t] = "release" => owner = t \/ t \in readers

LEMMA ContainerConstants == NoThread \notin Thread /\ MaxCalls \in Nat
  BY LibraryConstants DEF C!ConcurrentAssumption

LEMMA ContainerInit == ASSUME C!Init PROVE ContainerInv
<1>1. 0 \in 0 .. MaxCalls
  BY ContainerConstants
<1>2. C!TypeOK
  BY <1>1, Zenon DEF C!Init, C!TypeOK
<1>3. QED
  BY <1>2, Zenon DEF C!Init, ContainerInv, Within

\* Where a step of a thread leaves it.
LEMMA ContainerAt ==
  ASSUME ContainerInv, NEW t \in Thread, NEW from, NEW to, C!At(t, from, to),
         to \in {"out", "acquire", "flag", "spin", "in", "release", "unflag"}
  PROVE  /\ pc[t] = from /\ pc'[t] = to /\ \A u \in Thread : u # t => pc'[u] = pc[u]
         /\ pc' \in [Thread -> {"out", "acquire", "flag", "spin", "in", "release", "unflag"}]
<1>1. pc \in [Thread -> {"out", "acquire", "flag", "spin", "in", "release", "unflag"}]
  BY Zenon DEF ContainerInv, C!TypeOK
<1>2. QED
  BY <1>1, Zenon DEF C!At

LEMMA ContainerCall ==
  ASSUME ContainerInv, NEW t \in Thread, NEW m \in DOMAIN C!Members[kind] \cup {"walk"}, C!Call(t, m)
  PROVE  ContainerInv'
<1> DEFINE to == CASE m = "walk" \/ C!Members[kind][m] = "lock" -> "acquire"
                   [] m # "walk" /\ C!Members[kind][m] = "spin" -> "spin"
                   [] OTHER -> "in"
<1>1. /\ calls[t] < MaxCalls /\ calls' = [calls EXCEPT ![t] = @ + 1]
      /\ call' = [call EXCEPT ![t] = m] /\ C!At(t, "out", to)
      /\ UNCHANGED <<kind, owner, readers, m_locked>>
  BY Zenon DEF C!Call
<1>2. /\ to \in {"out", "acquire", "flag", "spin", "in", "release", "unflag"}
      /\ to \in {"acquire", "spin", "in"}
      /\ m = "walk" \/ m \in C!Edits => to = "acquire"
  <2>1. m = "walk" \/ m \in C!Edits => m = "walk" \/ C!Members[kind][m] = "lock"
    <3>1. kind \in C!Kinds
      BY Zenon DEF ContainerInv, C!TypeOK
    <3>2. QED
      BY <3>1, EditsLock, Zenon DEF EditsLocked
  <2>2. CASE m = "walk" \/ C!Members[kind][m] = "lock"
    BY <2>2, Zenon
  <2>3. CASE ~(m = "walk" \/ C!Members[kind][m] = "lock")
    BY <2>1, <2>3, Zenon
  <2>4. QED
    BY <2>2, <2>3, Zenon
<1> HIDE DEF to
<1>3. /\ pc[t] = "out" /\ pc'[t] = to /\ \A u \in Thread : u # t => pc'[u] = pc[u]
      /\ pc' \in [Thread -> {"out", "acquire", "flag", "spin", "in", "release", "unflag"}]
  BY <1>1, <1>2, ContainerAt, Zenon
<1>4. call'[t] = m /\ (\A u \in Thread : u # t => call'[u] = call[u]) /\ DOMAIN call' = Thread
  BY <1>1, Zenon DEF ContainerInv
<1>5. calls' \in [Thread -> 0 .. MaxCalls]
  <2>1. calls \in [Thread -> 0 .. MaxCalls]
    BY Zenon DEF ContainerInv, C!TypeOK
  <2>2. calls[t] + 1 \in 0 .. MaxCalls
    BY <1>1, <2>1, ContainerConstants
  <2>3. QED
    BY <1>1, <2>1, <2>2, Zenon
<1>6. C!TypeOK'
  BY <1>1, <1>3, <1>5, Zenon DEF ContainerInv, C!TypeOK
<1>7. \A u \in readers : u \in Thread /\ u # t /\ call'[u] = "walk" /\ pc'[u] \in {"in", "release"}
  BY <1>3, <1>4, Zenon DEF ContainerInv, C!TypeOK
<1>8. ASSUME NEW u \in Thread
      PROVE  /\ pc'[u] \in Within /\ C!Alone(u)' => owner = u \/ u \in readers
             /\ pc'[u] = "release" => owner = u \/ u \in readers
  <2>1. CASE u = t
    <3>1. C!Alone(t)' => pc'[t] = "acquire"
      BY <1>2, <1>3, <1>4, Zenon DEF C!Alone
    <3>2. pc'[t] \in {"acquire", "spin", "in"}
      BY <1>2, <1>3, Zenon
    <3>3. QED
      BY <2>1, <3>1, <3>2, Zenon DEF Within
  <2>2. CASE u # t
    BY <1>3, <1>4, <2>2, Zenon DEF ContainerInv, C!Alone
  <2>3. QED
    BY <2>1, <2>2, Zenon
<1>9. QED
  BY <1>1, <1>4, <1>6, <1>7, <1>8, Zenon DEF ContainerInv

\* The steps of a thread that change its place and neither its call nor the container.
LEMMA ContainerMove ==
  ASSUME ContainerInv, NEW t \in Thread, NEW from, NEW to, C!At(t, from, to),
         to \in {"out", "acquire", "flag", "spin", "in", "release", "unflag"},
         t \in readers => to \in {"in", "release"},
         to \in Within /\ C!Alone(t) => owner = t \/ t \in readers,
         to = "release" => owner = t \/ t \in readers,
         m_locked' \in BOOLEAN, UNCHANGED <<kind, owner, readers, call, calls>>
  PROVE  ContainerInv'
<1>1. /\ pc[t] = from /\ pc'[t] = to /\ \A u \in Thread : u # t => pc'[u] = pc[u]
      /\ pc' \in [Thread -> {"out", "acquire", "flag", "spin", "in", "release", "unflag"}]
  BY ContainerAt, Zenon
<1>2. C!TypeOK'
  BY <1>1, Zenon DEF ContainerInv, C!TypeOK
<1>3. \A u \in readers : call'[u] = "walk" /\ pc'[u] \in {"in", "release"}
  BY <1>1, Zenon DEF ContainerInv, C!TypeOK
<1>4. \A u \in Thread : /\ pc'[u] \in Within /\ C!Alone(u)' => owner = u \/ u \in readers
                        /\ pc'[u] = "release" => owner = u \/ u \in readers
  BY <1>1, Zenon DEF ContainerInv, C!Alone
<1>5. QED
  BY <1>2, <1>3, <1>4, Zenon DEF ContainerInv

LEMMA ContainerSetFlag == ASSUME ContainerInv, NEW t \in Thread, C!SetFlag(t) PROVE ContainerInv'
<1>1. /\ C!At(t, "flag", "in") /\ m_locked' = TRUE /\ pc[t] = "flag"
      /\ UNCHANGED <<kind, owner, readers, call, calls>>
  BY Zenon DEF C!SetFlag, C!At
<1>2. C!Alone(t) => owner = t \/ t \in readers
  BY <1>1, Zenon DEF ContainerInv, Within
<1>3. QED
  BY <1>1, <1>2, ContainerMove, Zenon

LEMMA ContainerSpin == ASSUME ContainerInv, NEW t \in Thread, C!Spin(t) PROVE ContainerInv'
<1>1. /\ C!At(t, "spin", "in") /\ m_locked' = m_locked /\ pc[t] = "spin"
      /\ UNCHANGED <<kind, owner, readers, call, calls>>
  BY Zenon DEF C!Spin, C!At
<1>2. (C!Alone(t) => owner = t \/ t \in readers) /\ m_locked \in BOOLEAN
  BY <1>1, Zenon DEF ContainerInv, Within, C!TypeOK
<1>3. QED
  BY <1>1, <1>2, ContainerMove, Zenon

LEMMA ContainerLeave == ASSUME ContainerInv, NEW t \in Thread, C!Leave(t) PROVE ContainerInv'
<1>1. /\ C!At(t, "in", IF owner = t \/ t \in readers THEN "release" ELSE "out")
      /\ m_locked' = m_locked /\ UNCHANGED <<kind, owner, readers, call, calls>>
  BY Zenon DEF C!Leave
<1>2. m_locked \in BOOLEAN
  BY Zenon DEF ContainerInv, C!TypeOK
<1>3. CASE owner = t \/ t \in readers
  <2>1. C!At(t, "in", "release")
    BY <1>1, <1>3, Zenon
  <2>2. QED
    BY <1>1, <1>2, <1>3, <2>1, ContainerMove, Zenon
<1>4. CASE ~(owner = t \/ t \in readers)
  <2>1. C!At(t, "in", "out") /\ "out" \notin Within /\ "out" # "release"
    BY <1>1, <1>4, Zenon DEF Within
  <2>2. QED
    BY <1>1, <1>2, <1>4, <2>1, ContainerMove, Zenon
<1>5. QED
  BY <1>3, <1>4, Zenon

LEMMA ContainerClearFlag == ASSUME ContainerInv, NEW t \in Thread, C!ClearFlag(t) PROVE ContainerInv'
<1>1. /\ C!At(t, "unflag", "out") /\ m_locked' = FALSE /\ pc[t] = "unflag"
      /\ UNCHANGED <<kind, owner, readers, call, calls>>
  BY Zenon DEF C!ClearFlag, C!At
<1>2. t \notin readers /\ "out" \notin Within /\ "out" # "release"
  BY <1>1, Zenon DEF ContainerInv, Within
<1>3. QED
  BY <1>1, <1>2, ContainerMove, Zenon

LEMMA ContainerAcquire == ASSUME ContainerInv, NEW t \in Thread, C!Acquire(t) PROVE ContainerInv'
<1> DEFINE to == IF call[t] = "walk" THEN "spin" ELSE "flag"
<1>1. /\ kind \notin C!Shared /\ owner = NoThread /\ owner' = t /\ C!At(t, "acquire", to)
      /\ UNCHANGED <<kind, readers, m_locked, call, calls>>
  BY Zenon DEF C!Acquire
<1>2. to \in {"out", "acquire", "flag", "spin", "in", "release", "unflag"} /\ to # "release"
  BY Zenon
<1> HIDE DEF to
<1>3. /\ pc'[t] = to /\ \A u \in Thread : u # t => pc'[u] = pc[u]
      /\ pc' \in [Thread -> {"out", "acquire", "flag", "spin", "in", "release", "unflag"}]
  BY <1>1, <1>2, ContainerAt, Zenon
<1>4. C!TypeOK'
  BY <1>1, <1>3, Zenon DEF ContainerInv, C!TypeOK
<1>5. readers = {}
  BY <1>1, Zenon DEF ContainerInv
<1>6. ASSUME NEW u \in Thread, u # t
      PROVE  ~(pc[u] \in Within /\ C!Alone(u)) /\ pc[u] # "release" /\ C!Alone(u)' = C!Alone(u)
  BY <1>1, <1>5, <1>6, ContainerConstants, Zenon DEF ContainerInv, C!Alone
<1>7. QED
  BY <1>1, <1>2, <1>3, <1>4, <1>5, <1>6, Zenon DEF ContainerInv

LEMMA ContainerRelease == ASSUME ContainerInv, NEW t \in Thread, C!Release(t) PROVE ContainerInv'
<1>1. /\ kind \notin C!Shared /\ C!At(t, "release", "unflag") /\ owner' = NoThread
      /\ UNCHANGED <<kind, readers, m_locked, call, calls>>
  BY Zenon DEF C!Release
<1>2. /\ pc[t] = "release" /\ pc'[t] = "unflag" /\ \A u \in Thread : u # t => pc'[u] = pc[u]
      /\ pc' \in [Thread -> {"out", "acquire", "flag", "spin", "in", "release", "unflag"}]
  BY <1>1, ContainerAt, Zenon
<1>3. C!TypeOK'
  BY <1>1, <1>2, Zenon DEF ContainerInv, C!TypeOK
<1>4. readers = {} /\ owner = t
  BY <1>1, <1>2, Zenon DEF ContainerInv
<1>5. ASSUME NEW u \in Thread
      PROVE  ~(pc'[u] \in Within /\ C!Alone(u)') /\ pc'[u] # "release"
  BY <1>1, <1>2, <1>4, Zenon DEF ContainerInv, C!Alone, Within
<1>6. QED
  BY <1>1, <1>3, <1>4, <1>5, Zenon DEF ContainerInv

LEMMA ContainerAcquireShared ==
  ASSUME ContainerInv, NEW t \in Thread, C!AcquireShared(t)
  PROVE  ContainerInv'
<1>1. /\ kind \in C!Shared /\ C!At(t, "acquire", "in") /\ owner = NoThread
      /\ IF call[t] = "walk" THEN readers' = readers \cup {t} /\ owner' = owner
                             ELSE readers = {} /\ owner' = t /\ readers' = readers
      /\ UNCHANGED <<kind, m_locked, call, calls>>
  BY Zenon DEF C!AcquireShared
<1>2. /\ pc[t] = "acquire" /\ pc'[t] = "in" /\ \A u \in Thread : u # t => pc'[u] = pc[u]
      /\ pc' \in [Thread -> {"out", "acquire", "flag", "spin", "in", "release", "unflag"}]
  BY <1>1, ContainerAt, Zenon
<1>3. \A u \in Thread : u # owner
  BY <1>1, ContainerConstants, Zenon
<1>4. ASSUME NEW u \in Thread, u # t
      PROVE  /\ pc'[u] \in Within /\ C!Alone(u)' => u \in readers'
             /\ pc'[u] = "release" => u \in readers'
  BY <1>1, <1>2, <1>3, <1>4, Zenon DEF ContainerInv, C!Alone
<1>5. CASE call[t] = "walk"
  <2>1. readers' = readers \cup {t} /\ owner' = owner
    BY <1>1, <1>5, Zenon
  <2>2. C!TypeOK'
    BY <1>1, <1>2, <2>1, Zenon DEF ContainerInv, C!TypeOK
  <2>3. \A u \in readers' : call'[u] = "walk" /\ pc'[u] \in {"in", "release"}
    BY <1>1, <1>2, <1>5, <2>1, Zenon DEF ContainerInv, C!TypeOK
  <2>4. \A u \in Thread : /\ pc'[u] \in Within /\ C!Alone(u)' => owner' = u \/ u \in readers'
                          /\ pc'[u] = "release" => owner' = u \/ u \in readers'
    BY <1>2, <1>4, <2>1, Zenon
  <2>5. DOMAIN call' = Thread /\ (kind' \notin C!Shared => readers' = {}) /\ owner' = NoThread
    BY <1>1, <2>1, Zenon DEF ContainerInv
  <2>6. QED
    BY <2>2, <2>3, <2>4, <2>5, Zenon DEF ContainerInv
<1>6. CASE call[t] # "walk"
  <2>1. readers = {} /\ owner' = t /\ readers' = readers
    BY <1>1, <1>6, Zenon
  <2>2. C!TypeOK'
    BY <1>1, <1>2, <2>1, Zenon DEF ContainerInv, C!TypeOK
  <2>3. \A u \in Thread : /\ pc'[u] \in Within /\ C!Alone(u)' => owner' = u \/ u \in readers'
                          /\ pc'[u] = "release" => owner' = u \/ u \in readers'
    BY <1>2, <1>4, <2>1, Zenon
  <2>4. DOMAIN call' = Thread /\ readers' = {}
    BY <1>1, <2>1, Zenon DEF ContainerInv
  <2>5. QED
    BY <2>2, <2>3, <2>4, Zenon DEF ContainerInv
<1>7. QED
  BY <1>5, <1>6, Zenon

LEMMA ContainerReleaseShared ==
  ASSUME ContainerInv, NEW t \in Thread, C!ReleaseShared(t)
  PROVE  ContainerInv'
<1>1. /\ kind \in C!Shared /\ C!At(t, "release", "out")
      /\ owner' = (IF owner = t THEN NoThread ELSE owner) /\ readers' = readers \ {t}
      /\ UNCHANGED <<kind, m_locked, call, calls>>
  BY Zenon DEF C!ReleaseShared
<1>2. /\ pc[t] = "release" /\ pc'[t] = "out" /\ \A u \in Thread : u # t => pc'[u] = pc[u]
      /\ pc' \in [Thread -> {"out", "acquire", "flag", "spin", "in", "release", "unflag"}]
  BY <1>1, ContainerAt, Zenon
<1>3. C!TypeOK'
  BY <1>1, <1>2, Zenon DEF ContainerInv, C!TypeOK
<1>4. owner' \in {owner, NoThread} /\ (\A u : u # t /\ owner = u => owner' = u)
  BY <1>1, Zenon
<1>5. \A u \in readers' : u # t /\ call'[u] = "walk" /\ pc'[u] \in {"in", "release"}
  BY <1>1, <1>2, Zenon DEF ContainerInv, C!TypeOK
<1>6. \A u \in Thread : /\ pc'[u] \in Within /\ C!Alone(u)' => owner' = u \/ u \in readers'
                        /\ pc'[u] = "release" => owner' = u \/ u \in readers'
  BY <1>1, <1>2, <1>4, Zenon DEF ContainerInv, C!Alone, Within
<1>7. readers' = {} \/ owner' = NoThread
  BY <1>1, <1>4, Zenon DEF ContainerInv
<1>8. DOMAIN call' = Thread /\ kind' \in C!Shared
  BY <1>1, Zenon DEF ContainerInv
<1>9. QED
  BY <1>3, <1>5, <1>6, <1>7, <1>8, Zenon DEF ContainerInv

LEMMA ContainerStep == ASSUME ContainerInv, C!Next PROVE ContainerInv'
  BY ContainerCall, ContainerAcquireShared, ContainerReleaseShared, ContainerAcquire, ContainerSetFlag,
     ContainerSpin, ContainerLeave, ContainerRelease, ContainerClearFlag, Zenon
  DEF C!Next, C!Step

\* Of two threads in a container that edit or walk it, both walk.
LEMMA ContainerApart == ASSUME ContainerInv PROVE C!GuardedApart
<1> SUFFICES ASSUME NEW t \in Thread, NEW u \in Thread, C!Clash(t, u), C!Alone(t), C!Alone(u)
             PROVE  FALSE
  BY Zenon DEF C!GuardedApart
<1>1. /\ t # u /\ pc[t] = "in" /\ pc[u] = "in" /\ (C!Changes(call[t]) \/ C!Changes(call[u]))
  BY Zenon DEF C!Clash
<1>2. (owner = t \/ t \in readers) /\ (owner = u \/ u \in readers)
  BY <1>1, Zenon DEF ContainerInv, Within
<1>3. t \in readers /\ u \in readers
  BY <1>1, <1>2, ContainerConstants, Zenon DEF ContainerInv
<1>4. call[t] = "walk" /\ call[u] = "walk"
  BY <1>3, Zenon DEF ContainerInv
<1>5. ~C!Changes("walk")
  BY Zenon DEF C!Changes, C!Edits
<1>6. QED
  BY <1>1, <1>4, <1>5, Zenon


-----------------------------------------------------------------------------
(* The thread pool: what the workers have, and what waits for them. *)

WorkerAt == {"loop", "wait", "asleep", "run", "gone"}

InOrder(all, most) ==
  /\ \A i \in 1 .. Len(all) : all[i] \in 1 .. most
  /\ \A i, j \in 1 .. Len(all) : i < j => all[i] < all[j]

\* A worker has nothing or a task that was taken, and no task is had twice.
TasksOrdered(begun, waiting, had, most) ==
  /\ InOrder(begun \o waiting, most)
  /\ \A w \in 1 .. Len(had) : had[w] = 0 \/ \E i \in 1 .. Len(begun) : had[w] = begun[i]
  /\ \A v, w \in 1 .. Len(had) : v # w /\ had[v] # 0 => had[v] # had[w]

PoolInv ==
  /\ m_poolState \in {"STOP", "RUNNING"}
  /\ m_workers \in Seq(WorkerAt) /\ holds \in Seq(Nat) /\ Len(holds) = Len(m_workers)
  /\ m_tasks \in Seq(Nat) /\ taken \in Seq(Nat) /\ made \in Nat /\ index \in Nat
  /\ TasksOrdered(taken, m_tasks, holds, made)
  /\ m_maxQueuedTasks > 0 => Len(m_tasks) <= m_maxQueuedTasks
  /\ Len(m_workers) <= 2 * m_maxWorkerCnt /\ joined \in Nat /\ joined <= Len(m_workers)
  /\ control = "start" /\ index < m_maxWorkerCnt
       => Len(m_workers) + (m_maxWorkerCnt - index) <= 2 * m_maxWorkerCnt

LEMMA PoolConstants ==
  m_maxWorkerCnt \in Nat \ {0} /\ m_maxQueuedTasks \in Nat /\ MaxTasks \in Nat /\ MaxStarts \in Nat
  BY LibraryConstants DEF P!PoolAssumption

LEMMA OrderAppend ==
  ASSUME NEW all \in Seq(Nat), NEW most \in Nat, InOrder(all, most)
  PROVE  InOrder(Append(all, most + 1), most + 1) /\ InOrder(all, most + 1)
<1> DEFINE more == Append(all, most + 1)
<1>1. PICK n \in Nat : n = Len(all)
  BY LenProperties
<1>2. /\ Len(more) = n + 1 /\ \A i \in 1 .. n : more[i] = all[i]
      /\ more[n + 1] = most + 1
  BY <1>1, AppendProperties
<1>3. /\ \A i \in 1 .. n : all[i] \in 1 .. most
      /\ \A i, j \in 1 .. n : i < j => all[i] < all[j]
  BY <1>1 DEF InOrder
<1> HIDE DEF more
<1>4. ASSUME NEW i \in 1 .. n + 1 PROVE i \in 1 .. n \/ i = n + 1
  BY <1>4
<1>5. \A i \in 1 .. n + 1 : more[i] \in 1 .. most + 1
  BY <1>2, <1>3, <1>4
<1>6. ASSUME NEW i \in 1 .. n + 1, NEW j \in 1 .. n + 1, i < j PROVE more[i] < more[j]
  <2>1. i \in 1 .. n
    BY <1>6
  <2>2. CASE j = n + 1
    BY <1>2, <1>3, <2>1, <2>2
  <2>3. CASE j \in 1 .. n
    BY <1>2, <1>3, <1>6, <2>1, <2>3
  <2>4. QED
    BY <1>4, <2>2, <2>3
<1>7. InOrder(more, most + 1)
  BY <1>2, <1>5, <1>6 DEF InOrder
<1>8. \A i \in 1 .. n : all[i] \in 1 .. most + 1
  BY <1>3
<1>9. InOrder(all, most + 1)
  BY <1>1, <1>3, <1>8 DEF InOrder
<1>10. QED
  BY <1>7, <1>9 DEF more

\* A task that is pushed is the last, one that is refused is not there.
LEMMA OrderPush ==
  ASSUME NEW begun \in Seq(Nat), NEW waiting \in Seq(Nat), NEW had, NEW most \in Nat,
         TasksOrdered(begun, waiting, had, most)
  PROVE  /\ TasksOrdered(begun, Append(waiting, most + 1), had, most + 1)
         /\ TasksOrdered(begun, waiting, had, most + 1)
<1>1. begun \o waiting \in Seq(Nat) /\ most + 1 \in Nat /\ <<most + 1>> \in Seq(Nat)
  BY ConcatProperties
<1>2. begun \o Append(waiting, most + 1) = Append(begun \o waiting, most + 1)
  <2>1. Append(waiting, most + 1) = waiting \o <<most + 1>>
    BY <1>1, AppendIsConcat
  <2>2. Append(begun \o waiting, most + 1) = (begun \o waiting) \o <<most + 1>>
    BY <1>1, AppendIsConcat
  <2>3. (begun \o waiting) \o <<most + 1>> = begun \o (waiting \o <<most + 1>>)
    BY <1>1, ConcatAssociative
  <2>4. QED
    BY <2>1, <2>2, <2>3, Zenon
<1>3. InOrder(begun \o waiting, most)
  BY Zenon DEF TasksOrdered
<1>4. InOrder(Append(begun \o waiting, most + 1), most + 1) /\ InOrder(begun \o waiting, most + 1)
  BY <1>1, <1>3, OrderAppend
<1>5. QED
  BY <1>2, <1>4, Zenon DEF TasksOrdered

\* The first of those that wait, behind those that were begun.
LEMMA FirstWaiting ==
  ASSUME NEW begun \in Seq(Nat), NEW waiting \in Seq(Nat), waiting # <<>>, NEW most,
         InOrder(begun \o waiting, most)
  PROVE  /\ Head(waiting) \in Nat
         /\ Append(begun, Head(waiting)) \o Tail(waiting) = begun \o waiting
         /\ \A i \in 1 .. Len(begun) : begun[i] # Head(waiting)
<1>1. Head(waiting) \in Nat /\ <<Head(waiting)>> \in Seq(Nat) /\ Tail(waiting) \in Seq(Nat)
  BY HeadTailProperties
<1>2. Len(waiting) \in Nat \ {0} /\ Head(waiting) = waiting[1]
  BY EmptySeq
<1>3. Append(begun, Head(waiting)) \o Tail(waiting) = begun \o waiting
  <2>1. Append(begun, Head(waiting)) = begun \o <<Head(waiting)>>
    BY <1>1, AppendIsConcat
  <2>2. (begun \o <<Head(waiting)>>) \o Tail(waiting) = begun \o (<<Head(waiting)>> \o Tail(waiting))
    BY <1>1, ConcatAssociative
  <2>3. waiting = <<Head(waiting)>> \o Tail(waiting)
    <3>1. 1 \in 1 .. Len(waiting) /\ Len(waiting) \in 1 .. Len(waiting) /\ 1 + 1 = 2
      BY <1>2
    <3>2. SubSeq(waiting, 1, Len(waiting)) = <<waiting[1]>> \o SubSeq(waiting, 1 + 1, Len(waiting))
      BY <3>1, SubSeqRecursiveFirst, Zenon
    <3>3. SubSeq(waiting, 1, Len(waiting)) = waiting /\ Tail(waiting) = SubSeq(waiting, 2, Len(waiting))
      BY SubSeqFull, TailIsSubSeq, Zenon
    <3>4. QED
      BY <1>2, <3>1, <3>2, <3>3, Zenon
  <2>4. QED
    BY <2>1, <2>2, <2>3, Zenon
<1>4. ASSUME NEW i \in 1 .. Len(begun) PROVE begun[i] # Head(waiting)
  <2>1. PICK p \in Nat : p = Len(begun)
    BY LenProperties
  <2>2. PICK q \in Nat \ {0} : q = Len(waiting)
    BY <1>2
  <2>3. PICK all : all = begun \o waiting
    OBVIOUS
  <2>4. /\ all \in Seq(Nat) /\ Len(all) = p + q
        /\ \A k \in 1 .. p + q : all[k] = IF k <= p THEN begun[k] ELSE waiting[k - p]
    BY <2>1, <2>2, <2>3, ConcatProperties
  <2>5. i \in 1 .. p + q /\ p + 1 \in 1 .. p + q /\ i < p + 1 /\ i <= p /\ ~(p + 1 <= p) /\ p + 1 - p = 1
    BY <1>4, <2>1, <2>2
  <2>6. all[i] = begun[i] /\ all[p + 1] = Head(waiting)
    <3>1. all[i] = begun[i]
      BY <2>4, <2>5, Zenon
    <3>2. all[p + 1] = waiting[p + 1 - p]
      BY <2>4, <2>5
    <3>3. all[p + 1] = Head(waiting)
      BY <1>2, <2>5, <3>2, Zenon
    <3>4. QED
      BY <3>1, <3>3
  <2>7. all[i] < all[p + 1]
    BY <2>3, <2>4, <2>5 DEF InOrder
  <2>8. all[i] \in Nat /\ all[p + 1] \in Nat
    BY <2>4, <2>5, ElementOfSeq
  <2>9. QED
    BY <2>6, <2>7, <2>8
<1>5. QED
  BY <1>1, <1>3, <1>4

\* The oldest task goes to a worker: the order is the same, and no other has it.
LEMMA OrderTake ==
  ASSUME NEW begun \in Seq(Nat), NEW waiting \in Seq(Nat), NEW had \in Seq(Nat), NEW most,
         NEW w \in 1 .. Len(had), waiting # <<>>,
         TasksOrdered(begun, waiting, had, most)
  PROVE  TasksOrdered(Append(begun, Head(waiting)), Tail(waiting), [had EXCEPT ![w] = Head(waiting)], most)
<1> DEFINE more == Append(begun, Head(waiting))
           after == [had EXCEPT ![w] = Head(waiting)]
<1>1. InOrder(begun \o waiting, most)
  BY DEF TasksOrdered
<1>2. PICK first \in Nat : first = Head(waiting)
  BY <1>1, FirstWaiting
<1>3. more \o Tail(waiting) = begun \o waiting /\ \A i \in 1 .. Len(begun) : begun[i] # first
  BY <1>1, <1>2, FirstWaiting
<1>4. PICK p \in Nat : p = Len(begun)
  BY LenProperties
<1>5. /\ Len(more) = p + 1 /\ (\A i \in 1 .. p : more[i] = begun[i]) /\ more[p + 1] = first
  BY <1>2, <1>4, AppendProperties
<1>6. PICK n \in Nat : n = Len(had)
  BY LenProperties
<1>7. /\ Len(after) = n /\ \A v \in 1 .. n : after[v] = IF v = w THEN first ELSE had[v]
  BY <1>2, <1>6, ExceptSeq
<1> HIDE DEF more, after
<1>8. /\ \A v \in 1 .. n : had[v] = 0 \/ \E i \in 1 .. p : had[v] = begun[i]
      /\ \A u, v \in 1 .. n : u # v /\ had[u] # 0 => had[u] # had[v]
  BY <1>4, <1>6 DEF TasksOrdered
<1>9. \A v \in 1 .. n : had[v] # first \/ first = 0
  BY <1>3, <1>4, <1>8, Zenon
<1>10. ASSUME NEW v \in 1 .. n, after[v] # 0
       PROVE  \E i \in 1 .. p + 1 : after[v] = more[i]
  <2>1. CASE v = w
    <3>1. p + 1 \in 1 .. p + 1
      OBVIOUS
    <3>2. after[v] = more[p + 1]
      BY <1>5, <1>7, <2>1, Zenon
    <3>3. QED
      BY <3>1, <3>2, Zenon
  <2>2. CASE v # w
    <3>1. after[v] = had[v]
      BY <1>7, <2>2, Zenon
    <3>2. PICK i \in 1 .. p : had[v] = begun[i]
      BY <1>8, <1>10, <3>1, Zenon
    <3>3. i \in 1 .. p + 1
      OBVIOUS
    <3>4. QED
      BY <1>5, <3>1, <3>2, <3>3, Zenon
  <2>3. QED
    BY <2>1, <2>2
<1>11. \A u, v \in 1 .. n : u # v /\ after[u] # 0 => after[u] # after[v]
  BY <1>7, <1>8, <1>9, Zenon
<1>12. TasksOrdered(more, Tail(waiting), after, most)
  BY <1>1, <1>3, <1>5, <1>7, <1>10, <1>11, Zenon DEF TasksOrdered
<1>13. QED
  BY <1>12, Zenon DEF more, after

LEMMA OrderRun ==
  ASSUME NEW begun, NEW waiting, NEW had \in Seq(Nat), NEW most, NEW w \in 1 .. Len(had),
         TasksOrdered(begun, waiting, had, most)
  PROVE  TasksOrdered(begun, waiting, [had EXCEPT ![w] = 0], most)
<1> DEFINE after == [had EXCEPT ![w] = 0]
<1>1. /\ Len(after) = Len(had) /\ \A v \in 1 .. Len(had) : after[v] = IF v = w THEN 0 ELSE had[v]
  BY ExceptSeq
<1> HIDE DEF after
<1>2. TasksOrdered(begun, waiting, after, most)
  BY <1>1 DEF TasksOrdered
<1>3. QED
  BY <1>2 DEF after

LEMMA OrderNewWorker ==
  ASSUME NEW begun, NEW waiting, NEW had \in Seq(Nat), NEW most,
         TasksOrdered(begun, waiting, had, most)
  PROVE  TasksOrdered(begun, waiting, Append(had, 0), most)
<1> DEFINE after == Append(had, 0)
<1>1. /\ Len(had) \in Nat /\ Len(after) = Len(had) + 1
      /\ \A v \in 1 .. Len(had) : after[v] = had[v]
      /\ after[Len(had) + 1] = 0
  BY AppendProperties, LenProperties
<1> HIDE DEF after
<1>2. \A v \in 1 .. Len(after) : v \in 1 .. Len(had) \/ v = Len(had) + 1
  BY <1>1
<1>3. TasksOrdered(begun, waiting, after, most)
  BY <1>1, <1>2 DEF TasksOrdered
<1>4. QED
  BY <1>3 DEF after

LEMMA PoolFacts ==
  ASSUME PoolInv
  PROVE  /\ m_workers \in Seq(WorkerAt) /\ holds \in Seq(Nat) /\ Len(holds) = Len(m_workers)
         /\ m_tasks \in Seq(Nat) /\ taken \in Seq(Nat) /\ made \in Nat /\ index \in Nat
         /\ TasksOrdered(taken, m_tasks, holds, made)
         /\ Len(m_workers) <= 2 * m_maxWorkerCnt
         /\ Len(m_workers) \in Nat /\ Len(m_tasks) \in Nat
         /\ joined \in Nat /\ joined <= Len(m_workers)
<1>1. m_workers \in Seq(WorkerAt) /\ m_tasks \in Seq(Nat)
  BY Zenon DEF PoolInv
<1>2. Len(m_workers) \in Nat /\ Len(m_tasks) \in Nat
  BY <1>1, LenProperties
<1>3. QED
  BY <1>2, Zenon DEF PoolInv

LEMMA WorkerMoves ==
  ASSUME NEW workers \in Seq(WorkerAt), NEW w \in 1 .. Len(workers), NEW to \in WorkerAt
  PROVE  [workers EXCEPT ![w] = to] \in Seq(WorkerAt) /\ Len([workers EXCEPT ![w] = to]) = Len(workers)
  BY ExceptSeq

LEMMA AllNotified ==
  ASSUME NEW workers \in Seq(WorkerAt)
  PROVE  P!NotifyAll(workers) \in Seq(WorkerAt) /\ Len(P!NotifyAll(workers)) = Len(workers)
<1>1. PICK n \in Nat : n = Len(workers)
  BY LenProperties
<1>2. workers \in [1 .. n -> WorkerAt]
  BY <1>1, LenProperties
<1>3. P!NotifyAll(workers) \in [1 .. n -> WorkerAt]
  BY <1>2, Zenon DEF P!NotifyAll, WorkerAt
<1>4. P!NotifyAll(workers) \in Seq(WorkerAt)
  BY <1>3, SeqDef
<1>5. Len(P!NotifyAll(workers)) = n
  <2>1. PICK all : all = P!NotifyAll(workers)
    OBVIOUS
  <2>2. all \in [1 .. n -> WorkerAt] /\ all \in Seq(WorkerAt)
    BY <1>3, <1>4, <2>1
  <2>3. Len(all) = n
    BY <2>2, LenProperties
  <2>4. QED
    BY <2>1, <2>3
<1>6. QED
  BY <1>1, <1>4, <1>5

\* The steps that leave the tasks and the handles.
LEMMA PoolMove ==
  ASSUME PoolInv, m_poolState' \in {"STOP", "RUNNING"},
         m_workers' \in Seq(WorkerAt), Len(m_workers') = Len(m_workers),
         index' \in Nat,
         control' = "start" /\ index' < m_maxWorkerCnt
           => Len(m_workers) + (m_maxWorkerCnt - index') <= 2 * m_maxWorkerCnt,
         UNCHANGED <<m_tasks, holds, made, taken, joined>>
  PROVE  PoolInv'
  BY Zenon DEF PoolInv

\* A new worker has nothing, and does not make them too many.
LEMMA PoolGrows ==
  ASSUME PoolInv, P!NewWorker, Len(m_workers) + 1 <= 2 * m_maxWorkerCnt, index' \in Nat,
         control' = "start" /\ index' < m_maxWorkerCnt
           => Len(m_workers) + 1 + (m_maxWorkerCnt - index') <= 2 * m_maxWorkerCnt,
         UNCHANGED <<m_poolState, m_tasks, made, taken, joined>>
  PROVE  PoolInv'
<1>1. m_workers' = Append(m_workers, "loop") /\ holds' = Append(holds, 0) /\ "loop" \in WorkerAt
  BY Zenon DEF P!NewWorker, P!NoTask, WorkerAt
<1>2. \A to \in WorkerAt : /\ Append(m_workers, to) \in Seq(WorkerAt)
                           /\ Len(Append(m_workers, to)) = Len(m_workers) + 1
  BY PoolFacts, AppendProperties
<1>3. Append(holds, 0) \in Seq(Nat) /\ Len(Append(holds, 0)) = Len(holds) + 1
  <2>1. holds \in Seq(Nat) /\ 0 \in Nat
    BY PoolFacts
  <2>2. QED
    BY <2>1, AppendProperties
<1>4. TasksOrdered(taken, m_tasks, Append(holds, 0), made)
  BY PoolFacts, OrderNewWorker, Zenon
<1>5. m_workers' \in Seq(WorkerAt) /\ Len(m_workers') = Len(m_workers) + 1
  BY <1>1, <1>2, Zenon
<1>6. joined \in Nat /\ joined <= Len(m_workers) + 1
  BY PoolFacts
<1>7. QED
  BY <1>1, <1>3, <1>4, <1>5, <1>6, Zenon DEF PoolInv

LEMMA PoolEnqueueWorker == ASSUME PoolInv, NEW c, P!EnqueueWorker(c) PROVE PoolInv'
<1>1. UNCHANGED <<m_poolState, m_tasks, control, index, made, taken, joined>>
  BY Zenon DEF P!EnqueueWorker
<1>2. CASE Len(m_workers) < m_maxWorkerCnt /\ P!NewWorker
  <2>1. /\ Len(m_workers) + 1 <= 2 * m_maxWorkerCnt
        /\ index < m_maxWorkerCnt => Len(m_workers) + 1 + (m_maxWorkerCnt - index) <= 2 * m_maxWorkerCnt
    BY <1>2, PoolFacts, PoolConstants
  <2>2. index \in Nat
    BY PoolFacts, Zenon
  <2>3. QED
    BY <1>1, <1>2, <2>1, <2>2, PoolGrows, Zenon
<1>3. CASE UNCHANGED <<m_workers, holds>>
  BY <1>1, <1>3, Zenon DEF PoolInv
<1>4. QED
  BY <1>2, <1>3, Zenon DEF P!EnqueueWorker

LEMMA PoolEnqueueTask == ASSUME PoolInv, NEW c, P!EnqueueTask(c) PROVE PoolInv'
<1>1. /\ made' = made + 1 /\ UNCHANGED <<m_poolState, m_workers, holds, control, index, taken, joined>>
      /\ \/ m_tasks' = m_tasks
         \/ /\ ~(m_maxQueuedTasks > 0 /\ Len(m_tasks) >= m_maxQueuedTasks)
            /\ m_tasks' = Append(m_tasks, made')
  BY Zenon DEF P!EnqueueTask
<1>2. made + 1 \in Nat
  BY PoolFacts
<1>3. /\ TasksOrdered(taken, Append(m_tasks, made + 1), holds, made + 1)
      /\ TasksOrdered(taken, m_tasks, holds, made + 1)
  BY PoolFacts, OrderPush, Zenon
<1>4. CASE m_tasks' = m_tasks
  BY <1>1, <1>2, <1>3, <1>4, Zenon DEF PoolInv
<1>5. CASE /\ ~(m_maxQueuedTasks > 0 /\ Len(m_tasks) >= m_maxQueuedTasks)
           /\ m_tasks' = Append(m_tasks, made')
  <2>1. Append(m_tasks, made + 1) \in Seq(Nat) /\ Len(Append(m_tasks, made + 1)) = Len(m_tasks) + 1
    BY <1>2, PoolFacts, AppendProperties
  <2>2. m_maxQueuedTasks > 0 => Len(m_tasks) + 1 <= m_maxQueuedTasks
    BY <1>5, PoolFacts, PoolConstants
  <2>3. QED
    BY <1>1, <1>2, <1>3, <1>5, <2>1, <2>2, Zenon DEF PoolInv
<1>6. QED
  BY <1>1, <1>4, <1>5

\* A step of one worker that takes no task.
LEMMA PoolWorkerMoves ==
  ASSUME PoolInv, NEW w \in 1 .. Len(m_workers), NEW to \in WorkerAt,
         m_workers' = [m_workers EXCEPT ![w] = to],
         UNCHANGED <<m_poolState, m_tasks, holds, control, index, made, taken, joined>>
  PROVE  PoolInv'
<1>1. m_workers' \in Seq(WorkerAt) /\ Len(m_workers') = Len(m_workers)
  BY PoolFacts, WorkerMoves, Zenon
<1>2. QED
  BY <1>1, Zenon DEF PoolInv

LEMMA PoolEnqueueNotify == ASSUME PoolInv, NEW c, P!EnqueueNotify(c) PROVE PoolInv'
<1>1. "wait" \in WorkerAt
  BY Zenon DEF WorkerAt
<1>2. UNCHANGED <<m_poolState, m_tasks, holds, control, index, made, taken, joined>>
  BY Zenon DEF P!EnqueueNotify
<1>3. \/ m_workers' = m_workers
      \/ \E w \in 1 .. Len(m_workers) : m_workers' = [m_workers EXCEPT ![w] = "wait"]
  BY Zenon DEF P!EnqueueNotify, P!Handles
<1>4. CASE m_workers' = m_workers
  BY <1>2, <1>4, Zenon DEF PoolInv
<1>5. CASE \E w \in 1 .. Len(m_workers) : m_workers' = [m_workers EXCEPT ![w] = "wait"]
  BY <1>1, <1>2, <1>5, PoolWorkerMoves, Zenon
<1>6. QED
  BY <1>3, <1>4, <1>5

LEMMA PoolStartRunning == ASSUME PoolInv, P!StartRunning PROVE PoolInv'
<1>1. /\ m_poolState' = "RUNNING" /\ index' = Len(m_workers)
      /\ UNCHANGED <<m_tasks, m_workers, holds, made, taken, joined>>
  BY Zenon DEF P!StartRunning
<1>2. /\ Len(m_workers) \in Nat
      /\ Len(m_workers) < m_maxWorkerCnt
           => Len(m_workers) + (m_maxWorkerCnt - Len(m_workers)) <= 2 * m_maxWorkerCnt
  BY PoolFacts, PoolConstants
<1>3. QED
  BY <1>1, <1>2, Zenon DEF PoolInv

LEMMA PoolStartWorker == ASSUME PoolInv, P!StartWorker PROVE PoolInv'
<1>1. /\ control = "start" /\ index < m_maxWorkerCnt /\ P!NewWorker /\ index' = index + 1
      /\ UNCHANGED <<m_poolState, m_tasks, control, made, taken, joined>>
  BY Zenon DEF P!StartWorker
<1>2. Len(m_workers) + (m_maxWorkerCnt - index) <= 2 * m_maxWorkerCnt
  BY <1>1, Zenon DEF PoolInv
<1>3. index < m_maxWorkerCnt
  BY <1>1
<1>4. /\ index + 1 \in Nat /\ Len(m_workers) + 1 <= 2 * m_maxWorkerCnt
      /\ Len(m_workers) + 1 + (m_maxWorkerCnt - (index + 1)) <= 2 * m_maxWorkerCnt
  BY <1>2, <1>3, PoolFacts, PoolConstants
<1>5. QED
  BY <1>1, <1>4, PoolGrows, Zenon

\* stop(), and the ends of start() and wait().
LEMMA PoolNotifies ==
  ASSUME PoolInv, P!StartNotify \/ P!Stop \/ P!StopNotify \/ P!Wait \/ P!WaitEnd
  PROVE  PoolInv'
<1>1. /\ m_workers' = m_workers \/ m_workers' = P!NotifyAll(m_workers)
      /\ m_poolState' \in {m_poolState, "STOP"} /\ control' # "start" /\ index' \in {index, 0}
      /\ UNCHANGED <<m_tasks, holds, made, taken, joined>>
  BY Zenon DEF P!StartNotify, P!Stop, P!StopNotify, P!Wait, P!WaitEnd
<1>2. m_workers' \in Seq(WorkerAt) /\ Len(m_workers') = Len(m_workers)
  BY <1>1, PoolFacts, AllNotified, Zenon
<1>3. index' \in Nat
  BY <1>1, PoolFacts
<1>4. QED
  BY <1>1, <1>2, <1>3, Zenon DEF PoolInv

\* wait() is at a handle it has.
LEMMA PoolJoin == ASSUME PoolInv, P!Join PROVE PoolInv'
<1>1. /\ index < Len(m_workers) /\ control = "join" /\ control' \in {"join", "lost"}
      /\ UNCHANGED <<m_poolState, m_tasks, m_workers, holds, made, taken>>
      /\ joined' \in {joined, index + 1} /\ index' \in {index, index + 1}
  BY Zenon DEF P!Join
<1>2. index' \in Nat /\ joined' \in Nat /\ joined' <= Len(m_workers)
  BY <1>1, PoolFacts
<1>3. control' # "start"
  BY <1>1
<1>4. QED
  BY <1>1, <1>2, <1>3, Zenon DEF PoolInv

LEMMA PoolWorks ==
  ASSUME PoolInv, NEW w \in 1 .. Len(m_workers),
         P!Loop(w) \/ P!Sleep(w) \/ P!WakeUnasked(w) \/ P!Exit(w)
  PROVE  PoolInv'
<1>1. \E to \in WorkerAt : m_workers' = [m_workers EXCEPT ![w] = to]
  BY Zenon DEF P!Loop, P!Sleep, P!WakeUnasked, P!Exit, WorkerAt
<1>2. UNCHANGED <<m_poolState, m_tasks, holds, control, index, made, taken, joined>>
  BY Zenon DEF P!Loop, P!Sleep, P!WakeUnasked, P!Exit
<1>3. QED
  BY <1>1, <1>2, PoolWorkerMoves, Zenon

LEMMA PoolTake == ASSUME PoolInv, NEW w \in 1 .. Len(m_workers), P!Take(w) PROVE PoolInv'
<1>1. /\ m_tasks # <<>> /\ m_workers' = [m_workers EXCEPT ![w] = "run"]
      /\ holds' = [holds EXCEPT ![w] = Head(m_tasks)] /\ taken' = Append(taken, Head(m_tasks))
      /\ m_tasks' = Tail(m_tasks)
      /\ UNCHANGED <<m_poolState, control, index, made, joined>>
  BY Zenon DEF P!Take
<1>2. "run" \in WorkerAt
  BY Zenon DEF WorkerAt
<1>3. m_workers' \in Seq(WorkerAt) /\ Len(m_workers') = Len(m_workers)
  BY <1>1, <1>2, PoolFacts, WorkerMoves, Zenon
<1>4. w \in 1 .. Len(holds)
  BY PoolFacts, Zenon
<1>5. m_tasks # <<>>
  BY <1>1
<1>6. /\ Head(m_tasks) \in Nat /\ Tail(m_tasks) \in Seq(Nat) /\ Len(Tail(m_tasks)) <= Len(m_tasks)
      /\ Len(m_tasks) \in Nat /\ Len(Tail(m_tasks)) \in Nat
  <2>1. Head(m_tasks) \in Nat /\ Tail(m_tasks) \in Seq(Nat) /\ Len(Tail(m_tasks)) = Len(m_tasks) - 1
    BY <1>5, PoolFacts, HeadTailProperties
  <2>2. Len(Tail(m_tasks)) \in Nat
    BY <2>1, LenProperties
  <2>3. QED
    BY <2>1, <2>2, PoolFacts
<1>7. /\ holds' \in Seq(Nat) /\ Len(holds') = Len(holds)
  <2>1. \A x \in Nat : [holds EXCEPT ![w] = x] \in Seq(Nat) /\ Len([holds EXCEPT ![w] = x]) = Len(holds)
    BY <1>4, PoolFacts, ExceptSeq
  <2>2. QED
    BY <1>1, <1>6, <2>1, Zenon
<1>8. taken' \in Seq(Nat)
  <2>1. \A x \in Nat : Append(taken, x) \in Seq(Nat)
    BY PoolFacts, AppendProperties
  <2>2. QED
    BY <1>1, <1>6, <2>1, Zenon
<1>9. TasksOrdered(taken', m_tasks', holds', made)
  <2>1. TasksOrdered(Append(taken, Head(m_tasks)), Tail(m_tasks), [holds EXCEPT ![w] = Head(m_tasks)], made)
    BY <1>4, <1>5, PoolFacts, OrderTake
  <2>2. QED
    BY <1>1, <2>1, Zenon
<1>10. m_maxQueuedTasks > 0 => Len(m_tasks') <= m_maxQueuedTasks
  <2>1. m_maxQueuedTasks > 0 => Len(m_tasks) <= m_maxQueuedTasks
    BY Zenon DEF PoolInv
  <2>2. m_maxQueuedTasks > 0 => Len(Tail(m_tasks)) <= m_maxQueuedTasks
    BY <1>6, <2>1, PoolConstants
  <2>3. QED
    BY <1>1, <2>2, Zenon
<1>11. QED
  BY <1>1, <1>3, <1>6, <1>7, <1>8, <1>9, <1>10, Zenon DEF PoolInv

LEMMA PoolRun == ASSUME PoolInv, NEW w \in 1 .. Len(m_workers), P!Run(w) PROVE PoolInv'
<1>1. /\ m_workers' = [m_workers EXCEPT ![w] = "loop"] /\ holds' = [holds EXCEPT ![w] = 0]
      /\ UNCHANGED <<m_poolState, m_tasks, control, index, made, taken, joined>>
  BY Zenon DEF P!Run, P!NoTask
<1>2. "loop" \in WorkerAt /\ w \in 1 .. Len(holds)
  BY PoolFacts, Zenon DEF WorkerAt
<1>3. m_workers' \in Seq(WorkerAt) /\ Len(m_workers') = Len(m_workers)
  BY <1>1, <1>2, PoolFacts, WorkerMoves, Zenon
<1>4. w \in 1 .. Len(holds) /\ 0 \in Nat
  BY <1>2, Zenon
<1>5. [holds EXCEPT ![w] = 0] \in Seq(Nat) /\ Len([holds EXCEPT ![w] = 0]) = Len(holds)
  BY <1>4, PoolFacts, ExceptSeq
<1>6. TasksOrdered(taken, m_tasks, [holds EXCEPT ![w] = 0], made)
  BY <1>4, PoolFacts, OrderRun, Zenon
<1>7. QED
  BY <1>1, <1>3, <1>5, <1>6, Zenon DEF PoolInv

LEMMA PoolInit == ASSUME P!Init PROVE PoolInv
<1>1. /\ m_poolState = "STOP" /\ m_tasks = <<>> /\ m_workers = <<>> /\ holds = <<>>
      /\ control # "start" /\ index = 0 /\ made = 0 /\ taken = <<>> /\ joined = 0
  BY Zenon DEF P!Init
<1>2. <<>> \in Seq(Nat) /\ <<>> \in Seq(WorkerAt) /\ Len(<<>>) = 0
  BY EmptySeq
<1>3. TasksOrdered(<<>>, <<>>, <<>>, 0)
  <2>1. <<>> \o <<>> = <<>>
    BY <1>2, ConcatEmptySeq
  <2>2. QED
    BY <1>2, <2>1 DEF TasksOrdered, InOrder
<1>4. 0 <= 2 * m_maxWorkerCnt /\ 0 <= 0 /\ (m_maxQueuedTasks > 0 => 0 <= m_maxQueuedTasks) /\ 0 \in Nat
  BY PoolConstants
<1>5. QED
  BY <1>1, <1>2, <1>3, <1>4, Zenon DEF PoolInv

LEMMA PoolStep == ASSUME PoolInv, P!Next PROVE PoolInv'
  BY PoolEnqueueWorker, PoolEnqueueTask, PoolEnqueueNotify, PoolStartRunning, PoolStartWorker,
     PoolNotifies, PoolJoin, PoolWorks, PoolTake, PoolRun, Zenon
  DEF P!Next, P!Control, P!Work, P!Locks, P!Handles

\* What the invariant says of the pool.
LEMMA PoolKeeps == ASSUME PoolInv PROVE P!TypeOK /\ P!TasksInOrder
<1>1. \A w \in P!Handles : m_workers[w] \in WorkerAt
  BY PoolFacts, ElementOfSeq DEF P!Handles
<1>2. P!TypeOK
  BY <1>1, Zenon DEF PoolInv, P!TypeOK, P!MostWorkers, WorkerAt
<1>3. P!TasksInOrder
  BY PoolFacts, Zenon DEF P!TasksInOrder, P!Handles, P!NoTask, TasksOrdered, InOrder
<1>4. QED
  BY <1>2, <1>3


-----------------------------------------------------------------------------
(* The ring of the common library. *)

Turned(p, length) == IF p >= length THEN p - length ELSE p
Fill(o, i, length) == IF i >= o THEN i - o ELSE i - o + length

\* The places from o on have these items.
HasFrom(ring, o, length, items) == \A k \in 1 .. Len(items) : items[k] = ring[Turned(o + (k - 1), length)]

DataInv ==
  /\ d_length \in Lengths /\ DOMAIN d_buffer = 0 .. d_length - 1
  /\ m_iPtr \in 0 .. d_length - 1 /\ m_oPtr \in 0 .. d_length - 1
  /\ content \in Seq(Items) /\ Len(content) = Fill(m_oPtr, m_iPtr, d_length)
  /\ HasFrom(d_buffer, m_oPtr, d_length, content)

LEMMA DataConstants == Lengths \subseteq Nat \ {0} /\ Items \subseteq Nat \ {0} /\ MaxBlock \in Nat
  BY LibraryConstants DEF D!DataRingAssumption

LEMMA DataFacts ==
  ASSUME DataInv
  PROVE  /\ d_length \in Nat \ {0} /\ m_iPtr \in 0 .. d_length - 1 /\ m_oPtr \in 0 .. d_length - 1
         /\ Len(content) \in 0 .. d_length - 1
         /\ D!freeSpace = d_length - Len(content) /\ D!dataSize = Len(content)
<1>1. d_length \in Nat \ {0} /\ m_iPtr \in 0 .. d_length - 1 /\ m_oPtr \in 0 .. d_length - 1
  BY DataConstants DEF DataInv
<1>2. PICK n : n = Len(content)
  OBVIOUS
<1>3. n = Fill(m_oPtr, m_iPtr, d_length)
  BY <1>2 DEF DataInv
<1>4. n \in 0 .. d_length - 1 /\ D!freeSpace = d_length - n
  BY <1>1, <1>3 DEF Fill, D!freeSpace
<1>5. d_length - (d_length - n) = n
  BY <1>1, <1>4
<1>6. D!dataSize = n
  BY <1>4, <1>5 DEF D!dataSize
<1>7. QED
  BY <1>1, <1>2, <1>4, <1>6

\* An index goes around once at most.
LEMMA AdvanceTurns ==
  ASSUME d_length \in Nat \ {0}, NEW ptr \in 0 .. d_length - 1, NEW n \in 0 .. d_length
  PROVE  D!Advance(ptr, n) = Turned(ptr + n, d_length) /\ Turned(ptr + n, d_length) \in 0 .. d_length - 1
<1>1. CASE ptr + n < d_length
  BY <1>1 DEF D!Advance, Turned
<1>2. CASE ptr + n >= d_length
  BY <1>2 DEF D!Advance, Turned
<1>3. QED
  BY <1>1, <1>2

\* What the invariant says of the calls that ask.
LEMMA DataKeeps == ASSUME DataInv PROVE D!TypeOK /\ D!ContentKept
<1>1. D!TypeOK
  BY DEF DataInv, D!TypeOK
<1>2. PICK n \in Nat : n = Len(content)
  BY DataFacts
<1>3. D!From(m_oPtr, n) = content
  <2>1. \A k \in 1 .. n : k - 1 \in 0 .. d_length
    BY <1>2, DataFacts
  <2>2. \A k \in 1 .. n : D!Advance(m_oPtr, k - 1) = Turned(m_oPtr + (k - 1), d_length)
    BY <2>1, DataFacts, AdvanceTurns
  <2>3. \A k \in 1 .. n : content[k] = d_buffer[D!Advance(m_oPtr, k - 1)]
    BY <1>2, <2>2 DEF DataInv, HasFrom
  <2>4. content = [k \in 1 .. n |-> content[k]]
    <3>1. content \in Seq(Items)
      BY DEF DataInv
    <3>2. content \in [1 .. n -> Items]
      BY <1>2, <3>1, LenProperties
    <3>3. QED
      BY <3>2
  <2>5. D!From(m_oPtr, n) = [k \in 1 .. n |-> d_buffer[D!Advance(m_oPtr, k - 1)]]
    BY DEF D!From
  <2>6. QED
    BY <2>3, <2>4, <2>5, Zenon
<1>4. content # <<>> <=> n # 0
  <2>1. content \in Seq(Items)
    BY DEF DataInv
  <2>2. QED
    BY <1>2, <2>1, EmptySeq
<1>5. n # 0 <=> m_oPtr # m_iPtr
  <2>1. n = Fill(m_oPtr, m_iPtr, d_length)
    BY <1>2 DEF DataInv
  <2>2. QED
    BY <2>1, DataFacts DEF Fill
<1>6. D!dataSize = n
  BY <1>2, DataFacts
<1>7. D!hasData = (content # <<>>) /\ D!isEmpty = (content = <<>>)
  BY <1>4, <1>5, Zenon DEF D!hasData, D!isEmpty
<1>8. D!ContentKept
  BY <1>2, <1>3, <1>6, <1>7, Zenon DEF D!ContentKept
<1>9. QED
  BY <1>1, <1>8

\* A ring that was cleared has nothing.
LEMMA DataCleared ==
  ASSUME NEW length \in Lengths, d_length' = length, d_buffer' = D!Cleared(length),
         m_iPtr' = 0, m_oPtr' = 0, content' = <<>>
  PROVE  DataInv'
<1>1. length \in Nat \ {0}
  BY DataConstants
<1>2. <<>> \in Seq(Items) /\ Len(<<>>) = 0
  BY EmptySeq
<1>3. DOMAIN D!Cleared(length) = 0 .. length - 1 /\ 0 \in 0 .. length - 1 /\ Fill(0, 0, length) = 0
  BY <1>1 DEF D!Cleared, Fill
<1>4. HasFrom(D!Cleared(length), 0, length, <<>>)
  BY <1>2 DEF HasFrom
<1>5. QED
  BY <1>2, <1>3, <1>4, Zenon DEF DataInv

LEMMA DataOverflow == ASSUME DataInv, NEW block, D!Overflow(block) PROVE DataInv'
  BY DataCleared, Zenon DEF DataInv, D!Overflow, D!clear

LEMMA DataClear == ASSUME DataInv, D!Clear PROVE DataInv'
  BY DataCleared, Zenon DEF DataInv, D!Clear, D!clear

LEMMA DataResize == ASSUME DataInv, NEW length \in Lengths, D!resize(length) PROVE DataInv'
  BY DataCleared, Zenon DEF D!resize

LEMMA DataPeek == ASSUME DataInv, NEW n, D!peek(n) PROVE DataInv'
  BY Zenon DEF DataInv, D!peek

\* get() takes the oldest items: the others are where they were.
LEMMA DataGet == ASSUME DataInv, NEW n \in Nat, D!get(n) PROVE DataInv'
<1>1. CASE D!dataSize < n
  BY <1>1, Zenon DEF D!get, DataInv
<1>2. CASE ~(D!dataSize < n)
  <2>1. /\ m_oPtr' = D!Advance(m_oPtr, n) /\ content' = SubSeq(content, n + 1, Len(content))
        /\ UNCHANGED <<d_length, d_buffer, m_iPtr>>
    BY <1>2, Zenon DEF D!get
  <2>2. PICK m \in Nat : m = Len(content)
    BY DataFacts
  <2>3. /\ d_length \in Nat \ {0} /\ m_iPtr \in 0 .. d_length - 1 /\ m_oPtr \in 0 .. d_length - 1
        /\ m \in 0 .. d_length - 1 /\ D!dataSize = m
    BY <2>2, DataFacts
  <2>4. n <= m /\ n \in 0 .. d_length
    BY <1>2, <2>3
  <2>5. m_oPtr' = Turned(m_oPtr + n, d_length) /\ m_oPtr' \in 0 .. d_length - 1
    BY <2>1, <2>3, <2>4, AdvanceTurns
  <2>6. m = Fill(m_oPtr, m_iPtr, d_length)
    BY <2>2 DEF DataInv
  <2>7. m - n = Fill(Turned(m_oPtr + n, d_length), m_iPtr, d_length)
    BY <2>3, <2>4, <2>6 DEF Fill, Turned
  <2>8. content \in Seq(Items)
    BY DEF DataInv
  <2>9. /\ SubSeq(content, n + 1, m) \in Seq(Items)
        /\ Len(SubSeq(content, n + 1, m)) = m - n
        /\ \A k \in 1 .. m - n : SubSeq(content, n + 1, m)[k] = content[n + k]
    <3>1. \A k \in n + 1 .. m : content[k] \in Items
      BY <2>2, <2>8, ElementOfSeq
    <3>2. n + 1 \in Int /\ m \in Int
      OBVIOUS
    <3>3. /\ SubSeq(content, n + 1, m) \in Seq(Items)
          /\ Len(SubSeq(content, n + 1, m)) = IF n + 1 <= m THEN m - (n + 1) + 1 ELSE 0
          /\ \A k \in 1 .. m - (n + 1) + 1 : SubSeq(content, n + 1, m)[k] = content[(n + 1) + k - 1]
      BY <3>1, <3>2, SubSeqProperties
    <3>4. m - (n + 1) + 1 = m - n /\ (IF n + 1 <= m THEN m - (n + 1) + 1 ELSE 0) = m - n
      BY <2>4
    <3>5. \A k \in 1 .. m - n : (n + 1) + k - 1 = n + k
      OBVIOUS
    <3>6. QED
      BY <3>3, <3>4, <3>5, Zenon
  <2>10. HasFrom(d_buffer, Turned(m_oPtr + n, d_length), d_length, SubSeq(content, n + 1, m))
    <3>1. SUFFICES ASSUME NEW k \in 1 .. m - n
                   PROVE  content[n + k] = d_buffer[Turned(Turned(m_oPtr + n, d_length) + (k - 1), d_length)]
      BY <2>9, Zenon DEF HasFrom
    <3>2. n + k \in 1 .. m
      BY <2>4
    <3>3. content[n + k] = d_buffer[Turned(m_oPtr + (n + k - 1), d_length)]
      BY <2>2, <3>2 DEF DataInv, HasFrom
    <3>4. Turned(m_oPtr + (n + k - 1), d_length) = Turned(Turned(m_oPtr + n, d_length) + (k - 1), d_length)
      BY <2>3, <2>4 DEF Turned
    <3>5. QED
      BY <3>3, <3>4
  <2>11. QED
    BY <2>1, <2>2, <2>5, <2>7, <2>9, <2>10, Zenon DEF DataInv
<1>3. QED
  BY <1>1, <1>2
LEMMA BlocksAreSequences ==
  ASSUME NEW block \in D!Blocks
  PROVE  block \in Seq(Items) /\ Len(block) \in Nat /\ DOMAIN block = 1 .. Len(block)
<1>1. PICK n \in 0 .. MaxBlock : block \in [1 .. n -> Items]
  BY Zenon DEF D!Blocks
<1>2. n \in Nat
  BY DataConstants
<1>3. block \in Seq(Items)
  BY <1>1, <1>2 DEF Seq
<1>4. QED
  BY <1>3, LenProperties

\* Places of a ring that are less than its length apart differ.
LEMMA TurnedApart ==
  ASSUME NEW length \in Nat \ {0}, NEW p \in 0 .. length - 1, NEW a \in 0 .. length - 1, NEW b \in 0 .. length - 1,
         Turned(p + a, length) = Turned(p + b, length)
  PROVE  a = b
  BY DEF Turned

\* The end of the content is its start and as many places.
LEMMA FillTurned ==
  ASSUME NEW length \in Nat \ {0}, NEW o \in 0 .. length - 1, NEW i \in 0 .. length - 1,
         NEW a \in 0 .. length - Fill(o, i, length)
  PROVE  Turned(i + a, length) = IF Fill(o, i, length) + a < length THEN Turned(o + (Fill(o, i, length) + a), length) ELSE o
  BY DEF Turned, Fill

\* addData() writes the items of the block in places of their own, and no place of the content.
LEMMA StoredPlaces ==
  ASSUME DataInv, NEW block \in D!Blocks, D!Stored(block),
         NEW m \in Nat, m = Len(content), NEW n \in Nat, n = Len(block)
  PROVE  /\ \A k \in 1 .. n : d_buffer'[Turned(m_iPtr + (k - 1), d_length)] = block[k]
         /\ \A j \in 1 .. m : d_buffer'[Turned(m_oPtr + (j - 1), d_length)] = d_buffer[Turned(m_oPtr + (j - 1), d_length)]
         /\ DOMAIN d_buffer' = 0 .. d_length - 1
<1> DEFINE Here(i, k) == D!Advance(m_iPtr, k - 1) = i
<1>1. /\ d_length \in Nat \ {0} /\ m_iPtr \in 0 .. d_length - 1 /\ m_oPtr \in 0 .. d_length - 1
      /\ m \in 0 .. d_length - 1 /\ n <= d_length - m
  <2>1. Len(block) <= D!freeSpace
    BY Zenon DEF D!Stored
  <2>2. n <= d_length - m
    BY <2>1, DataFacts, Zenon
  <2>3. QED
    BY <2>2, DataFacts
<1>2. DOMAIN d_buffer = 0 .. d_length - 1 /\ m = Fill(m_oPtr, m_iPtr, d_length)
  BY Zenon DEF DataInv
<1>3. d_buffer' = [i \in 0 .. d_length - 1 |->
        IF \E k \in 1 .. n : Here(i, k) THEN block[CHOOSE k \in 1 .. n : Here(i, k)] ELSE d_buffer[i]]
  BY <1>2, Zenon DEF D!Stored
<1>4. \A k \in 1 .. n : /\ D!Advance(m_iPtr, k - 1) = Turned(m_iPtr + (k - 1), d_length)
                        /\ Turned(m_iPtr + (k - 1), d_length) \in 0 .. d_length - 1
  <2>1. \A k \in 1 .. n : k - 1 \in 0 .. d_length
    BY <1>1
  <2>2. QED
    BY <1>1, <2>1, AdvanceTurns, Zenon
<1>5. \A i, k : k \in 1 .. n => (Here(i, k) <=> Turned(m_iPtr + (k - 1), d_length) = i)
  BY <1>4, Zenon
<1> HIDE DEF Here
<1>6. ASSUME NEW k \in 1 .. n PROVE d_buffer'[Turned(m_iPtr + (k - 1), d_length)] = block[k]
  <2> DEFINE p == Turned(m_iPtr + (k - 1), d_length)
  <2> DEFINE c == CHOOSE l \in 1 .. n : Here(p, l)
  <2>1. Here(p, k) /\ p \in 0 .. d_length - 1
    BY <1>4, <1>5, Zenon
  <2>2. c \in 1 .. n /\ Here(p, c)
    BY <2>1, Zenon
  <2>3. Turned(m_iPtr + (c - 1), d_length) = Turned(m_iPtr + (k - 1), d_length)
    BY <1>5, <2>2, Zenon
  <2> HIDE DEF c
  <2>4. c - 1 \in 0 .. d_length - 1 /\ k - 1 \in 0 .. d_length - 1
    BY <1>1, <2>2
  <2>5. c - 1 = k - 1
    BY <1>1, <2>3, <2>4, TurnedApart, Zenon
  <2>6. c = k
    BY <2>2, <2>5
  <2>7. d_buffer'[p] = block[c]
    BY <1>3, <2>1, Zenon DEF c
  <2>8. QED
    BY <2>6, <2>7, Zenon
<1>7. ASSUME NEW j \in 1 .. m
      PROVE  d_buffer'[Turned(m_oPtr + (j - 1), d_length)] = d_buffer[Turned(m_oPtr + (j - 1), d_length)]
  <2> DEFINE p == Turned(m_oPtr + (j - 1), d_length)
  <2>1. p \in 0 .. d_length - 1
    BY <1>1 DEF Turned
  <2>2. ASSUME NEW k \in 1 .. n, Here(p, k) PROVE FALSE
    <3>1. Turned(m_iPtr + (k - 1), d_length) = p
      BY <1>5, <2>2, Zenon
    <3>2. k - 1 \in 0 .. d_length - m /\ m + (k - 1) < d_length
      BY <1>1
    <3>3. Turned(m_iPtr + (k - 1), d_length) = Turned(m_oPtr + (m + (k - 1)), d_length)
      BY <1>1, <1>2, <3>2, FillTurned
    <3>4. m + (k - 1) \in 0 .. d_length - 1 /\ j - 1 \in 0 .. d_length - 1
      BY <1>1, <3>2
    <3>5. m + (k - 1) = j - 1
      BY <1>1, <3>1, <3>3, <3>4, TurnedApart, Zenon
    <3>6. QED
      BY <3>5
  <2>3. QED
    BY <1>3, <2>1, <2>2, Zenon
<1>8. QED
  BY <1>3, <1>6, <1>7, Zenon

LEMMA DataStored == ASSUME DataInv, NEW block \in D!Blocks, D!Stored(block) PROVE DataInv'
<1>1. PICK m \in Nat : m = Len(content)
  BY DataFacts
<1>2. PICK n \in Nat : n = Len(block)
  BY BlocksAreSequences
<1>3. /\ d_length \in Nat \ {0} /\ m_iPtr \in 0 .. d_length - 1 /\ m_oPtr \in 0 .. d_length - 1
      /\ m \in 0 .. d_length - 1 /\ D!freeSpace = d_length - m /\ d_length \in Lengths
      /\ m = Fill(m_oPtr, m_iPtr, d_length) /\ content \in Seq(Items)
  <2>1. d_length \in Lengths /\ m = Fill(m_oPtr, m_iPtr, d_length) /\ content \in Seq(Items)
    BY <1>1, Zenon DEF DataInv
  <2>2. QED
    BY <1>1, <2>1, DataFacts
<1>4. /\ n <= d_length - m /\ m_iPtr' = D!Advance(m_iPtr, n) /\ UNCHANGED <<d_length, m_oPtr>>
      /\ content' = IF D!hasSpace(n) \/ block = <<>> THEN content \o block ELSE <<>>
  BY <1>2, <1>3, Zenon DEF D!Stored
<1>5. m_iPtr' = Turned(m_iPtr + n, d_length) /\ m_iPtr' \in 0 .. d_length - 1
  <2>1. n \in 0 .. d_length
    BY <1>3, <1>4
  <2>2. QED
    BY <1>3, <1>4, <2>1, AdvanceTurns, Zenon
<1>6. block \in Seq(Items) /\ (block = <<>> <=> n = 0)
  BY <1>2, BlocksAreSequences, EmptySeq
<1>7. D!hasSpace(n) <=> m + n < d_length
  BY <1>3 DEF D!hasSpace
<1>8. n \in 0 .. d_length - Fill(m_oPtr, m_iPtr, d_length)
  BY <1>3, <1>4
<1>9. Turned(m_iPtr + n, d_length) = IF m + n < d_length THEN Turned(m_oPtr + (m + n), d_length) ELSE m_oPtr
  BY <1>3, <1>8, FillTurned, Zenon
<1>10. CASE m + n < d_length
  <2>1. content' = content \o block
    BY <1>4, <1>7, <1>10, Zenon
  <2>2. /\ content \o block \in Seq(Items) /\ Len(content \o block) = m + n
        /\ \A k \in 1 .. m : (content \o block)[k] = content[k]
        /\ \A k \in 1 .. n : (content \o block)[m + k] = block[k]
    <3>1. /\ content \o block \in Seq(Items) /\ Len(content \o block) = m + n
          /\ \A k \in 1 .. m + n : (content \o block)[k] = IF k <= m THEN content[k] ELSE block[k - m]
      <4>1. /\ content \o block \in Seq(Items) /\ Len(content \o block) = Len(content) + Len(block)
            /\ \A k \in 1 .. Len(content) + Len(block) :
                 (content \o block)[k] = IF k <= Len(content) THEN content[k] ELSE block[k - Len(content)]
        BY <1>3, <1>6, ConcatProperties, Zenon
      <4>2. Len(content) = m /\ Len(block) = n
        BY <1>1, <1>2
      <4>3. QED
        BY ONLY <4>1, <4>2, Zenon
    <3>2. /\ \A k \in 1 .. m : k \in 1 .. m + n /\ k <= m
          /\ \A k \in 1 .. n : m + k \in 1 .. m + n /\ ~(m + k <= m) /\ (m + k) - m = k
      OBVIOUS
    <3>3. QED
      BY <3>1, <3>2, Zenon
  <2>3. m + n = Fill(m_oPtr, Turned(m_iPtr + n, d_length), d_length)
    BY <1>3, <1>9, <1>10 DEF Fill, Turned
  <2>4. HasFrom(d_buffer', m_oPtr, d_length, content \o block)
    <3>1. SUFFICES ASSUME NEW k \in 1 .. m + n
                   PROVE  (content \o block)[k] = d_buffer'[Turned(m_oPtr + (k - 1), d_length)]
      BY <2>2, Zenon DEF HasFrom
    <3>2. CASE k \in 1 .. m
      <4>1. content[k] = d_buffer[Turned(m_oPtr + (k - 1), d_length)]
        BY <1>1, <3>2, Zenon DEF DataInv, HasFrom
      <4>2. QED
        BY <1>1, <1>2, <2>2, <3>2, <4>1, StoredPlaces, Zenon
    <3>3. CASE k \notin 1 .. m
      <4>1. PICK j \in 1 .. n : k = m + j
        <5>1. k - m \in 1 .. n /\ k = m + (k - m)
          BY <3>3
        <5>2. QED
          BY <5>1, Zenon
      <4>2. d_buffer'[Turned(m_iPtr + (j - 1), d_length)] = block[j]
        BY <1>1, <1>2, StoredPlaces, Zenon
      <4>3. j - 1 \in 0 .. d_length - Fill(m_oPtr, m_iPtr, d_length) /\ m + (j - 1) < d_length
        BY <1>3, <1>4
      <4>4. Turned(m_iPtr + (j - 1), d_length) = Turned(m_oPtr + (m + (j - 1)), d_length)
        BY <1>3, <4>3, FillTurned
      <4>5. m + (j - 1) = k - 1
        BY <4>1
      <4>6. QED
        BY <2>2, <4>1, <4>2, <4>4, <4>5, Zenon
    <3>4. QED
      BY <3>2, <3>3
  <2>5. QED
    BY <1>1, <1>2, <1>3, <1>4, <1>5, <2>1, <2>2, <2>3, <2>4, StoredPlaces, Zenon DEF DataInv
<1>11. CASE ~(m + n < d_length)
  <2>1. n # 0
    BY <1>3, <1>11
  <2>2. content' = <<>> /\ m_iPtr' = m_oPtr
    BY <1>4, <1>5, <1>6, <1>7, <1>9, <1>11, <2>1, Zenon
  <2>3. <<>> \in Seq(Items) /\ Len(<<>>) = 0
    BY EmptySeq
  <2>4. Fill(m_oPtr, m_oPtr, d_length) = 0 /\ HasFrom(d_buffer', m_oPtr, d_length, <<>>)
    BY <1>3, <2>3 DEF Fill, HasFrom
  <2>5. QED
    BY <1>1, <1>2, <1>3, <1>4, <1>5, <2>2, <2>3, <2>4, StoredPlaces, Zenon DEF DataInv
<1>12. QED
  BY <1>10, <1>11

LEMMA DataInit == ASSUME D!Init PROVE DataInv
<1>1. d_length \in Nat \ {0} /\ d_length \in Lengths
  BY DataConstants DEF D!Init
<1>2. /\ d_buffer = D!Cleared(d_length) /\ m_iPtr = 0 /\ m_oPtr = 0 /\ content = <<>>
  BY Zenon DEF D!Init
<1>3. <<>> \in Seq(Items) /\ Len(<<>>) = 0
  BY EmptySeq
<1>4. DOMAIN D!Cleared(d_length) = 0 .. d_length - 1 /\ 0 \in 0 .. d_length - 1 /\ Fill(0, 0, d_length) = 0
  BY <1>1 DEF D!Cleared, Fill
<1>5. HasFrom(D!Cleared(d_length), 0, d_length, <<>>)
  BY <1>3 DEF HasFrom
<1>6. QED
  BY <1>1, <1>2, <1>3, <1>4, <1>5, Zenon DEF DataInv

LEMMA DataStep == ASSUME DataInv, D!Next PROVE DataInv'
<1>1. \A n \in 0 .. MaxBlock : n \in Nat
  BY DataConstants
<1>2. QED
  BY <1>1, DataOverflow, DataStored, DataGet, DataPeek, DataClear, DataResize, Zenon DEF D!Next, D!addData

-----------------------------------------------------------------------------
(* The library: one part moves, the others stay as they were. *)

LibraryInv == RxInv /\ ContainerInv /\ PoolInv /\ DataInv

LEMMA RxSame == ASSUME RxInv, UNCHANGED rxVars PROVE RxInv'
<1>1. UNCHANGED <<r_samples, r_head, r_tail, r_full, r_overflow, put, get, left, sample, next, due, stored, order>>
  BY Zenon DEF rxVars
<1>2. R!TypeOK' /\ Written' = Written /\ (Asking' <=> Asking) /\ (Getting' <=> Getting)
  BY <1>1, Zenon DEF RxInv, R!TypeOK, Written, Asking, Getting
<1>3. RxApart' <=> RxApart
  BY <1>1, <1>2, Zenon DEF RxApart
<1>4. QED
  BY <1>1, <1>2, <1>3, Zenon DEF RxInv

LEMMA ContainerSame == ASSUME ContainerInv, UNCHANGED containerVars PROVE ContainerInv'
<1>1. UNCHANGED <<kind, owner, readers, m_locked, pc, call, calls>>
  BY Zenon DEF containerVars
<1>2. C!TypeOK' /\ \A t \in Thread : C!Alone(t)' <=> C!Alone(t)
  BY <1>1, Zenon DEF ContainerInv, C!TypeOK, C!Alone
<1>3. QED
  BY <1>1, <1>2, Zenon DEF ContainerInv

LEMMA PoolSame == ASSUME PoolInv, UNCHANGED poolVars PROVE PoolInv'
  BY Zenon DEF PoolInv, poolVars

LEMMA DataSame == ASSUME DataInv, UNCHANGED dataVars PROVE DataInv'
  BY Zenon DEF DataInv, dataVars

\* A step of the library is one of its parts: the others stay as they were.
LEMMA LibrarySteps ==
  ASSUME [LibraryNext]_libraryVars
  PROVE  /\ part' = part
         /\ (part = "tx" /\ Next) \/ UNCHANGED ringVars
         /\ (part = "rx" /\ R!Next) \/ UNCHANGED rxVars
         /\ (part = "container" /\ C!Next) \/ UNCHANGED containerVars
         /\ (part = "pool" /\ P!Next) \/ UNCHANGED poolVars
         /\ (part = "data" /\ D!Next) \/ UNCHANGED dataVars
<1>1. CASE NextTx
  BY <1>1, Zenon DEF NextTx
<1>2. CASE NextRx
  BY <1>2, Zenon DEF NextRx
<1>3. CASE NextContainer
  BY <1>3, Zenon DEF NextContainer, NotContainer
<1>4. CASE NextPool
  BY <1>4, Zenon DEF NextPool, NotPool
<1>5. CASE NextTimer
  BY <1>5, Zenon DEF NextTimer
<1>6. CASE NextData
  BY <1>6, Zenon DEF NextData
<1>7. CASE NextChecksum \/ NextBits \/ NextSlotType \/ NextSymbols
  BY <1>7, Zenon DEF NextChecksum, NextBits, NextSlotType, NextSymbols, NotFrame
<1>8. CASE UNCHANGED libraryVars
  BY <1>8, Zenon DEF libraryVars
<1>9. QED
  BY <1>1, <1>2, <1>3, <1>4, <1>5, <1>6, <1>7, <1>8, Zenon DEF LibraryNext

\* Whatever the part, its invariant holds, and those of the parts that rest.
THEOREM LibraryInvariant == LibrarySpec => []LibraryInv
<1>1. LibraryInit => LibraryInv
  BY RxInit, ContainerInit, PoolInit, DataInit, Zenon DEF LibraryInit, LibraryInv
<1>2. LibraryInv /\ [LibraryNext]_libraryVars => LibraryInv'
  BY LibrarySteps, RxStep, ContainerStep, PoolStep, DataStep, RxSame, ContainerSame, PoolSame, DataSame, Zenon
  DEF LibraryInv
<1>3. QED
  BY <1>1, <1>2, PTL DEF LibrarySpec

\* To the transmit ring a behaviour of the library is one of its calls.
LEMMA LibraryRing == LibrarySpec => Spec
<1>1. LibraryInit => Init
  BY Zenon DEF LibraryInit
<1>2. [LibraryNext]_libraryVars => [Next]_ringVars
  BY LibrarySteps, Zenon
<1>3. QED
  BY <1>1, <1>2, PTL DEF LibrarySpec, Spec

\* No access of put() and get() of SampleBuffer, no call of RingBuffer, ThreadPool or a
\* container of concurrent takes an index outside the arrays, a flag or a thread
\* outside its states, or makes more workers than twice m_maxWorkerCnt.
THEOREM LibraryTypes == LibrarySpec => []AllTypesOK
<1>1. TypeOK /\ LibraryInv => AllTypesOK
  <2> SUFFICES ASSUME TypeOK, LibraryInv PROVE AllTypesOK
    OBVIOUS
  <2>1. R!TypeOK /\ C!TypeOK
    BY Zenon DEF LibraryInv, RxInv, ContainerInv
  <2>2. D!TypeOK /\ P!TypeOK
    BY DataKeeps, PoolKeeps, Zenon DEF LibraryInv
  <2>3. QED
    BY <2>1, <2>2, Zenon DEF AllTypesOK
<1>2. QED
  BY <1>1, LibraryInvariant, LibraryRing, RingTypes, PTL

\* RingBuffer keeps what addData() stored, in order and once, until get() takes it,
\* clear(), resize() or a block too long ends it; ThreadPool takes the tasks of enqueue()
\* in order, each once; and of two threads in a container of concurrent none edits it
\* while the other edits or walks it under the lock.
THEOREM LibraryQueues == LibrarySpec => []QueuesKeepOrder
<1>1. LibraryInv => QueuesKeepOrder
  BY DataKeeps, PoolKeeps, ContainerApart, Zenon DEF LibraryInv, QueuesKeepOrder
<1>2. QED
  BY <1>1, LibraryInvariant, PTL

\* IO::m_rxBuffer, whose reader takes no lock: while the ring was never full between two
\* accesses, SampleBuffer::get() gives every sample of a block once and in order.
THEOREM RxWholeWhileApart == LibrarySpec => WholeWhileApart
<1>1. LibraryInv /\ [LibraryNext]_libraryVars
        => [order = "kept" /\ part = "rx" /\ R!Get => order' # "lost"]_rxVars
  BY LibrarySteps, RxStep, Zenon DEF LibraryInv
<1>2. QED
  BY <1>1, LibraryInvariant, PTL DEF LibrarySpec, WholeWhileApart

\* And what was proved of the transmit ring holds in the library too: whoever calls put()
\* and get() of SampleBuffer under m_txLock sees a bounded queue.
COROLLARY LibraryFifo == LibrarySpec => FifoRefinement
  BY LibraryRing, RingImplementsFifo, PTL

\* IO::getSpace(), which reads without m_txLock, promises no more than fits.
COROLLARY LibrarySpace == Length < 32768 => (LibrarySpec => []UnlockedSpaceSafe)
<1> SUFFICES ASSUME Length < 32768 PROVE LibrarySpec => []UnlockedSpaceSafe
  OBVIOUS
<1>1. Spec => []UnlockedSpaceSafe
  BY UnlockedSpace
<1>2. QED
  BY <1>1, LibraryRing, PTL

=============================================================================
