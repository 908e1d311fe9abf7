---------------------------- MODULE RxChannel_proofs ---------------------------
(***************************************************************************)
(* Proofs about RxChannel, for every length of its queues and rings, every *)
(* delay of the marks, and every way a batch of samples is lost.           *)
(*                                                                         *)
(* Numbers of samples only grow on the way from the queues to the blocks:  *)
(* there are three of them such that the ring of samples lies between the  *)
(* first two, the burst of the rx thread between the next two, the queues  *)
(* above, and the last block below all.  The ring of signal strengths,     *)
(* which may be a sample longer or shorter, has at each place the strength *)
(* of no later a sample than the ring of samples.                          *)
(***************************************************************************)
EXTENDS RxChannel, FiniteSetTheorems, SequenceTheorems, WellFoundedInduction, TLAPS

\* Numbers have a least one, and finitely many have a greatest.
LEMMA LeastOf ==
  ASSUME NEW numbers \in SUBSET Nat, numbers # {}
  PROVE  \E x \in numbers : \A y \in numbers : x <= y
<1>1. \E x \in numbers : \A y \in numbers : ~(<<y, x>> \in OpToRel(<, Nat))
  BY WFMin, NatLessThanWellFounded
<1>2. PICK x \in numbers : \A y \in numbers : ~(<<y, x>> \in OpToRel(<, Nat))
  BY <1>1
<1>3. ASSUME NEW y \in numbers PROVE x <= y
  <2>1. x \in Nat /\ y \in Nat
    OBVIOUS
  <2>2. y < x => <<y, x>> \in OpToRel(<, Nat)
    BY <2>1 DEF OpToRel
  <2>3. ~(<<y, x>> \in OpToRel(<, Nat))
    BY <1>2
  <2>4. ~(y < x)
    BY <2>2, <2>3
  <2>5. QED
    BY <2>1, <2>4
<1>4. QED
  BY <1>3

HasGreatest(numbers) == \E x \in numbers : \A y \in numbers : x >= y

\* By the least number of elements of a set of numbers that has no greatest.
LEMMA GreatestOf ==
  ASSUME NEW numbers \in SUBSET Nat, numbers # {}, IsFiniteSet(numbers)
  PROVE  HasGreatest(numbers)
<1> DEFINE Without(some) == some # {} /\ IsFiniteSet(some) /\ ~HasGreatest(some)
           Bad == {n \in Nat : \E some \in SUBSET Nat : Without(some) /\ Cardinality(some) = n}
<1>1. SUFFICES ASSUME Bad # {} PROVE FALSE
  <2>1. ASSUME ~HasGreatest(numbers) PROVE Bad # {}
    <3>1. Cardinality(numbers) \in Nat /\ Without(numbers)
      BY <2>1, FS_CardinalityType
    <3>2. Cardinality(numbers) \in Bad
      BY <3>1
    <3>3. QED
      BY <3>2
  <2>2. QED
    BY <2>1
<1>2. PICK n \in Bad : \A k \in Bad : n <= k
  <2>1. Bad \in SUBSET Nat
    OBVIOUS
  <2> HIDE DEF Bad
  <2>2. QED
    BY <1>1, <2>1, LeastOf
<1>3. PICK some \in SUBSET Nat : Without(some) /\ Cardinality(some) = n
  BY <1>2
<1>4. PICK x \in some : TRUE
  BY <1>3
<1> DEFINE Rest == some \ {x}
<1>5. n \in Nat /\ IsFiniteSet(Rest) /\ Cardinality(Rest) = n - 1
  BY <1>2, <1>3, <1>4, FS_RemoveElement
<1>6. CASE Rest = {}
  <2>1. x \in Nat /\ some = {x}
    BY <1>4, <1>6
  <2>2. x \in some /\ \A y \in some : x >= y
    BY <2>1
  <2>3. QED
    BY <1>3, <2>2 DEF HasGreatest
<1>7. CASE Rest # {}
  <2>1. Cardinality(Rest) \in Nat
    BY <1>5, FS_CardinalityType
  <2>2. HasGreatest(Rest)
    <3>1. ASSUME ~HasGreatest(Rest) PROVE FALSE
      <4>1. Rest \in SUBSET Nat /\ Without(Rest)
        BY <1>5, <1>7, <3>1
      <4>2. n - 1 \in Bad
        BY <1>5, <2>1, <4>1
      <4>3. n <= n - 1
        BY <1>2, <4>2
      <4>4. QED
        BY <1>5, <4>3
    <3>2. QED
      BY <3>1
  <2>3. PICK p \in Rest : \A y \in Rest : p >= y
    BY <2>2 DEF HasGreatest
  <2>4. p \in Nat /\ x \in Nat /\ p \in some
    OBVIOUS
  <2>5. CASE x >= p
    <3>1. \A y \in some : x >= y
      BY <2>3, <2>4, <2>5
    <3>2. QED
      BY <1>3, <3>1 DEF HasGreatest
  <2>6. CASE ~(x >= p)
    <3>1. \A y \in some : p >= y
      BY <2>3, <2>4, <2>6
    <3>2. QED
      BY <1>3, <2>4, <3>1 DEF HasGreatest
  <2>7. QED
    BY <2>5, <2>6
<1>8. QED
  BY <1>6, <1>7

-----------------------------------------------------------------------------

\* A queue without its first k elements.
IsRest(rest, queue, k) ==
  /\ Len(rest) = Len(queue) - k
  /\ \A i \in 1 .. Len(queue) - k : rest[i] = queue[k + i]

LEMMA RestIs ==
  ASSUME NEW X, NEW queue \in Seq(X), NEW k \in 0 .. Len(queue)
  PROVE  /\ SubSeq(queue, k + 1, Len(queue)) \in Seq(X)
         /\ IsRest(SubSeq(queue, k + 1, Len(queue)), queue, k)
<1> DEFINE rest == SubSeq(queue, k + 1, Len(queue))
<1>1. Len(queue) \in Nat /\ k \in Nat /\ k <= Len(queue)
  BY LenProperties
<1>2. PICK l \in Nat : l = Len(queue) /\ k <= l
  BY <1>1
<1>3. /\ rest \in Seq(X) /\ Len(rest) = l - k
      /\ \A i \in 1 .. l - k : rest[i] = queue[k + i]
  BY <1>2
<1>4. QED
  BY <1>2, <1>3 DEF IsRest

\* What has to go for at most n elements to stay.
Excess(queue, n) == IF Len(queue) > n THEN Len(queue) - n ELSE 0

\* The element at i of what is left is one of the queue.
LEMMA InRest ==
  ASSUME NEW m \in Nat, NEW k \in Nat, k <= m, NEW i \in 1 .. m - k
  PROVE  k + i \in 1 .. m /\ i > 0 /\ i \in Nat
  OBVIOUS

LEMMA LaterPlace ==
  ASSUME NEW p \in Nat, NEW i \in Nat, i > 0, NEW k \in Nat, k <= p
  PROVE  k < p + i
  OBVIOUS

LEMMA AreNumbers ==
  ASSUME NEW queue \in Seq(Nat), NEW l, l = Len(queue)
  PROVE  \A i \in 1 .. l : queue[i] \in Nat
  OBVIOUS

LEMMA NewestIs ==
  ASSUME NEW X, NEW queue \in Seq(X), NEW n \in Nat
  PROVE  /\ Excess(queue, n) \in 0 .. Len(queue)
         /\ Newest(queue, n) \in Seq(X) /\ IsRest(Newest(queue, n), queue, Excess(queue, n))
         /\ Len(Newest(queue, n)) \in Nat /\ Len(Newest(queue, n)) <= n
<1>1. PICK l \in Nat : l = Len(queue)
  BY LenProperties
<1>2. CASE l > n
  <2>1. Excess(queue, n) = l - n /\ l - n \in 0 .. Len(queue)
    BY <1>1, <1>2 DEF Excess
  <2>2. Newest(queue, n) = SubSeq(queue, (l - n) + 1, Len(queue))
    BY <1>1, <1>2 DEF Newest
  <2>3. Newest(queue, n) \in Seq(X) /\ IsRest(Newest(queue, n), queue, l - n)
    BY <2>1, <2>2, RestIs
  <2>4. Len(Newest(queue, n)) = n
    BY <1>1, <2>3 DEF IsRest
  <2>5. QED
    BY <2>1, <2>3, <2>4
<1>3. CASE l <= n
  <2>1. Excess(queue, n) = 0 /\ Newest(queue, n) = queue
    BY <1>1, <1>3 DEF Excess, Newest
  <2>2. IsRest(queue, queue, 0)
    BY <1>1 DEF IsRest
  <2>3. QED
    BY <1>1, <1>3, <2>1, <2>2
<1>4. QED
  BY <1>1, <1>2, <1>3

LEMMA Joined ==
  ASSUME NEW X, NEW queue \in Seq(X), NEW more \in Seq(X)
  PROVE  /\ queue \o more \in Seq(X) /\ Len(queue \o more) = Len(queue) + Len(more)
         /\ \A i \in 1 .. Len(queue) : (queue \o more)[i] = queue[i]
         /\ \A i \in 1 .. Len(more) : (queue \o more)[Len(queue) + i] = more[i]
<1>1. Len(queue) \in Nat /\ Len(more) \in Nat
  BY LenProperties
<1>2. PICK l \in Nat, m \in Nat : l = Len(queue) /\ m = Len(more)
  BY <1>1
<1>3. queue \o more \in Seq(X) /\ Len(queue \o more) = l + m
  BY <1>2
<1>4. \A i \in 1 .. l : (queue \o more)[i] = queue[i]
  BY <1>2
<1>5. \A i \in 1 .. m : (queue \o more)[l + i] = more[i]
  BY <1>2
<1>6. QED
  BY <1>2, <1>3, <1>4, <1>5

LEMMA JoinedIs ==
  ASSUME NEW X, NEW queue \in Seq(X), NEW more \in Seq(X), NEW all, all = queue \o more
  PROVE  /\ all \in Seq(X) /\ Len(all) = Len(queue) + Len(more)
         /\ \A i \in 1 .. Len(queue) : all[i] = queue[i]
         /\ \A i \in 1 .. Len(more) : all[Len(queue) + i] = more[i]
  BY Joined

\* One sequence of numbers is another and then more of them.
Joins(all, queue, more) ==
  /\ Len(all) = Len(queue) + Len(more)
  /\ \A i \in 1 .. Len(queue) : all[i] = queue[i]
  /\ \A i \in 1 .. Len(more) : all[Len(queue) + i] = more[i]

LEMMA QueueJoins ==
  ASSUME NEW queue \in Seq(Nat), NEW more \in Seq(Nat), NEW all, all = queue \o more
  PROVE  all \in Seq(Nat) /\ Joins(all, queue, more)
<1>1. all \in Seq(Nat)
  BY JoinedIs
<1>2. Len(all) = Len(queue) + Len(more)
  BY JoinedIs
<1>3. \A i \in 1 .. Len(queue) : all[i] = queue[i]
  BY JoinedIs
<1>4. \A i \in 1 .. Len(more) : all[Len(queue) + i] = more[i]
  BY JoinedIs
<1>5. QED
  BY <1>1, <1>2, <1>3, <1>4 DEF Joins

-----------------------------------------------------------------------------

\* The three queues hold the samples above lo in order, each with the mark it was given
\* and with its own strength.
Queued(qs, qc, qr, lo, hi, g) ==
  /\ qs \in Seq(Nat) /\ qc \in Seq(Nat) /\ qr \in Seq(Nat) /\ Len(qc) = Len(qs) /\ Len(qr) = Len(qs)
  /\ \A i \in 1 .. Len(qs) : lo < qs[i] /\ qs[i] <= hi /\ qc[i] = g[qs[i]] /\ qr[i] = qs[i]
  /\ \A i, j \in 1 .. Len(qs) : i < j => qs[i] < qs[j]

\* So does the burst of the rx thread.
Burst == [sample : Nat, control : Nat, rssi : Nat]

Taken(burst, lo, hi, g) ==
  /\ burst \in Seq(Burst)
  /\ \A i \in 1 .. Len(burst) :
       /\ lo < burst[i].sample /\ burst[i].sample <= hi
       /\ burst[i].control = g[burst[i].sample] /\ burst[i].rssi = burst[i].sample
  /\ \A i, j \in 1 .. Len(burst) : i < j => burst[i].sample < burst[j].sample

\* And the ring of samples.
Pair == [sample : Nat, control : Nat]

Held(ring, lo, hi, g) ==
  /\ ring \in Seq(Pair) /\ Len(ring) <= RingLen
  /\ \A i \in 1 .. Len(ring) :
       lo < ring[i].sample /\ ring[i].sample <= hi /\ ring[i].control = g[ring[i].sample]
  /\ \A i, j \in 1 .. Len(ring) : i < j => ring[i].sample < ring[j].sample

\* The ring of strengths, and the strength that is put next.
Measured(strengths, put, ring, hi) ==
  /\ strengths \in Seq(Nat) /\ Len(strengths) <= RingLen /\ put \in Nat /\ put <= hi
  /\ \A i \in 1 .. Len(strengths) :
       /\ strengths[i] # 0 /\ strengths[i] <= hi
       /\ i <= Len(ring) => strengths[i] <= ring[i].sample
  /\ put = 0 => Len(ring) <= Len(strengths)
  /\ put # 0 => /\ Len(ring) <= Len(strengths) + 1
                /\ Len(ring) = Len(strengths) + 1 => put <= ring[Len(ring)].sample

\* More samples come, and with them marks that were not there.
LEMMA QueuedLater ==
  ASSUME NEW qs, NEW qc, NEW qr, NEW lo \in Nat, NEW hi \in Nat, NEW top \in Nat, hi <= top, NEW g, NEW g2,
         Queued(qs, qc, qr, lo, hi, g), \A s \in 1 .. hi : g2[s] = g[s]
  PROVE  Queued(qs, qc, qr, lo, top, g2)
<1>1. ASSUME NEW i \in 1 .. Len(qs)
      PROVE  lo < qs[i] /\ qs[i] <= top /\ qc[i] = g2[qs[i]] /\ qr[i] = qs[i]
  <2>1. qs[i] \in Nat /\ lo < qs[i] /\ qs[i] <= hi /\ qc[i] = g[qs[i]] /\ qr[i] = qs[i]
    BY DEF Queued
  <2>2. qs[i] \in 1 .. hi
    BY <2>1
  <2>3. g2[qs[i]] = g[qs[i]]
    BY <2>2
  <2>4. QED
    BY <2>1, <2>3
<1>2. QED
  BY <1>1 DEF Queued

LEMMA TakenLater ==
  ASSUME NEW burst, NEW lo \in Nat, NEW hi \in Nat, NEW top \in Nat, hi <= top, NEW g, NEW g2,
         Taken(burst, lo, hi, g), \A s \in 1 .. hi : g2[s] = g[s]
  PROVE  Taken(burst, lo, top, g2)
<1>1. ASSUME NEW i \in 1 .. Len(burst)
      PROVE  /\ lo < burst[i].sample /\ burst[i].sample <= top
             /\ burst[i].control = g2[burst[i].sample] /\ burst[i].rssi = burst[i].sample
  <2>1. /\ burst[i] \in Burst /\ lo < burst[i].sample /\ burst[i].sample <= hi
        /\ burst[i].control = g[burst[i].sample] /\ burst[i].rssi = burst[i].sample
    BY DEF Taken
  <2>2. burst[i].sample \in 1 .. hi
    BY <2>1 DEF Burst
  <2>3. g2[burst[i].sample] = g[burst[i].sample]
    BY <2>2
  <2>4. QED
    BY <2>1, <2>2, <2>3
<1>2. QED
  BY <1>1 DEF Taken

LEMMA HeldLater ==
  ASSUME NEW ring, NEW lo \in Nat, NEW hi \in Nat, NEW top \in Nat, hi <= top, NEW g, NEW g2,
         Held(ring, lo, hi, g), \A s \in 1 .. hi : g2[s] = g[s]
  PROVE  Held(ring, lo, top, g2)
<1>1. ASSUME NEW i \in 1 .. Len(ring)
      PROVE  lo < ring[i].sample /\ ring[i].sample <= top /\ ring[i].control = g2[ring[i].sample]
  <2>1. /\ ring[i] \in Pair /\ lo < ring[i].sample /\ ring[i].sample <= hi
        /\ ring[i].control = g[ring[i].sample]
    BY DEF Held
  <2>2. ring[i].sample \in 1 .. hi
    BY <2>1 DEF Pair
  <2>3. g2[ring[i].sample] = g[ring[i].sample]
    BY <2>2
  <2>4. QED
    BY <2>1, <2>2, <2>3
<1>2. QED
  BY <1>1 DEF Held

\* The oldest go, from all three alike.
LEMMA QueuedRest ==
  ASSUME NEW qs, NEW qc, NEW qr, NEW lo \in Nat, NEW hi \in Nat, NEW g, Queued(qs, qc, qr, lo, hi, g),
         NEW k \in 0 .. Len(qs), NEW rs \in Seq(Nat), NEW rc \in Seq(Nat), NEW rr \in Seq(Nat),
         IsRest(rs, qs, k), IsRest(rc, qc, k), IsRest(rr, qr, k),
         NEW low \in Nat, k = 0 => low = lo, k # 0 => low = qs[k]
  PROVE  Queued(rs, rc, rr, low, hi, g)
<1>1. PICK l \in Nat : l = Len(qs) /\ k <= l /\ k \in Nat
  BY LenProperties DEF Queued
<1>2. /\ Len(rs) = l - k /\ Len(rc) = l - k /\ Len(rr) = l - k
      /\ \A i \in 1 .. l - k : rs[i] = qs[k + i] /\ rc[i] = qc[k + i] /\ rr[i] = qr[k + i]
  BY <1>1 DEF IsRest, Queued
<1>3. /\ \A i \in 1 .. l : /\ qs[i] \in Nat /\ lo < qs[i] /\ qs[i] <= hi
                           /\ qc[i] = g[qs[i]] /\ qr[i] = qs[i]
      /\ \A i, j \in 1 .. l : i < j => qs[i] < qs[j]
  <2>1. \A i \in 1 .. l : qs[i] \in Nat
    BY <1>1, AreNumbers, Zenon DEF Queued
  <2>2. \A i \in 1 .. l : lo < qs[i] /\ qs[i] <= hi /\ qc[i] = g[qs[i]] /\ qr[i] = qs[i]
    BY <1>1, Zenon DEF Queued
  <2>3. \A i, j \in 1 .. l : i < j => qs[i] < qs[j]
    BY <1>1, Zenon DEF Queued
  <2>4. QED
    BY <2>1, <2>2, <2>3, Zenon
<1>4. ASSUME NEW i \in 1 .. l - k
      PROVE  low < rs[i] /\ rs[i] <= hi /\ rc[i] = g[rs[i]] /\ rr[i] = rs[i]
  <2>1. k + i \in 1 .. l /\ k < k + i /\ (k # 0 => k \in 1 .. l)
    BY <1>1
  <2>2. /\ qs[k + i] \in Nat /\ lo < qs[k + i] /\ qs[k + i] <= hi
        /\ qc[k + i] = g[qs[k + i]] /\ qr[k + i] = qs[k + i]
    BY <1>3, <2>1
  <2>3. k # 0 => qs[k] < qs[k + i]
    BY <1>3, <2>1
  <2>4. low < qs[k + i]
    BY <2>2, <2>3
  <2>5. QED
    BY <1>2, <2>2, <2>4
<1>5. ASSUME NEW i \in 1 .. l - k, NEW j \in 1 .. l - k, i < j PROVE rs[i] < rs[j]
  <2>1. k + i \in 1 .. l /\ k + j \in 1 .. l /\ k + i < k + j
    BY <1>1, <1>5
  <2>2. QED
    BY <1>2, <1>3, <2>1
<1>6. QED
  BY <1>2, <1>4, <1>5 DEF Queued
-----------------------------------------------------------------------------

\* The marks that wait: each was sent before the ones after it and after all that were
\* given, and as many samples ago as there are marks behind it.
Waiting(marks, g, s) ==
  /\ marks \in Seq(Nat)
  /\ \A i \in 1 .. Len(marks) : marks[i] # 0 => marks[i] + (Len(marks) - i) <= s
  /\ \A i, j \in 1 .. Len(marks) : i < j /\ marks[j] # 0 => marks[i] < marks[j]
  /\ \A i \in 1 .. Len(marks), r \in 1 .. Len(g) : marks[i] # 0 => g[r] < marks[i]

\* Those that were given.
InTime(g, s) ==
  /\ g \in Seq(Nat)
  /\ \A r \in 1 .. Len(g) : g[r] # 0 => g[r] + Delay <= s
  /\ \A q, r \in 1 .. Len(g) : q < r /\ g[r] # 0 => g[q] < g[r]

LEMMA ChannelConstants ==
  ASSUME RxChannelAssumption
  PROVE  /\ Delay \in Nat /\ MaxLag \in Nat /\ MaxSent \in Nat /\ MaxCame \in Nat
         /\ QueueLen \in Nat /\ QueueLen > 0 /\ PopBurst \in Nat /\ PopBurst > 0
         /\ RingLen \in Nat /\ RingLen > 0 /\ Block \in Nat /\ Block > 0 /\ Block <= RingLen
         /\ \A n \in WorkBursts : n \in Nat /\ n > 0
  BY DEF RxChannelAssumption

LEMMA WaitingRest ==
  ASSUME NEW marks, NEW g, NEW s \in Nat, Waiting(marks, g, s),
         NEW k \in 0 .. Len(marks), NEW rest \in Seq(Nat), IsRest(rest, marks, k)
  PROVE  Waiting(rest, g, s)
<1>1. PICK l \in Nat : l = Len(marks) /\ k <= l /\ k \in Nat
  BY LenProperties DEF Waiting
<1>2. Len(rest) = l - k /\ \A i \in 1 .. l - k : rest[i] = marks[k + i]
  BY <1>1 DEF IsRest
<1>3. \A i \in 1 .. l - k : k + i \in 1 .. l
  BY <1>1
<1>4. ASSUME NEW i \in 1 .. l - k, rest[i] # 0 PROVE rest[i] + ((l - k) - i) <= s
  <2>1. \A x \in 1 .. l : marks[x] \in Nat /\ (marks[x] # 0 => marks[x] + (l - x) <= s)
    BY <1>1 DEF Waiting
  <2>2. k + i \in 1 .. l /\ marks[k + i] = rest[i]
    BY <1>2, <1>3
  <2>3. rest[i] \in Nat /\ rest[i] + (l - (k + i)) <= s
    BY <1>4, <2>1, <2>2
  <2>4. QED
    BY <1>1, <2>3
<1>5. ASSUME NEW i \in 1 .. l - k, NEW j \in 1 .. l - k, i < j, rest[j] # 0 PROVE rest[i] < rest[j]
  <2>1. k + i < k + j
    BY <1>1, <1>5
  <2>2. QED
    BY <1>1, <1>2, <1>3, <1>5, <2>1 DEF Waiting
<1>6. ASSUME NEW i \in 1 .. l - k, NEW r \in 1 .. Len(g), rest[i] # 0 PROVE g[r] < rest[i]
  BY <1>1, <1>2, <1>3, <1>6 DEF Waiting
<1>7. QED
  BY <1>2, <1>4, <1>5, <1>6 DEF Waiting

\* Samples are sent, and their marks join the ones that wait.
LEMMA WaitingMore ==
  ASSUME RxChannelAssumption, NEW marks, NEW g, NEW s \in Nat, Waiting(marks, g, s), InTime(g, s),
         NEW n \in Nat, NEW more, more = [i \in 1 .. n |-> s + i]
  PROVE  Waiting(marks \o more, g, s + n)
<1>1. PICK l \in Nat : l = Len(marks)
  BY LenProperties DEF Waiting
<1>2. more \in Seq(Nat) /\ Len(more) = n /\ \A i \in 1 .. n : more[i] = s + i
  OBVIOUS
<1>3. PICK all : all = marks \o more
  OBVIOUS
<1>4. /\ all \in Seq(Nat) /\ Len(all) = l + n
      /\ \A i \in 1 .. l : all[i] = marks[i]
      /\ \A i \in 1 .. n : all[l + i] = s + i
  BY <1>1, <1>2, <1>3, Joined DEF Waiting
<1>5. ASSUME NEW i \in 1 .. l + n
      PROVE  (i \in 1 .. l /\ all[i] = marks[i]) \/ (i > l /\ all[i] = s + (i - l))
  <2>1. CASE i <= l
    BY <1>4, <2>1
  <2>2. CASE i > l
    <3>1. i - l \in 1 .. n /\ l + (i - l) = i
      BY <2>2
    <3>2. QED
      BY <1>4, <2>2, <3>1
  <2>3. QED
    BY <2>1, <2>2
<1>6. \A i \in 1 .. l : marks[i] \in Nat /\ marks[i] <= s /\ (marks[i] # 0 => marks[i] + (l - i) <= s)
  BY <1>1 DEF Waiting
<1>7. ASSUME NEW i \in 1 .. l + n, all[i] # 0 PROVE all[i] + ((l + n) - i) <= s + n
  <2>1. CASE i \in 1 .. l /\ all[i] = marks[i]
    <3>1. all[i] \in Nat /\ all[i] + (l - i) <= s
      BY <1>6, <1>7, <2>1
    <3>2. QED
      BY <3>1
  <2>2. CASE i > l /\ all[i] = s + (i - l)
    BY <2>2
  <2>3. QED
    BY <1>5, <2>1, <2>2
<1>8. ASSUME NEW i \in 1 .. l + n, NEW j \in 1 .. l + n, i < j, all[j] # 0 PROVE all[i] < all[j]
  <2>1. CASE j <= l
    <3>1. i \in 1 .. l /\ j \in 1 .. l /\ all[i] = marks[i] /\ all[j] = marks[j]
      BY <1>4, <1>8, <2>1
    <3>2. marks[i] < marks[j]
      BY <1>1, <1>8, <3>1 DEF Waiting
    <3>3. QED
      BY <3>1, <3>2
  <2>2. CASE j > l
    <3>1. all[j] = s + (j - l)
      BY <1>5, <2>2
    <3>2. CASE i \in 1 .. l /\ all[i] = marks[i]
      <4>1. all[i] \in Nat /\ all[i] <= s
        BY <1>6, <3>2
      <4>2. QED
        BY <2>2, <3>1, <4>1
    <3>3. CASE i > l /\ all[i] = s + (i - l)
      BY <1>8, <3>1, <3>3
    <3>4. QED
      BY <1>5, <3>2, <3>3
  <2>3. QED
    BY <2>1, <2>2
<1>9. ASSUME NEW i \in 1 .. l + n, NEW r \in 1 .. Len(g), all[i] # 0 PROVE g[r] < all[i]
  <2>1. g[r] \in Nat /\ g[r] <= s
    <3>1. g[r] \in Nat /\ (g[r] # 0 => g[r] + Delay <= s)
      BY DEF InTime
    <3>2. Delay \in Nat
      BY ChannelConstants, Zenon
    <3>3. QED
      BY <3>1, <3>2
  <2>2. CASE i <= l
    <3>1. i \in 1 .. l /\ all[i] = marks[i]
      BY <1>4, <2>2
    <3>2. g[r] < marks[i]
      BY <1>1, <1>9, <3>1, Zenon DEF Waiting
    <3>3. QED
      BY <3>1, <3>2, Zenon
  <2>3. CASE i > l
    BY <1>5, <2>1, <2>3
  <2>4. QED
    BY <2>2, <2>3
<1>10. QED
  BY <1>3, <1>4, <1>7, <1>8, <1>9 DEF Waiting

LEMMA InTimeLater ==
  ASSUME RxChannelAssumption, NEW g, NEW s \in Nat, NEW s2 \in Nat, s <= s2, InTime(g, s)
  PROVE  InTime(g, s2)
<1>1. PICK l \in Nat : l = Len(g)
  BY LenProperties DEF InTime
<1>2. ASSUME NEW i \in 1 .. l, g[i] # 0 PROVE g[i] + Delay <= s2
  <2>1. g[i] \in Nat /\ g[i] + Delay <= s
    BY <1>1, <1>2 DEF InTime
  <2>2. Delay \in Nat
    BY ChannelConstants
  <2>3. QED
    BY <2>1, <2>2
<1>3. QED
  BY <1>1, <1>2, Zenon DEF InTime

\* The samples of a batch that are queued.
InBatch(taken, last, n) ==
  /\ taken \in Seq(Nat) /\ Len(taken) \in Nat /\ Len(taken) <= n
  /\ \A i \in 1 .. Len(taken) : last < taken[i] /\ taken[i] <= last + n
  /\ \A i, j \in 1 .. Len(taken) : i < j => taken[i] < taken[j]

LEMMA AscendingIs ==
  ASSUME NEW last \in Nat, NEW n \in Nat, NEW taken \in Ascending(last + 1, last + n)
  PROVE  InBatch(taken, last, n)
<1>1. PICK k \in 0 .. (last + n) + 1 - (last + 1) :
        /\ taken \in [1 .. k -> last + 1 .. last + n]
        /\ \A i, j \in 1 .. k : i < j => taken[i] < taken[j]
  BY DEF Ascending
<1>2. k \in Nat /\ k <= n
  OBVIOUS
<1>3. taken \in [1 .. k -> Nat]
  BY <1>1
<1>4. taken \in Seq(Nat) /\ Len(taken) = k
  BY <1>2, <1>3
<1>5. QED
  BY <1>1, <1>2, <1>4 DEF InBatch

\* What a batch of n samples is given: those that are queued their marks, in order, the
\* others none.
GivenTo(taken, marks, last, n) ==
  [i \in 1 .. n |-> IF \E k \in DOMAIN taken : taken[k] = last + i
                    THEN marks[CHOOSE k \in DOMAIN taken : taken[k] = last + i] ELSE 0]

Gives(all, g, taken, marks, last, n) ==
  /\ all \in Seq(Nat) /\ Len(all) = last + n
  /\ \A r \in 1 .. last : all[r] = g[r]
  /\ \A k \in 1 .. Len(taken) : all[taken[k]] = marks[k]
  /\ \A r \in 1 .. last + n : r > last /\ all[r] # 0 =>
       \E k \in 1 .. Len(taken) : taken[k] = r /\ all[r] = marks[k]

LEMMA GivenIs ==
  ASSUME NEW last \in Nat, NEW n \in Nat, NEW taken, InBatch(taken, last, n),
         NEW marks \in Seq(Nat), Len(marks) = Len(taken), NEW g \in Seq(Nat), Len(g) = last
  PROVE  Gives(g \o GivenTo(taken, marks, last, n), g, taken, marks, last, n)
<1>1. PICK l \in Nat : l = Len(taken) /\ l <= n
  BY DEF InBatch
<1>2. /\ \A i \in 1 .. l : last < taken[i] /\ taken[i] <= last + n /\ taken[i] \in Nat
      /\ \A i, j \in 1 .. l : i < j => taken[i] < taken[j]
  BY <1>1 DEF InBatch
<1>3. DOMAIN taken = 1 .. l
  BY <1>1 DEF InBatch
<1>4. \A k \in 1 .. l : marks[k] \in Nat
  BY <1>1
<1>5. PICK more : more = GivenTo(taken, marks, last, n)
  OBVIOUS
<1>6. ASSUME NEW i \in 1 .. n
      PROVE  /\ more[i] \in Nat
             /\ \A k \in 1 .. l : taken[k] = last + i => more[i] = marks[k]
             /\ more[i] # 0 => \E k \in 1 .. l : taken[k] = last + i /\ more[i] = marks[k]
  <2>1. more[i] = IF \E k \in 1 .. l : taken[k] = last + i
                  THEN marks[CHOOSE k \in 1 .. l : taken[k] = last + i] ELSE 0
    BY <1>3, <1>5 DEF GivenTo
  <2>2. CASE \E k \in 1 .. l : taken[k] = last + i
    <3>1. PICK c : c = CHOOSE k \in 1 .. l : taken[k] = last + i
      OBVIOUS
    <3>2. c \in 1 .. l /\ taken[c] = last + i
      BY <2>2, <3>1
    <3>3. ASSUME NEW k \in 1 .. l, taken[k] = last + i PROVE k = c
      <4>1. ~ (k < c) /\ ~ (c < k)
        BY <1>2, <3>2, <3>3
      <4>2. QED
        BY <3>2, <4>1
    <3>4. more[i] = marks[c]
      BY <2>1, <2>2, <3>1
    <3>5. QED
      BY <1>4, <3>2, <3>3, <3>4
  <2>3. CASE ~ \E k \in 1 .. l : taken[k] = last + i
    BY <2>1, <2>3
  <2>4. QED
    BY <2>2, <2>3
<1>7. more \in Seq(Nat) /\ Len(more) = n
  <2>1. more = [i \in 1 .. n |-> more[i]]
    BY <1>5 DEF GivenTo
  <2>2. more \in [1 .. n -> Nat]
    BY <1>6, <2>1
  <2>3. QED
    BY <2>2
<1>8. PICK all : all = g \o more
  OBVIOUS
<1>9. /\ all \in Seq(Nat) /\ Len(all) = Len(g) + Len(more)
      /\ \A r \in 1 .. Len(g) : all[r] = g[r]
      /\ \A i \in 1 .. Len(more) : all[Len(g) + i] = more[i]
  <2>1. g \in Seq(Nat) /\ more \in Seq(Nat)
    BY <1>7
  <2>2. all \in Seq(Nat)
    BY <1>8, <2>1, JoinedIs
  <2>3. Joins(all, g, more)
    BY <1>8, <2>1, QueueJoins, Zenon
  <2>4. QED
    BY <2>2, <2>3, Zenon DEF Joins
<1>10. /\ all \in Seq(Nat) /\ Len(all) = last + n
       /\ \A r \in 1 .. last : all[r] = g[r]
       /\ \A i \in 1 .. n : all[last + i] = more[i]
  BY <1>7, <1>9
<1>11. ASSUME NEW k \in 1 .. l PROVE all[taken[k]] = marks[k]
  <2>1. PICK i \in 1 .. n : taken[k] = last + i
    <3>1. taken[k] - last \in 1 .. n /\ taken[k] = last + (taken[k] - last)
      BY <1>2
    <3>2. QED
      BY <3>1
  <2>2. QED
    BY <1>6, <1>10, <2>1
<1>12. ASSUME NEW r \in 1 .. last + n, r > last, all[r] # 0
       PROVE  \E k \in 1 .. l : taken[k] = r /\ all[r] = marks[k]
  <2>1. PICK i \in 1 .. n : r = last + i
    <3>1. r - last \in 1 .. n /\ r = last + (r - last)
      BY <1>12
    <3>2. QED
      BY <3>1
  <2>2. all[r] = more[i]
    BY <1>10, <2>1, Zenon
  <2>3. PICK k \in 1 .. l : taken[k] = last + i /\ more[i] = marks[k]
    BY <1>6, <1>12, <2>2, Zenon
  <2>4. QED
    BY <2>1, <2>2, <2>3, Zenon
<1>13. Gives(all, g, taken, marks, last, n)
  BY <1>1, <1>10, <1>11, <1>12 DEF Gives
<1>14. QED
  BY <1>5, <1>8, <1>13

\* The marks a batch is given are the oldest, as many as are due.
Oldest(marks, old, due, n) ==
  /\ marks \in Seq(Nat) /\ Len(marks) = n
  /\ due \in Nat /\ due <= Len(old) /\ (due > 0 => due = Len(old) - Delay)
  /\ \A i \in 1 .. n : marks[i] = IF i <= due THEN old[i] ELSE 0

LEMMA PoppedIs ==
  ASSUME NEW l \in Nat, NEW m \in Nat, NEW due \in Nat, due <= m,
         NEW popped \in Nat, l < due => popped = l, ~(l < due) => popped = due
  PROVE  popped <= l /\ popped <= due /\ popped <= m
  OBVIOUS

\* Of the marks that are due none is among the delay's last.
LEMMA DueIsLate ==
  ASSUME NEW m \in Nat, NEW due \in Nat, NEW d \in Nat, due > 0 => due = m - d,
         NEW popped \in Nat, popped <= due, NEW k \in Nat, k > 0, k <= popped
  PROVE  k <= m - d
  OBVIOUS

\* A mark that has waited until only the delay's are behind it is late enough.
LEMMA LateEnough ==
  ASSUME NEW x \in Nat, NEW k \in Nat, NEW m \in Nat, NEW d \in Nat, NEW s \in Nat,
         x + (m - k) <= s, k <= m - d
  PROVE  x + d <= s
  OBVIOUS

\* They are late enough, and come in order.
LEMMA GivenInTime ==
  ASSUME RxChannelAssumption, NEW last \in Nat, NEW n \in Nat, NEW taken, InBatch(taken, last, n),
         NEW old, NEW s \in Nat, NEW g, Waiting(old, g, s), InTime(g, s), Len(g) = last,
         NEW due, NEW marks, Oldest(marks, old, due, Len(taken)),
         NEW popped \in Nat, popped = (IF Len(taken) < due THEN Len(taken) ELSE due),
         NEW all, Gives(all, g, taken, marks, last, n), NEW rest, IsRest(rest, old, popped), rest \in Seq(Nat)
  PROVE  InTime(all, s) /\ Waiting(rest, all, s) /\ popped \in 0 .. Len(old)
<1>1. PICK l \in Nat, m \in Nat : l = Len(taken) /\ m = Len(old)
  BY LenProperties DEF Waiting, InBatch
<1>2. due \in Nat /\ due <= m /\ (due > 0 => due = m - Delay)
  BY <1>1 DEF Oldest
<1>3. /\ popped <= l /\ popped <= due /\ popped <= m
      /\ \A k \in Nat : k > 0 /\ k <= popped => k <= m - Delay
  <2>1. Delay \in Nat
    BY ChannelConstants, Zenon
  <2>2. (l < due => popped = l) /\ (~(l < due) => popped = due)
    BY <1>1, Zenon
  <2>3. popped <= l /\ popped <= due /\ popped <= m
    BY <1>1, <1>2, <2>2, PoppedIs
  <2>4. ASSUME NEW k \in Nat, k > 0, k <= popped PROVE k <= m - Delay
    BY <1>1, <1>2, <2>1, <2>3, <2>4, DueIsLate
  <2>5. QED
    BY <2>3, <2>4
<1>4. \A i \in 1 .. m : old[i] \in Nat
  BY <1>1 DEF Waiting
<1>5. \A i \in 1 .. l : marks[i] = IF i <= due THEN old[i] ELSE 0
  BY <1>1 DEF Oldest
<1>6. /\ Len(all) = last + n /\ all \in Seq(Nat)
      /\ \A r \in 1 .. last : all[r] = g[r]
      /\ \A r \in 1 .. last + n : r > last /\ all[r] # 0 =>
           \E k \in 1 .. l : taken[k] = r /\ all[r] = marks[k]
  BY <1>1 DEF Gives
<1>7. \A i \in 1 .. m : old[i] # 0 => old[i] + (m - i) <= s
  BY <1>1 DEF Waiting
<1>8. \A i, j \in 1 .. m : i < j /\ old[j] # 0 => old[i] < old[j]
  BY <1>1 DEF Waiting
<1>9. \A i \in 1 .. m, r \in 1 .. last : old[i] # 0 => g[r] < old[i]
  BY <1>1 DEF Waiting
<1>10. \A i, j \in 1 .. l : i < j => taken[i] < taken[j]
  BY <1>1 DEF InBatch
<1>11. /\ \A r \in 1 .. last : g[r] # 0 => g[r] + Delay <= s
       /\ \A q, r \in 1 .. last : q < r /\ g[r] # 0 => g[q] < g[r]
  BY DEF InTime
<1>12. ASSUME NEW r \in 1 .. last + n, ~ (r \in 1 .. last /\ all[r] = g[r]), all[r] # 0
       PROVE  \E k \in 1 .. l : k <= popped /\ k \in 1 .. m /\ taken[k] = r /\ all[r] = old[k]
  <2>1. r > last
    BY <1>6, <1>12
  <2>2. PICK k \in 1 .. l : taken[k] = r /\ all[r] = marks[k]
    BY <1>6, <1>12, <2>1
  <2>3. k <= due /\ all[r] = old[k]
    BY <1>5, <1>12, <2>2
  <2>4. k <= popped
    BY <1>1, <1>2, <2>3
  <2>5. k \in 1 .. m
    BY <1>3, <2>4
  <2>6. QED
    BY <2>2, <2>3, <2>4, <2>5
<1>13. \A r \in 1 .. last + n : all[r] \in Nat
  BY <1>6
<1>14. ASSUME NEW r \in 1 .. last + n, all[r] # 0 PROVE all[r] + Delay <= s
  <2>1. CASE r \in 1 .. last /\ all[r] = g[r]
    BY <1>11, <1>14, <2>1
  <2>2. CASE ~ (r \in 1 .. last /\ all[r] = g[r])
    <3>1. PICK k \in 1 .. l : k <= popped /\ k \in 1 .. m /\ all[r] = old[k]
      BY <1>12, <1>14, <2>2
    <3>2. old[k] + (m - k) <= s
      BY <1>7, <1>14, <3>1
    <3>3. PICK x \in Nat : x = all[r] /\ x = old[k]
      BY <1>13, <3>1
    <3>4. k \in Nat /\ k > 0 /\ k <= popped /\ Delay \in Nat
      BY <3>1, ChannelConstants
    <3>5. k <= m - Delay /\ x + (m - k) <= s
      BY <1>3, <3>2, <3>3, <3>4, Zenon
    <3>6. x + Delay <= s
      BY <3>4, <3>5, LateEnough, Zenon
    <3>7. QED
      BY <3>3, <3>6
  <2>3. QED
    BY <2>1, <2>2
<1>15. ASSUME NEW q \in 1 .. last + n, NEW r \in 1 .. last + n, q < r, all[r] # 0 PROVE all[q] < all[r]
  <2>1. CASE r \in 1 .. last /\ all[r] = g[r]
    <3>1. q \in 1 .. last /\ all[q] = g[q]
      BY <1>6, <1>15, <2>1
    <3>2. QED
      BY <1>11, <1>15, <2>1, <3>1
  <2>2. CASE ~ (r \in 1 .. last /\ all[r] = g[r])
    <3>1. PICK k \in 1 .. l : k \in 1 .. m /\ taken[k] = r /\ all[r] = old[k]
      BY <1>12, <1>15, <2>2
    <3>2. CASE q \in 1 .. last /\ all[q] = g[q]
      <4>1. old[k] # 0
        BY <1>15, <3>1
      <4>2. g[q] < old[k]
        BY <1>9, <3>1, <3>2, <4>1
      <4>3. QED
        BY <3>1, <3>2, <4>2
    <3>3. CASE all[q] = 0
      <4>1. all[r] \in Nat
        BY <1>13
      <4>2. QED
        BY <1>15, <3>3, <4>1
    <3>4. CASE ~ (q \in 1 .. last /\ all[q] = g[q]) /\ all[q] # 0
      <4>1. PICK i \in 1 .. l : i \in 1 .. m /\ taken[i] = q /\ all[q] = old[i]
        BY <1>12, <3>4
      <4>2. ~ (k < i) /\ k # i
        <5>1. taken[i] < taken[k]
          BY <1>15, <3>1, <4>1
        <5>2. k < i => taken[k] < taken[i]
          BY <1>10, <3>1, <4>1
        <5>3. taken[i] = q /\ taken[k] = r
          BY <3>1, <4>1
        <5>4. QED
          BY <1>15, <5>2, <5>3
      <4>3. i < k
        BY <4>2
      <4>4. old[k] # 0
        BY <1>15, <3>1
      <4>5. old[i] < old[k]
        BY <1>8, <3>1, <4>1, <4>3, <4>4
      <4>6. QED
        BY <3>1, <4>1, <4>5
    <3>5. QED
      BY <3>2, <3>3, <3>4
  <2>3. QED
    BY <2>1, <2>2
<1>16. InTime(all, s)
  <2>1. \A r \in 1 .. Len(all) : all[r] # 0 => all[r] + Delay <= s
    BY <1>6, <1>14
  <2>2. \A q, r \in 1 .. Len(all) : q < r /\ all[r] # 0 => all[q] < all[r]
    BY <1>6, <1>15
  <2>3. QED
    BY <1>6, <2>1, <2>2 DEF InTime
<1>17. popped \in 0 .. Len(old)
  BY <1>1, <1>3
<1>18. Waiting(rest, g, s)
  BY <1>17, WaitingRest
<1>19. Len(rest) = m - popped /\ \A i \in 1 .. m - popped : rest[i] = old[popped + i]
  BY <1>1 DEF IsRest
<1>20. ASSUME NEW i \in 1 .. Len(rest), NEW r \in 1 .. Len(all), rest[i] # 0 PROVE all[r] < rest[i]
  <2>1. popped + i \in 1 .. m /\ rest[i] = old[popped + i] /\ i > 0 /\ i \in Nat
    <3>1. popped <= m /\ Len(rest) = m - popped
      BY <1>3, <1>19, Zenon
    <3>2. i \in 1 .. m - popped
      BY <3>1, Zenon
    <3>3. popped + i \in 1 .. m /\ i > 0 /\ i \in Nat
      BY <1>1, <3>1, <3>2, InRest, Zenon
    <3>4. QED
      BY <1>19, <3>2, <3>3, Zenon
  <2>2. rest[i] \in Nat /\ old[popped + i] # 0
    BY <1>4, <1>20, <2>1
  <2>3. r \in 1 .. last + n
    BY <1>6
  <2>4. CASE r \in 1 .. last /\ all[r] = g[r]
    <3>1. g[r] < old[popped + i]
      BY <1>9, <2>1, <2>2, <2>4
    <3>2. QED
      BY <2>1, <2>4, <3>1
  <2>5. CASE all[r] = 0
    BY <1>20, <2>2, <2>5
  <2>6. CASE ~ (r \in 1 .. last /\ all[r] = g[r]) /\ all[r] # 0
    <3>1. PICK k \in 1 .. l : k <= popped /\ k \in 1 .. m /\ all[r] = old[k]
      BY <1>12, <2>3, <2>6
    <3>2. k < popped + i
      <4>1. k \in Nat
        BY <3>1
      <4>2. QED
        BY <2>1, <3>1, <4>1, LaterPlace, Zenon
    <3>3. old[k] < old[popped + i]
      BY <1>8, <2>1, <2>2, <3>1, <3>2
    <3>4. QED
      BY <2>1, <3>1, <3>3
  <2>7. QED
    BY <2>4, <2>5, <2>6
<1>21. Waiting(rest, all, s)
  BY <1>18, <1>20 DEF Waiting
<1>22. QED
  BY <1>16, <1>17, <1>21
-----------------------------------------------------------------------------

ChannelLimits ==
  /\ rxFreq \in BOOLEAN
  /\ sent \in Nat /\ sent <= MaxSent /\ came \in Nat /\ came <= MaxCame /\ Len(given) = came
  /\ Len(scratch) <= PopBurst /\ Len(delayedControl) <= Delay + MaxLag
  /\ Len(rxSampleQueue) <= QueueLen + Max(WorkBursts)

\* The samples on their way to the receiver: up to c those that were taken, up to a those
\* that were put, up to b those that were popped.
OnTheirWay(c, a, b) ==
  /\ c <= a /\ a <= b /\ b <= came
  /\ fed # <<>> => fed[Block].sample \in Nat /\ fed[Block].sample <= c
  /\ Held(m_rxBuffer, c, a, given)
  /\ Measured(m_rssiBuffer, putRssi, m_rxBuffer, a)
  /\ Taken(scratch, a, b, given)
  /\ Queued(rxSampleQueue, rxControlQueue, rxRssiQueue, b, came, given)

ChannelInv ==
  /\ ChannelLimits
  /\ Waiting(delayedControl, given, sent) /\ InTime(given, sent)
  /\ \E c \in Nat, a \in Nat, b \in Nat : OnTheirWay(c, a, b)

LEMMA BurstsBounded ==
  ASSUME RxChannelAssumption
  PROVE  Max(WorkBursts) \in Nat /\ \A n \in WorkBursts : n <= Max(WorkBursts)
<1>1. WorkBursts \in SUBSET Nat /\ WorkBursts # {} /\ IsFiniteSet(WorkBursts)
  BY DEF RxChannelAssumption
<1>2. \E x \in WorkBursts : \A y \in WorkBursts : x >= y
  BY <1>1, GreatestOf DEF HasGreatest
<1>3. Max(WorkBursts) \in WorkBursts /\ \A y \in WorkBursts : Max(WorkBursts) >= y
  BY <1>2 DEF Max
<1>4. QED
  BY <1>1, <1>3

LEMMA EmptyWay ==
  ASSUME RxChannelAssumption, NEW g
  PROVE  /\ Queued(<<>>, <<>>, <<>>, 0, 0, g) /\ Taken(<<>>, 0, 0, g)
         /\ Held(<<>>, 0, 0, g) /\ Measured(<<>>, 0, <<>>, 0)
<1>1. Queued(<<>>, <<>>, <<>>, 0, 0, g)
  BY DEF Queued
<1>2. Taken(<<>>, 0, 0, g)
  BY DEF Taken
<1>3. Held(<<>>, 0, 0, g)
  BY ChannelConstants DEF Held
<1>4. Measured(<<>>, 0, <<>>, 0)
  BY ChannelConstants DEF Measured
<1>5. QED
  BY <1>1, <1>2, <1>3, <1>4

LEMMA ChannelBegins ==
  ASSUME RxChannelAssumption, Init
  PROVE  ChannelInv
<1>1. /\ rxFreq = FALSE /\ delayedControl = [i \in 1 .. Delay |-> 0]
      /\ rxSampleQueue = <<>> /\ rxControlQueue = <<>> /\ rxRssiQueue = <<>>
      /\ scratch = <<>> /\ putRssi = 0 /\ m_rxBuffer = <<>> /\ m_rssiBuffer = <<>>
      /\ fed = <<>> /\ sent = 0 /\ came = 0 /\ given = <<>>
  BY DEF Init, None
<1>2. /\ delayedControl \in Seq(Nat) /\ Len(delayedControl) = Delay
      /\ \A i \in 1 .. Delay : delayedControl[i] = 0
  BY <1>1, ChannelConstants
<1>3. Waiting(delayedControl, given, sent)
  BY <1>1, <1>2 DEF Waiting
<1>4. InTime(given, sent)
  BY <1>1 DEF InTime
<1>5. ChannelLimits
  <2>1. rxFreq \in BOOLEAN
    BY <1>1
  <2>2. 0 <= PopBurst /\ 0 <= MaxSent /\ 0 <= MaxCame /\ Delay <= Delay + MaxLag
    BY ChannelConstants
  <2>3. 0 <= QueueLen + Max(WorkBursts)
    BY ChannelConstants, BurstsBounded
  <2>4. Len(given) = 0 /\ Len(scratch) = 0 /\ Len(rxSampleQueue) = 0
    BY <1>1
  <2>5. QED
    BY <1>1, <1>2, <2>1, <2>2, <2>3, <2>4 DEF ChannelLimits
<1>6. OnTheirWay(0, 0, 0)
  BY <1>1, EmptyWay DEF OnTheirWay
<1>7. 0 \in Nat
  OBVIOUS
<1>8. QED
  BY <1>3, <1>4, <1>5, <1>6, <1>7 DEF ChannelInv

\* Samples that are sent leave their marks behind.
LEMMA ChannelSends ==
  ASSUME RxChannelAssumption, ChannelInv, NEW n \in WorkBursts, Dequeue(n)
  PROVE  ChannelInv'
<1>1. /\ sent + n <= MaxSent /\ sent' = sent + n
      /\ delayedControl' = Newest(delayedControl \o [i \in 1 .. n |-> sent + i], Delay + MaxLag)
      /\ UNCHANGED <<rxFreq, rxSampleQueue, rxControlQueue, rxRssiQueue, scratch, putRssi, m_rxBuffer,
                     m_rssiBuffer, fed, came, given>>
  BY DEF Dequeue, queues, rings
<1>2. n \in Nat /\ Delay + MaxLag \in Nat
  BY ChannelConstants
<1>3. sent \in Nat /\ ChannelLimits /\ Waiting(delayedControl, given, sent) /\ InTime(given, sent)
  BY DEF ChannelInv, ChannelLimits
<1>4. PICK more : more = [i \in 1 .. n |-> sent + i]
  OBVIOUS
<1>5. PICK all : all = delayedControl \o more
  OBVIOUS
<1>6. Waiting(all, given, sent + n)
  BY <1>2, <1>3, <1>4, <1>5, WaitingMore
<1>7. PICK rest : rest = Newest(all, Delay + MaxLag)
  OBVIOUS
<1>8. /\ Excess(all, Delay + MaxLag) \in 0 .. Len(all) /\ rest \in Seq(Nat)
      /\ IsRest(rest, all, Excess(all, Delay + MaxLag)) /\ Len(rest) <= Delay + MaxLag
  BY <1>2, <1>6, <1>7, NewestIs DEF Waiting
<1>9. sent + n \in Nat /\ sent <= sent + n
  BY <1>2, <1>3
<1>10. Waiting(rest, given, sent + n)
  BY <1>6, <1>8, <1>9, WaitingRest
<1>11. InTime(given, sent + n)
  BY <1>3, <1>9, InTimeLater
<1>12. delayedControl' = rest
  BY <1>1, <1>4, <1>5, <1>7
<1>13. Waiting(delayedControl, given, sent)' /\ InTime(given, sent)'
  BY <1>1, <1>10, <1>11, <1>12
<1>14. ChannelLimits'
  BY <1>1, <1>3, <1>8, <1>9, <1>12 DEF ChannelLimits
<1>15. \E c \in Nat, a \in Nat, b \in Nat : OnTheirWay(c, a, b)'
  BY <1>1 DEF ChannelInv, OnTheirWay
<1>16. QED
  BY <1>13, <1>14, <1>15 DEF ChannelInv

\* More comes to a radio; what is on its way is not touched, but for the queues.
LEMMA WayLater ==
  ASSUME NEW g, NEW g2, NEW hi \in Nat, \A s \in 1 .. hi : g2[s] = g[s],
         NEW c \in Nat, NEW a \in Nat, NEW b \in Nat, c <= a, a <= b, b <= hi,
         NEW ring, Held(ring, c, a, g), NEW burst, Taken(burst, a, b, g)
  PROVE  Held(ring, c, a, g2) /\ Taken(burst, a, b, g2)
<1>1. \A s \in 1 .. a : g2[s] = g[s]
  OBVIOUS
<1>2. \A s \in 1 .. b : g2[s] = g[s]
  OBVIOUS
<1>3. a <= a /\ b <= b
  OBVIOUS
<1>4. Held(ring, c, a, g2)
  BY <1>1, <1>3, HeldLater
<1>5. Taken(burst, a, b, g2)
  BY <1>2, <1>3, TakenLater
<1>6. QED
  BY <1>4, <1>5

\* A radio without a channel of its own ignores what comes.
LEMMA ChannelIgnores ==
  ASSUME RxChannelAssumption, ChannelInv, NEW n \in WorkBursts, Ignore(n)
  PROVE  ChannelInv'
<1>1. /\ came + n <= MaxCame /\ came' = came + n
      /\ given' = given \o [i \in 1 .. n |-> 0]
      /\ UNCHANGED <<rxFreq, delayedControl, rxSampleQueue, rxControlQueue, rxRssiQueue, scratch, putRssi,
                     m_rxBuffer, m_rssiBuffer, fed, sent>>
  BY DEF Ignore, queues, rings, None
<1>2. n \in Nat
  BY ChannelConstants
<1>3. /\ ChannelLimits /\ Waiting(delayedControl, given, sent) /\ InTime(given, sent)
      /\ came \in Nat /\ Len(given) = came /\ given \in Seq(Nat) /\ sent \in Nat
  BY DEF ChannelInv, ChannelLimits, InTime
<1>4. PICK more : more = [i \in 1 .. n |-> 0]
  OBVIOUS
<1>5. more \in Seq(Nat) /\ Len(more) = n /\ \A i \in 1 .. n : more[i] = 0
  BY <1>2, <1>4
<1>6. given' = given \o more
  BY <1>1, <1>4
<1>7. PICK all : all = given'
  OBVIOUS
<1>8. all = given \o more
  BY <1>6, <1>7
<1>9. all \in Seq(Nat) /\ Joins(all, given, more)
  BY <1>3, <1>5, <1>8, QueueJoins
<1>10. \A r \in 1 .. Len(given) : all[r] = given[r]
  BY <1>9 DEF Joins
<1>11. Len(all) = Len(given) + Len(more) /\ \A i \in 1 .. Len(more) : all[Len(given) + i] = more[i]
  BY <1>9 DEF Joins
<1>12. Len(all) = came + n /\ came + n \in Nat
  BY <1>2, <1>3, <1>5, <1>11
<1>13. ASSUME NEW r \in 1 .. came + n, r > came PROVE all[r] = 0
  <2>1. r - came \in 1 .. n /\ came + (r - came) = r
    BY <1>2, <1>3, <1>13
  <2>2. QED
    BY <1>3, <1>5, <1>11, <2>1
<1>14. \A r \in 1 .. came : all[r] = given[r]
  BY <1>3, <1>10
<1>15. ASSUME NEW r \in 1 .. came + n, all[r] # 0 PROVE r \in 1 .. came
  BY <1>3, <1>13, <1>15
<1>16. InTime(all, sent)
  <2>1. \A r \in 1 .. came + n : all[r] # 0 => all[r] + Delay <= sent
    BY <1>3, <1>14, <1>15 DEF InTime
  <2>2. ASSUME NEW q \in 1 .. came + n, NEW r \in 1 .. came + n, q < r, all[r] # 0
        PROVE  all[q] < all[r]
    <3>1. r \in 1 .. came /\ q \in 1 .. came
      BY <1>3, <1>15, <2>2
    <3>2. all[r] = given[r] /\ all[q] = given[q]
      BY <1>14, <3>1
    <3>3. QED
      BY <1>3, <2>2, <3>1, <3>2 DEF InTime
  <2>3. QED
    BY <1>9, <1>12, <2>1, <2>2 DEF InTime
<1>17. Waiting(delayedControl, all, sent)
  <2>1. ASSUME NEW i \in 1 .. Len(delayedControl), NEW r \in 1 .. came + n, delayedControl[i] # 0
        PROVE  all[r] < delayedControl[i]
    <3>1. CASE r \in 1 .. came
      BY <1>3, <1>14, <2>1, <3>1 DEF Waiting
    <3>2. CASE ~ (r \in 1 .. came)
      <4>1. all[r] = 0
        BY <1>15, <3>2
      <4>2. delayedControl[i] \in Nat
        BY <1>3 DEF Waiting
      <4>3. QED
        BY <2>1, <4>1, <4>2
    <3>3. QED
      BY <3>1, <3>2
  <2>2. QED
    BY <1>3, <1>12, <2>1 DEF Waiting
<1>18. ChannelLimits'
  BY <1>1, <1>3, <1>7, <1>12 DEF ChannelLimits
<1>19. PICK c \in Nat, a \in Nat, b \in Nat : OnTheirWay(c, a, b)
  BY DEF ChannelInv
<1>20. b <= came /\ came <= came + n /\ c <= a /\ a <= b
  BY <1>2, <1>3, <1>19 DEF OnTheirWay
<1>21. Held(m_rxBuffer, c, a, all) /\ Taken(scratch, a, b, all)
  BY <1>3, <1>14, <1>19, <1>20, WayLater DEF OnTheirWay
<1>22. Queued(rxSampleQueue, rxControlQueue, rxRssiQueue, b, came + n, all)
  BY <1>3, <1>12, <1>14, <1>19, <1>20, QueuedLater DEF OnTheirWay
<1>23. OnTheirWay(c, a, b)'
  <2>1. b <= came'
    BY <1>1, <1>2, <1>3, <1>20
  <2>2. QED
    BY <1>1, <1>7, <1>19, <1>21, <1>22, <2>1 DEF OnTheirWay
<1>24. Waiting(delayedControl, given, sent)' /\ InTime(given, sent)'
  BY <1>1, <1>7, <1>16, <1>17
<1>25. QED
  BY <1>18, <1>23, <1>24 DEF ChannelInv

\* A batch joins the three queues.
Marked(taken, marks, g) ==
  Len(marks) = Len(taken) /\ \A k \in 1 .. Len(taken) : g[taken[k]] = marks[k]

AllUpTo(queue, last) == \A i \in 1 .. Len(queue) : queue[i] <= last

LEMMA QueuedMore ==
  ASSUME NEW lo \in Nat, NEW last \in Nat, lo <= last, NEW n \in Nat, NEW g,
         NEW qs, NEW qc, NEW qr, Queued(qs, qc, qr, lo, last + n, g), AllUpTo(qs, last),
         NEW taken, InBatch(taken, last, n), NEW marks, Marked(taken, marks, g),
         NEW ns \in Seq(Nat), NEW nc \in Seq(Nat), NEW nr \in Seq(Nat),
         Joins(ns, qs, taken), Joins(nc, qc, marks), Joins(nr, qr, taken)
  PROVE  Queued(ns, nc, nr, lo, last + n, g)
<1>1. PICK l \in Nat, m \in Nat : l = Len(qs) /\ m = Len(taken) /\ m <= n
  BY LenProperties DEF Queued, InBatch
<1>2. Len(qc) = l /\ Len(qr) = l /\ Len(marks) = m
  BY <1>1 DEF Queued, Marked
<1>3. /\ Len(ns) = l + m
      /\ \A i \in 1 .. l : ns[i] = qs[i]
      /\ \A i \in 1 .. m : ns[l + i] = taken[i]
  BY <1>1 DEF Joins
<1>4. /\ Len(nc) = l + m
      /\ \A i \in 1 .. l : nc[i] = qc[i]
      /\ \A i \in 1 .. m : nc[l + i] = marks[i]
  BY <1>1, <1>2 DEF Joins
<1>5. /\ Len(nr) = l + m
      /\ \A i \in 1 .. l : nr[i] = qr[i]
      /\ \A i \in 1 .. m : nr[l + i] = taken[i]
  BY <1>1, <1>2 DEF Joins
<1>6. \A i \in 1 .. l : /\ qs[i] \in Nat /\ lo < qs[i] /\ qs[i] <= last
                        /\ qc[i] = g[qs[i]] /\ qr[i] = qs[i]
  <2>1. \A i \in 1 .. l : lo < qs[i] /\ qc[i] = g[qs[i]] /\ qr[i] = qs[i]
    BY <1>1 DEF Queued
  <2>2. \A i \in 1 .. l : qs[i] <= last
    BY <1>1 DEF AllUpTo
  <2>3. qs \in Seq(Nat)
    BY DEF Queued
  <2>4. \A i \in 1 .. l : qs[i] \in Nat
    BY <1>1, <2>3
  <2>5. QED
    BY <2>1, <2>2, <2>4
<1>7. \A i, j \in 1 .. l : i < j => qs[i] < qs[j]
  BY <1>1 DEF Queued
<1>8. /\ \A i \in 1 .. m : taken[i] \in Nat /\ last < taken[i] /\ taken[i] <= last + n
      /\ \A i, j \in 1 .. m : i < j => taken[i] < taken[j]
  BY <1>1 DEF InBatch
<1>9. \A i \in 1 .. m : marks[i] = g[taken[i]]
  BY <1>1 DEF Marked
<1>10. ASSUME NEW i \in 1 .. l + m
       PROVE  i \in 1 .. l \/ \E k \in 1 .. m : i = l + k
  <2>1. i > l => i - l \in 1 .. m /\ i = l + (i - l)
    OBVIOUS
  <2>2. QED
    BY <2>1
<1>11. ASSUME NEW i \in 1 .. l
       PROVE  ns[i] \in Nat /\ lo < ns[i] /\ ns[i] <= last /\ nc[i] = g[ns[i]] /\ nr[i] = ns[i]
  BY <1>3, <1>4, <1>5, <1>6
<1>12. ASSUME NEW k \in 1 .. m
       PROVE  /\ ns[l + k] \in Nat /\ last < ns[l + k] /\ ns[l + k] <= last + n
              /\ nc[l + k] = g[ns[l + k]] /\ nr[l + k] = ns[l + k]
  <2>1. ns[l + k] = taken[k] /\ nc[l + k] = marks[k] /\ nr[l + k] = taken[k]
    BY <1>3, <1>4, <1>5, Zenon
  <2>2. taken[k] \in Nat /\ last < taken[k] /\ taken[k] <= last + n /\ marks[k] = g[taken[k]]
    BY <1>8, <1>9, Zenon
  <2>3. QED
    BY <2>1, <2>2, Zenon
<1>13. ASSUME NEW i \in 1 .. l + m
       PROVE  lo < ns[i] /\ ns[i] <= last + n /\ nc[i] = g[ns[i]] /\ nr[i] = ns[i]
  <2>1. CASE i \in 1 .. l
    BY <1>11, <2>1
  <2>2. ASSUME NEW k \in 1 .. m, i = l + k
        PROVE  lo < ns[i] /\ ns[i] <= last + n /\ nc[i] = g[ns[i]] /\ nr[i] = ns[i]
    <3>1. /\ ns[i] \in Nat /\ last < ns[i] /\ ns[i] <= last + n
          /\ nc[i] = g[ns[i]] /\ nr[i] = ns[i]
      BY <1>12, <2>2
    <3>2. lo < ns[i]
      BY <3>1
    <3>3. QED
      BY <3>1, <3>2
  <2>3. QED
    BY <1>10, <2>1, <2>2
<1>14. ASSUME NEW i \in 1 .. l + m, NEW j \in 1 .. l + m, i < j PROVE ns[i] < ns[j]
  <2>1. CASE j \in 1 .. l
    <3>1. i \in 1 .. l
      BY <1>14, <2>1
    <3>2. qs[i] < qs[j]
      BY <1>7, <1>14, <2>1, <3>1
    <3>3. QED
      BY <1>3, <2>1, <3>1, <3>2
  <2>2. ASSUME NEW k \in 1 .. m, j = l + k PROVE ns[i] < ns[j]
    <3>1. CASE i \in 1 .. l
      <4>1. ns[i] \in Nat /\ ns[i] <= last
        BY <1>11, <3>1
      <4>2. ns[j] \in Nat /\ last < ns[j]
        BY <1>12, <2>2
      <4>3. QED
        BY <4>1, <4>2
    <3>2. ASSUME NEW x \in 1 .. m, i = l + x PROVE ns[i] < ns[j]
      <4>1. x < k
        BY <1>14, <2>2, <3>2
      <4>2. taken[x] < taken[k]
        BY <1>8, <4>1
      <4>3. QED
        BY <1>3, <2>2, <3>2, <4>2
    <3>3. QED
      BY <1>10, <3>1, <3>2
  <2>3. QED
    BY <1>10, <2>1, <2>2
<1>15. QED
  BY <1>3, <1>4, <1>5, <1>13, <1>14 DEF Queued

\* The mark that is due first goes to the sample that comes first.
LEMMA ChannelAligns ==
  ASSUME RxChannelAssumption, delayedControl \in Seq(Nat), NEW n \in Nat
  PROVE  /\ Oldest(Aligned(n), delayedControl, Due, n)
         /\ Due \in Nat /\ Due <= Len(delayedControl)
<1>1. PICK m \in Nat : m = Len(delayedControl)
  BY LenProperties
<1>2. Due \in Nat /\ Due <= m /\ (Due > 0 => Due = m - Delay)
  <2>1. Delay \in Nat /\ Due = IF m > Delay THEN m - Delay ELSE 0
    BY <1>1, ChannelConstants, Zenon DEF Due
  <2>2. QED
    BY <2>1
<1>3. PICK due \in Nat : due = Due /\ due <= m
  BY <1>2
<1>4. \A i \in 1 .. m : delayedControl[i] \in Nat
  BY <1>1
<1>5. PICK marks : marks = Aligned(n)
  OBVIOUS
<1>6. marks = [i \in 1 .. n |-> IF i <= due THEN delayedControl[i] ELSE 0]
  BY <1>3, <1>5 DEF Aligned, None
<1>7. \A i \in 1 .. n : marks[i] = (IF i <= due THEN delayedControl[i] ELSE 0) /\ marks[i] \in Nat
  BY <1>3, <1>4, <1>6
<1>8. marks \in [1 .. n -> Nat]
  BY <1>6, <1>7
<1>9. marks \in Seq(Nat) /\ Len(marks) = n
  BY <1>8
<1>10. QED
  BY <1>1, <1>2, <1>3, <1>5, <1>7, <1>9 DEF Oldest

LEMMA ChannelComes ==
  ASSUME RxChannelAssumption, ChannelInv, NEW n \in WorkBursts, NEW taken, NEW afc, Enqueue(n, taken, afc)
  PROVE  ChannelInv'
<1>1. n \in Nat /\ n <= Max(WorkBursts) /\ QueueLen \in Nat /\ Max(WorkBursts) \in Nat
  BY ChannelConstants, BurstsBounded
<1>2. /\ ChannelLimits /\ Waiting(delayedControl, given, sent) /\ InTime(given, sent)
      /\ came \in Nat /\ Len(given) = came /\ given \in Seq(Nat) /\ sent \in Nat
      /\ delayedControl \in Seq(Nat)
  BY DEF ChannelInv, ChannelLimits, InTime, Waiting
<1>3. Len(taken) \in Nat /\ Due \in Nat
  <2>1. taken \in Ascending(came + 1, came + n)
    BY DEF Enqueue
  <2>2. Len(taken) \in Nat
    BY <1>1, <1>2, <2>1, AscendingIs DEF InBatch
  <2>3. Due \in Nat
    BY <1>2, ChannelAligns
  <2>4. QED
    BY <2>2, <2>3
<1> DEFINE marks == Aligned(Len(taken))
           due == Due
<1> HIDE DEF marks, due
<1>4. InBatch(taken, came, n)
  <2>1. taken \in Ascending(came + 1, came + n)
    BY DEF Enqueue
  <2>2. QED
    BY <1>1, <1>2, <2>1, AscendingIs
<1>5. Oldest(marks, delayedControl, due, Len(taken)) /\ due <= Len(delayedControl) /\ due \in Nat
  BY <1>2, <1>3, ChannelAligns DEF marks, due
<1>6. PICK popped \in Nat : popped = IF Len(taken) < due THEN Len(taken) ELSE due
  BY <1>3, <1>5
<1>7. PICK ns, nc, nr, all :
        /\ ns = rxSampleQueue \o taken /\ nc = rxControlQueue \o marks /\ nr = rxRssiQueue \o taken
        /\ all = given \o GivenTo(taken, marks, came, n)
  OBVIOUS
<1>8. /\ came + n <= MaxCame /\ came' = came + n /\ given' = all
      /\ delayedControl' = SubSeq(delayedControl, popped + 1, Len(delayedControl))
      /\ UNCHANGED <<rxFreq, scratch, putRssi, m_rxBuffer, m_rssiBuffer, fed, sent>>
  BY <1>6, <1>7 DEF Enqueue, MarksFor, None, rings, GivenTo, marks, due
<1>9. \/ /\ rxSampleQueue' = ns /\ rxControlQueue' = nc /\ rxRssiQueue' = nr
         /\ Len(taken) < n /\ Len(rxSampleQueue) <= QueueLen
      \/ /\ rxSampleQueue' = Newest(ns, QueueLen) /\ rxControlQueue' = Newest(nc, QueueLen)
         /\ rxRssiQueue' = Newest(nr, QueueLen)
  BY <1>7 DEF Enqueue, MarksFor, Trim, marks
<1>10. marks \in Seq(Nat) /\ Len(marks) = Len(taken) /\ taken \in Seq(Nat)
  BY <1>4, <1>5 DEF Oldest, InBatch
<1>11. Gives(all, given, taken, marks, came, n)
  BY <1>1, <1>2, <1>4, <1>7, <1>10, GivenIs
<1>12. popped \in 0 .. Len(delayedControl)
  <2>1. Len(delayedControl) \in Nat
    BY <1>2
  <2>2. QED
    BY <1>3, <1>5, <1>6, <2>1
<1>13. PICK rest : rest = delayedControl'
  OBVIOUS
<1>14. rest \in Seq(Nat) /\ IsRest(rest, delayedControl, popped)
  BY <1>2, <1>8, <1>12, <1>13, RestIs
<1>15. InTime(all, sent) /\ Waiting(rest, all, sent)
  BY <1>1, <1>2, <1>4, <1>5, <1>6, <1>11, <1>14, GivenInTime
<1>16. /\ Len(all) = came + n /\ came + n \in Nat
       /\ \A r \in 1 .. came : all[r] = given[r]
       /\ Marked(taken, marks, all)
  BY <1>1, <1>2, <1>10, <1>11 DEF Gives, Marked
<1>17. PICK c \in Nat, a \in Nat, b \in Nat : OnTheirWay(c, a, b)
  BY DEF ChannelInv
<1>18. b <= came /\ came <= came + n /\ c <= a /\ a <= b
  BY <1>1, <1>2, <1>17 DEF OnTheirWay
<1>19. Held(m_rxBuffer, c, a, all) /\ Taken(scratch, a, b, all)
  BY <1>2, <1>16, <1>17, <1>18, WayLater DEF OnTheirWay
<1>20. Queued(rxSampleQueue, rxControlQueue, rxRssiQueue, b, came + n, all)
  BY <1>2, <1>16, <1>17, <1>18, QueuedLater DEF OnTheirWay
<1>21. AllUpTo(rxSampleQueue, came)
  BY <1>17 DEF OnTheirWay, Queued, AllUpTo
<1>22. /\ rxSampleQueue \in Seq(Nat) /\ rxControlQueue \in Seq(Nat) /\ rxRssiQueue \in Seq(Nat)
       /\ Len(rxControlQueue) = Len(rxSampleQueue) /\ Len(rxRssiQueue) = Len(rxSampleQueue)
  BY <1>20 DEF Queued
<1>23. /\ ns \in Seq(Nat) /\ nc \in Seq(Nat) /\ nr \in Seq(Nat)
       /\ Joins(ns, rxSampleQueue, taken) /\ Joins(nc, rxControlQueue, marks) /\ Joins(nr, rxRssiQueue, taken)
  BY <1>7, <1>10, <1>22, QueueJoins
<1>24. Queued(ns, nc, nr, b, came + n, all)
  BY <1>1, <1>2, <1>4, <1>16, <1>18, <1>20, <1>21, <1>23, QueuedMore
<1>25. \E low \in Nat : /\ b <= low /\ low <= came + n
                        /\ Queued(rxSampleQueue', rxControlQueue', rxRssiQueue', low, came + n, all)
                        /\ Len(rxSampleQueue') <= QueueLen + Max(WorkBursts)
  <2>1. CASE /\ rxSampleQueue' = ns /\ rxControlQueue' = nc /\ rxRssiQueue' = nr
             /\ Len(taken) < n /\ Len(rxSampleQueue) <= QueueLen
    <3>1. Len(ns) = Len(rxSampleQueue) + Len(taken) /\ Len(rxSampleQueue) \in Nat
      BY <1>22, <1>23 DEF Joins
    <3>2. Len(ns) <= QueueLen + Max(WorkBursts)
      BY <1>1, <1>3, <2>1, <3>1
    <3>3. b <= came + n
      BY <1>1, <1>2, <1>18
    <3>4. QED
      BY <1>24, <2>1, <3>2, <3>3
  <2>2. CASE /\ rxSampleQueue' = Newest(ns, QueueLen) /\ rxControlQueue' = Newest(nc, QueueLen)
             /\ rxRssiQueue' = Newest(nr, QueueLen)
    <3>1. Len(nc) = Len(ns) /\ Len(nr) = Len(ns) /\ Len(ns) \in Nat
      BY <1>23, <1>24 DEF Queued
    <3>2. PICK k \in 0 .. Len(ns) : k = Excess(ns, QueueLen) /\ k = Excess(nc, QueueLen) /\ k = Excess(nr, QueueLen)
      <4>1. Excess(ns, QueueLen) \in 0 .. Len(ns)
        BY <1>1, <1>23, NewestIs
      <4>2. Excess(nc, QueueLen) = Excess(ns, QueueLen) /\ Excess(nr, QueueLen) = Excess(ns, QueueLen)
        BY <3>1 DEF Excess
      <4>3. QED
        BY <4>1, <4>2
    <3>3. rxSampleQueue' \in Seq(Nat) /\ IsRest(rxSampleQueue', ns, k) /\ Len(rxSampleQueue') <= QueueLen
      BY <1>1, <1>23, <2>2, <3>2, NewestIs
    <3>4. rxControlQueue' \in Seq(Nat) /\ IsRest(rxControlQueue', nc, k)
      BY <1>1, <1>23, <2>2, <3>2, NewestIs
    <3>5. rxRssiQueue' \in Seq(Nat) /\ IsRest(rxRssiQueue', nr, k)
      BY <1>1, <1>23, <2>2, <3>2, NewestIs
    <3>6. Len(rxSampleQueue') <= QueueLen + Max(WorkBursts)
      <4>1. Len(rxSampleQueue') \in Nat
        BY <3>3
      <4>2. QED
        BY <1>1, <3>3, <4>1
    <3>7. k \in Nat /\ (k # 0 => k \in 1 .. Len(ns))
      BY <3>1
    <3>8. PICK low \in Nat : /\ k = 0 => low = b
                             /\ k # 0 => low = ns[k]
                             /\ b <= low /\ low <= came + n
      <4>1. CASE k = 0
        BY <1>1, <1>2, <1>18, <4>1
      <4>2. CASE k # 0
        <5>1. ns[k] \in Nat /\ b < ns[k] /\ ns[k] <= came + n
          BY <1>24, <3>7, <4>2 DEF Queued
        <5>2. QED
          BY <4>2, <5>1
      <4>3. QED
        BY <4>1, <4>2
    <3>9. Queued(rxSampleQueue', rxControlQueue', rxRssiQueue', low, came + n, all)
      BY <1>16, <1>24, <3>2, <3>3, <3>4, <3>5, <3>8, QueuedRest
    <3>10. QED
      BY <3>6, <3>8, <3>9
  <2>3. QED
    BY <1>9, <2>1, <2>2
<1>26. ChannelLimits'
  <2>1. Len(rxSampleQueue') <= QueueLen + Max(WorkBursts)
    BY <1>25
  <2>2. Len(rest) <= Delay + MaxLag
    <3>1. Len(rest) = Len(delayedControl) - popped /\ Len(delayedControl) \in Nat
      BY <1>2, <1>14 DEF IsRest
    <3>2. Len(delayedControl) <= Delay + MaxLag
      BY <1>2 DEF ChannelLimits
    <3>3. QED
      BY <3>1, <3>2, ChannelConstants
  <2>3. QED
    BY <1>2, <1>8, <1>13, <1>16, <2>1, <2>2 DEF ChannelLimits
<1>27. Waiting(delayedControl, given, sent)' /\ InTime(given, sent)'
  BY <1>8, <1>13, <1>15
<1>28. \E low \in Nat : OnTheirWay(c, a, low)'
  <2>1. PICK low \in Nat : /\ b <= low /\ low <= came + n
                           /\ Queued(rxSampleQueue', rxControlQueue', rxRssiQueue', low, came + n, all)
    BY <1>25
  <2>2. Taken(scratch, a, low, all)
    BY <1>19, <2>1, TakenLater
  <2>3. a <= low
    BY <1>18, <2>1
  <2>4. OnTheirWay(c, a, low)'
    BY <1>8, <1>17, <1>18, <1>19, <2>1, <2>2, <2>3 DEF OnTheirWay
  <2>5. QED
    BY <2>4
<1>29. QED
  BY <1>26, <1>27, <1>28 DEF ChannelInv
LEMMA ChannelTuned ==
  ASSUME ChannelInv, SetChannelParams
  PROVE  ChannelInv'
<1>1. /\ rxFreq' = TRUE
      /\ UNCHANGED <<delayedControl, rxSampleQueue, rxControlQueue, rxRssiQueue, scratch, putRssi,
                     m_rxBuffer, m_rssiBuffer, fed, sent, came, given>>
  BY DEF SetChannelParams, queues, rings
<1>2. ChannelLimits'
  BY <1>1 DEF ChannelInv, ChannelLimits
<1>3. \E c \in Nat, a \in Nat, b \in Nat : OnTheirWay(c, a, b)'
  BY <1>1 DEF ChannelInv, OnTheirWay
<1>4. Waiting(delayedControl, given, sent)' /\ InTime(given, sent)'
  BY <1>1 DEF ChannelInv
<1>5. QED
  BY <1>2, <1>3, <1>4 DEF ChannelInv

\* The burst the rx thread pops is what was at the front of the queues.
FirstOf(qs, qc, qr, n) == [i \in 1 .. n |-> [sample |-> qs[i], control |-> qc[i], rssi |-> qr[i]]]

LEMMA TakenFirst ==
  ASSUME NEW qs, NEW qc, NEW qr, NEW lo \in Nat, NEW hi \in Nat, NEW g, Queued(qs, qc, qr, lo, hi, g),
         NEW n \in 1 .. Len(qs), NEW burst, burst = FirstOf(qs, qc, qr, n)
  PROVE  Taken(burst, lo, qs[n], g) /\ Len(burst) = n
<1>1. PICK l \in Nat : l = Len(qs) /\ Len(qc) = l /\ Len(qr) = l
  BY LenProperties DEF Queued
<1>2. n \in Nat /\ n <= l
  BY <1>1
<1>3. \A i \in 1 .. l : qs[i] \in Nat /\ qc[i] \in Nat /\ qr[i] \in Nat
  <2>1. qs \in Seq(Nat) /\ qc \in Seq(Nat) /\ qr \in Seq(Nat)
    BY DEF Queued
  <2>2. \A i \in 1 .. Len(qs) : qs[i] \in Nat
    BY <2>1
  <2>3. \A i \in 1 .. Len(qc) : qc[i] \in Nat
    BY <2>1
  <2>4. \A i \in 1 .. Len(qr) : qr[i] \in Nat
    BY <2>1
  <2>5. QED
    BY <1>1, <2>2, <2>3, <2>4
<1>4. /\ \A i \in 1 .. l : lo < qs[i] /\ qs[i] <= hi /\ qc[i] = g[qs[i]] /\ qr[i] = qs[i]
      /\ \A i, j \in 1 .. l : i < j => qs[i] < qs[j]
  BY <1>1 DEF Queued
<1>5. \A i \in 1 .. n : /\ burst[i].sample = qs[i] /\ burst[i].control = qc[i] /\ burst[i].rssi = qr[i]
                        /\ burst[i] \in Burst
  BY <1>2, <1>3 DEF Burst, FirstOf
<1>6. burst \in [1 .. n -> Burst]
  BY <1>5 DEF FirstOf
<1>7. burst \in Seq(Burst) /\ Len(burst) = n
  BY <1>2, <1>6
<1>8. ASSUME NEW i \in 1 .. n
      PROVE  /\ lo < burst[i].sample /\ burst[i].sample <= qs[n]
             /\ burst[i].control = g[burst[i].sample] /\ burst[i].rssi = burst[i].sample
  <2>1. i \in 1 .. l /\ n \in 1 .. l
    BY <1>2
  <2>2. qs[i] <= qs[n]
    <3>1. CASE i = n
      BY <1>3, <2>1, <3>1
    <3>2. CASE i < n
      <4>1. qs[i] < qs[n]
        BY <1>4, <2>1, <3>2
      <4>2. QED
        BY <1>3, <2>1, <4>1
    <3>3. QED
      BY <1>2, <3>1, <3>2
  <2>3. QED
    BY <1>4, <1>5, <2>1, <2>2
<1>9. ASSUME NEW i \in 1 .. n, NEW j \in 1 .. n, i < j PROVE burst[i].sample < burst[j].sample
  <2>1. i \in 1 .. l /\ j \in 1 .. l
    BY <1>2
  <2>2. QED
    BY <1>4, <1>5, <1>9, <2>1
<1>10. QED
  BY <1>7, <1>8, <1>9 DEF Taken

LEMMA ChannelPops ==
  ASSUME RxChannelAssumption, ChannelInv, Pop
  PROVE  ChannelInv'
<1> DEFINE n == IF Len(rxSampleQueue) < PopBurst THEN Len(rxSampleQueue) ELSE PopBurst
<1> HIDE DEF n
<1>1. /\ scratch = <<>> /\ rxSampleQueue # <<>>
      /\ scratch' = [i \in 1 .. n |-> [sample |-> rxSampleQueue[i],
                        control |-> rxControlQueue[i], rssi |-> rxRssiQueue[i]]]
      /\ rxSampleQueue' = SubSeq(rxSampleQueue, n + 1, Len(rxSampleQueue))
      /\ rxControlQueue' = SubSeq(rxControlQueue, n + 1, Len(rxControlQueue))
      /\ rxRssiQueue' = SubSeq(rxRssiQueue, n + 1, Len(rxRssiQueue))
      /\ UNCHANGED <<rxFreq, delayedControl, putRssi, m_rxBuffer, m_rssiBuffer, fed, sent, came, given>>
  BY DEF Pop, n
<1>2. /\ ChannelLimits /\ Waiting(delayedControl, given, sent) /\ InTime(given, sent) /\ came \in Nat
  BY DEF ChannelInv, ChannelLimits
<1>3. PICK c \in Nat, a \in Nat, b \in Nat : OnTheirWay(c, a, b)
  BY DEF ChannelInv
<1>4. Queued(rxSampleQueue, rxControlQueue, rxRssiQueue, b, came, given) /\ c <= a /\ a <= b /\ b <= came
  BY <1>3 DEF OnTheirWay
<1>5. /\ rxSampleQueue \in Seq(Nat) /\ rxControlQueue \in Seq(Nat) /\ rxRssiQueue \in Seq(Nat)
      /\ Len(rxControlQueue) = Len(rxSampleQueue) /\ Len(rxRssiQueue) = Len(rxSampleQueue)
  BY <1>4 DEF Queued
<1>6. PICK l \in Nat : l = Len(rxSampleQueue)
  BY <1>5, LenProperties
<1>7. l # 0
  BY <1>1, <1>5, <1>6
<1>8. n \in 1 .. l /\ n <= PopBurst
  BY <1>6, <1>7, ChannelConstants DEF n
<1>9. n \in 1 .. Len(rxSampleQueue) /\ n \in 0 .. Len(rxSampleQueue) /\ n # 0
  BY <1>6, <1>8
<1>10. PICK low \in Nat : low = rxSampleQueue[n] /\ b < low /\ low <= came
  <2>1. rxSampleQueue[n] \in Nat
    BY <1>5, <1>9
  <2>2. b < rxSampleQueue[n] /\ rxSampleQueue[n] <= came
    BY <1>4, <1>9 DEF Queued
  <2>3. QED
    BY <2>1, <2>2
<1>11. Taken(scratch', b, low, given) /\ Len(scratch') = n
  <2>1. PICK burst : burst = scratch'
    OBVIOUS
  <2>2. burst = FirstOf(rxSampleQueue, rxControlQueue, rxRssiQueue, n)
    BY <1>1, <2>1, Zenon DEF FirstOf
  <2>3. Taken(burst, b, rxSampleQueue[n], given) /\ Len(burst) = n
    BY <1>2, <1>4, <1>9, <2>2, TakenFirst
  <2>4. QED
    BY <1>10, <2>1, <2>3, Zenon
<1>12. Taken(scratch', a, low, given)
  <2>1. \A i \in 1 .. Len(scratch') : scratch'[i] \in Burst /\ b < scratch'[i].sample
    BY <1>11 DEF Taken
  <2>2. \A i \in 1 .. Len(scratch') : a < scratch'[i].sample
    BY <1>4, <2>1 DEF Burst
  <2>3. QED
    BY <1>11, <2>2 DEF Taken
<1>13. rxSampleQueue' \in Seq(Nat) /\ IsRest(rxSampleQueue', rxSampleQueue, n)
  BY <1>1, <1>5, <1>9, RestIs
<1>14. rxControlQueue' \in Seq(Nat) /\ IsRest(rxControlQueue', rxControlQueue, n)
  BY <1>1, <1>5, <1>9, RestIs
<1>15. rxRssiQueue' \in Seq(Nat) /\ IsRest(rxRssiQueue', rxRssiQueue, n)
  BY <1>1, <1>5, <1>9, RestIs
<1>16. Queued(rxSampleQueue', rxControlQueue', rxRssiQueue', low, came, given)
  BY <1>2, <1>4, <1>9, <1>10, <1>13, <1>14, <1>15, QueuedRest
<1>17. ChannelLimits'
  <2>1. Len(scratch') <= PopBurst
    BY <1>8, <1>11
  <2>2. Len(rxSampleQueue') <= QueueLen + Max(WorkBursts)
    <3>1. Len(rxSampleQueue') = l - n
      BY <1>6, <1>13 DEF IsRest
    <3>2. l <= QueueLen + Max(WorkBursts)
      BY <1>2, <1>6 DEF ChannelLimits
    <3>3. l - n <= l
      BY <1>8
    <3>4. QED
      BY <1>8, <3>1, <3>2, <3>3, ChannelConstants, BurstsBounded
  <2>3. QED
    BY <1>1, <1>2, <2>1, <2>2 DEF ChannelLimits
<1>18. a <= low
  BY <1>4, <1>10
<1>19. OnTheirWay(c, a, low)'
  BY <1>1, <1>3, <1>4, <1>10, <1>12, <1>16, <1>18 DEF OnTheirWay
<1>20. Waiting(delayedControl, given, sent)' /\ InTime(given, sent)'
  BY <1>1, <1>2
<1>21. QED
  BY <1>17, <1>19, <1>20 DEF ChannelInv

\* A sample is put into its ring, or lost when that is full, and its strength is next.
LEMMA HeldMore ==
  ASSUME RxChannelAssumption,
         NEW ring, NEW lo \in Nat, NEW hi \in Nat, NEW g, Held(ring, lo, hi, g), lo <= hi,
         NEW put \in Pair, put.control = g[put.sample], hi < put.sample, Len(ring) # RingLen
  PROVE  Held(Append(ring, put), lo, put.sample, g)
<1>1. PICK l \in Nat : l = Len(ring) /\ ring \in Seq(Pair) /\ l < RingLen
  <2>1. ring \in Seq(Pair) /\ Len(ring) <= RingLen
    BY DEF Held
  <2>2. Len(ring) \in Nat
    BY <2>1
  <2>3. QED
    BY <2>1, <2>2, ChannelConstants
<1>2. PICK more : more = Append(ring, put)
  OBVIOUS
<1>3. /\ more \in Seq(Pair) /\ Len(more) = l + 1 /\ more[l + 1] = put
      /\ \A i \in 1 .. l : more[i] = ring[i]
  BY <1>1, <1>2
<1>4. put.sample \in Nat
  BY DEF Pair
<1>5. \A i \in 1 .. l : /\ ring[i].sample \in Nat /\ lo < ring[i].sample /\ ring[i].sample <= hi
                        /\ ring[i].control = g[ring[i].sample]
  <2>1. \A i \in 1 .. l : ring[i] \in Pair
    BY <1>1
  <2>2. \A i \in 1 .. l : ring[i].sample \in Nat
    BY <2>1 DEF Pair
  <2>3. QED
    BY <1>1, <2>2 DEF Held
<1>6. ASSUME NEW i \in 1 .. l + 1
      PROVE  lo < more[i].sample /\ more[i].sample <= put.sample /\ more[i].control = g[more[i].sample]
  <2>1. CASE i = l + 1
    BY <1>3, <1>4, <2>1
  <2>2. CASE i \in 1 .. l
    <3>1. more[i] = ring[i]
      BY <1>3, <2>2
    <3>2. ring[i].sample <= put.sample
      BY <1>4, <1>5, <2>2
    <3>3. QED
      BY <1>5, <2>2, <3>1, <3>2
  <2>3. QED
    BY <2>1, <2>2
<1>7. ASSUME NEW i \in 1 .. l + 1, NEW j \in 1 .. l + 1, i < j PROVE more[i].sample < more[j].sample
  <2>1. i \in 1 .. l /\ more[i] = ring[i]
    BY <1>3, <1>7
  <2>2. CASE j = l + 1
    <3>1. more[j] = put
      BY <1>3, <2>2
    <3>2. QED
      BY <1>4, <1>5, <2>1, <3>1
  <2>3. CASE j \in 1 .. l
    <3>1. more[j] = ring[j]
      BY <1>3, <2>3
    <3>2. ring[i].sample < ring[j].sample
      BY <1>1, <1>7, <2>1, <2>3 DEF Held
    <3>3. QED
      BY <2>1, <3>1, <3>2
  <2>4. QED
    BY <2>2, <2>3
<1>8. Held(more, lo, put.sample, g)
  <2>1. l + 1 <= RingLen
    BY <1>1, ChannelConstants
  <2>2. QED
    BY <1>3, <1>6, <1>7, <2>1 DEF Held
<1>9. QED
  BY <1>2, <1>8

LEMMA HeldTyped ==
  ASSUME NEW ring, NEW lo, NEW hi, NEW g, Held(ring, lo, hi, g)
  PROVE  /\ ring \in Seq(Pair) /\ Len(ring) \in Nat /\ Len(ring) <= RingLen
         /\ \A i \in 1 .. Len(ring) : ring[i] \in Pair /\ ring[i].sample \in Nat /\ ring[i].control \in Nat
<1>1. ring \in Seq(Pair) /\ Len(ring) <= RingLen
  BY DEF Held
<1>2. Len(ring) \in Nat /\ \A i \in 1 .. Len(ring) : ring[i] \in Pair
  BY <1>1
<1>3. QED
  BY <1>1, <1>2 DEF Pair

\* The strength that is put next is that of the sample that was put last, if it was put.
LEMMA MeasuredPut ==
  ASSUME RxChannelAssumption, NEW ring, NEW lo, NEW hi \in Nat, NEW g, Held(ring, lo, hi, g),
         NEW strengths, Measured(strengths, 0, ring, hi),
         NEW put \in Pair, hi < put.sample,
         NEW more, more = (IF Len(ring) = RingLen THEN ring ELSE Append(ring, put))
  PROVE  Measured(strengths, put.sample, more, put.sample)
<1>1. PICK l \in Nat : l = Len(ring) /\ ring \in Seq(Pair) /\ l <= RingLen
  BY HeldTyped
<1>2. PICK top \in Nat : top = put.sample /\ hi < top
  BY DEF Pair
<1>3. PICK m \in Nat : m = Len(strengths)
  BY LenProperties DEF Measured
<1>4. /\ strengths \in Seq(Nat) /\ m <= RingLen /\ l <= m
  BY <1>1, <1>3 DEF Measured
<1>5. \A i \in 1 .. m : strengths[i] # 0 /\ strengths[i] <= hi /\ (i <= l => strengths[i] <= ring[i].sample)
  BY <1>1, <1>3 DEF Measured
<1>6. \A i \in 1 .. m : strengths[i] \in Nat
  BY <1>3, <1>4
<1>7. \A i \in 1 .. m : strengths[i] <= top
  BY <1>2, <1>5, <1>6
<1>8. CASE l = RingLen
  <2>1. more = ring /\ l = m
    BY <1>1, <1>4, <1>8, ChannelConstants
  <2>2. top # 0 /\ l <= m + 1 /\ l # m + 1
    BY <1>2, <2>1
  <2>3. QED
    <3>1. \A i \in 1 .. m : i <= l => strengths[i] <= ring[i].sample
      BY <1>5
    <3>2. Measured(strengths, top, ring, top)
      BY <1>1, <1>3, <1>4, <1>5, <1>7, <2>2, <3>1 DEF Measured
    <3>3. QED
      BY <1>2, <2>1, <3>2
<1>9. CASE l # RingLen
  <2>1. more = Append(ring, put)
    BY <1>1, <1>9
  <2>2. /\ more \in Seq(Pair) /\ Len(more) = l + 1 /\ more[l + 1] = put
        /\ \A i \in 1 .. l : more[i] = ring[i]
    BY <1>1, <2>1
  <2>3. ASSUME NEW i \in 1 .. m, i <= l + 1 PROVE strengths[i] <= more[i].sample
    <3>1. CASE i = l + 1
      BY <1>2, <1>7, <2>2, <3>1
    <3>2. CASE i <= l
      <4>1. more[i] = ring[i]
        BY <2>2, <3>2
      <4>2. QED
        BY <1>5, <3>2, <4>1
    <3>3. i = l + 1 \/ i <= l
      BY <2>3
    <3>4. QED
      BY <3>1, <3>2, <3>3, Zenon
  <2>4. top # 0 /\ l + 1 <= m + 1 /\ more[l + 1].sample = top
    BY <1>2, <1>4, <2>2
  <2>5. QED
    BY <1>2, <1>3, <1>4, <1>5, <1>7, <2>2, <2>3, <2>4 DEF Measured
<1>10. QED
  BY <1>8, <1>9

LEMMA MeasuredNext ==
  ASSUME RxChannelAssumption, NEW ring, NEW lo, NEW hi \in Nat, NEW g, Held(ring, lo, hi, g),
         NEW strengths, NEW put, put # 0, Measured(strengths, put, ring, hi),
         NEW more, more = (IF Len(strengths) = RingLen THEN strengths ELSE Append(strengths, put))
  PROVE  Measured(more, 0, ring, hi)
<1>1. PICK l \in Nat : l = Len(ring) /\ l <= RingLen
  BY HeldTyped
<1>2. PICK m \in Nat : m = Len(strengths)
  BY LenProperties DEF Measured
<1>3. /\ strengths \in Seq(Nat) /\ m <= RingLen /\ put \in Nat /\ put <= hi /\ l <= m + 1
      /\ l = m + 1 => put <= ring[l].sample
  BY <1>1, <1>2 DEF Measured
<1>4. \A i \in 1 .. m : strengths[i] # 0 /\ strengths[i] <= hi /\ (i <= l => strengths[i] <= ring[i].sample)
  BY <1>1, <1>2 DEF Measured
<1>5. CASE m = RingLen
  <2>1. more = strengths /\ l <= m
    BY <1>1, <1>2, <1>5
  <2>2. QED
    BY <1>1, <1>2, <1>3, <1>4, <2>1 DEF Measured
<1>6. CASE m # RingLen
  <2>1. more = Append(strengths, put)
    BY <1>2, <1>6
  <2>2. /\ more \in Seq(Nat) /\ Len(more) = m + 1 /\ more[m + 1] = put
        /\ \A i \in 1 .. m : more[i] = strengths[i]
    BY <1>2, <1>3, <2>1
  <2>3. m + 1 <= RingLen
    BY <1>3, <1>6, ChannelConstants
  <2>4. ASSUME NEW i \in 1 .. m + 1
        PROVE  more[i] # 0 /\ more[i] <= hi /\ (i <= l => more[i] <= ring[i].sample)
    <3>1. CASE i = m + 1
      <4>1. i <= l => i = l /\ l = m + 1
        BY <1>3, <3>1
      <4>2. QED
        BY <1>3, <2>2, <3>1, <4>1
    <3>2. CASE i \in 1 .. m
      BY <1>4, <2>2, <3>2
    <3>3. i = m + 1 \/ i \in 1 .. m
      OBVIOUS
    <3>4. QED
      BY <3>1, <3>2, <3>3, Zenon
  <2>5. QED
    BY <1>1, <1>3, <2>2, <2>3, <2>4 DEF Measured
<1>7. QED
  BY <1>5, <1>6

LEMMA TakenRest ==
  ASSUME NEW burst, NEW lo \in Nat, NEW hi \in Nat, NEW g, Taken(burst, lo, hi, g), burst # <<>>
  PROVE  /\ Head(burst).sample \in Nat /\ Head(burst).control \in Nat
         /\ lo < Head(burst).sample /\ Head(burst).sample <= hi
         /\ Head(burst).control = g[Head(burst).sample] /\ Head(burst).rssi = Head(burst).sample
         /\ Taken(Tail(burst), Head(burst).sample, hi, g) /\ Len(Tail(burst)) = Len(burst) - 1
<1>1. burst \in Seq(Burst)
  BY DEF Taken
<1>2. PICK l \in Nat : l = Len(burst) /\ l # 0
  BY <1>1
<1>3. PICK rest : rest = Tail(burst)
  OBVIOUS
<1>4. /\ Head(burst) = burst[1] /\ rest \in Seq(Burst) /\ Len(rest) = l - 1
      /\ \A i \in 1 .. l - 1 : rest[i] = burst[i + 1]
  BY <1>1, <1>2, <1>3
<1>5. \A i \in 1 .. l : burst[i] \in Burst
  BY <1>1, <1>2
<1>6. \A i \in 1 .. l : burst[i].sample \in Nat /\ burst[i].control \in Nat
  BY <1>5 DEF Burst
<1>7. /\ \A i \in 1 .. l : /\ lo < burst[i].sample /\ burst[i].sample <= hi
                           /\ burst[i].control = g[burst[i].sample] /\ burst[i].rssi = burst[i].sample
      /\ \A i, j \in 1 .. l : i < j => burst[i].sample < burst[j].sample
  BY <1>2 DEF Taken
<1>8. ASSUME NEW i \in 1 .. l - 1
      PROVE  /\ burst[1].sample < rest[i].sample /\ rest[i].sample <= hi
             /\ rest[i].control = g[rest[i].sample] /\ rest[i].rssi = rest[i].sample
  <2>1. i + 1 \in 1 .. l /\ 1 \in 1 .. l /\ 1 < i + 1 /\ rest[i] = burst[i + 1]
    BY <1>2, <1>4
  <2>2. QED
    BY <1>7, <2>1
<1>9. ASSUME NEW i \in 1 .. l - 1, NEW j \in 1 .. l - 1, i < j PROVE rest[i].sample < rest[j].sample
  <2>1. /\ i + 1 \in 1 .. l /\ j + 1 \in 1 .. l /\ i + 1 < j + 1
        /\ rest[i] = burst[i + 1] /\ rest[j] = burst[j + 1]
    BY <1>2, <1>4, <1>9
  <2>2. QED
    BY <1>7, <2>1
<1>10. Taken(rest, burst[1].sample, hi, g)
  BY <1>4, <1>8, <1>9 DEF Taken
<1>11. 1 \in 1 .. l
  BY <1>2
<1>12. QED
  BY <1>2, <1>3, <1>4, <1>6, <1>7, <1>10, <1>11

LEMMA ChannelPuts ==
  ASSUME RxChannelAssumption, ChannelInv, PutSample
  PROVE  ChannelInv'
<1>1. /\ scratch # <<>> /\ putRssi = 0
      /\ m_rxBuffer' = (IF Len(m_rxBuffer) = RingLen THEN m_rxBuffer
                        ELSE Append(m_rxBuffer, [sample |-> Head(scratch).sample, control |-> Head(scratch).control]))
      /\ putRssi' = Head(scratch).rssi /\ scratch' = Tail(scratch)
      /\ UNCHANGED <<rxFreq, delayedControl, rxSampleQueue, rxControlQueue, rxRssiQueue, m_rssiBuffer,
                     fed, sent, came, given>>
  BY DEF PutSample, queues
<1>2. ChannelLimits /\ Waiting(delayedControl, given, sent) /\ InTime(given, sent) /\ came \in Nat
  BY DEF ChannelInv, ChannelLimits
<1>3. PICK c \in Nat, a \in Nat, b \in Nat : OnTheirWay(c, a, b)
  BY DEF ChannelInv
<1>4. /\ c <= a /\ a <= b /\ b <= came /\ Held(m_rxBuffer, c, a, given)
      /\ Measured(m_rssiBuffer, 0, m_rxBuffer, a) /\ Taken(scratch, a, b, given)
  BY <1>1, <1>3 DEF OnTheirWay
<1>5. /\ Head(scratch).sample \in Nat /\ Head(scratch).control \in Nat
      /\ a < Head(scratch).sample /\ Head(scratch).sample <= b
      /\ Head(scratch).control = given[Head(scratch).sample] /\ Head(scratch).rssi = Head(scratch).sample
      /\ Taken(Tail(scratch), Head(scratch).sample, b, given) /\ Len(Tail(scratch)) = Len(scratch) - 1
  BY <1>1, <1>4, TakenRest
<1>6. PICK low \in Nat : low = Head(scratch).sample /\ a < low /\ low <= b
  BY <1>5
<1>7. PICK put \in Pair : /\ put = [sample |-> Head(scratch).sample, control |-> Head(scratch).control]
                          /\ put.sample = low /\ put.control = given[put.sample]
  <2>1. [sample |-> Head(scratch).sample, control |-> Head(scratch).control] \in Pair
    BY <1>5 DEF Pair
  <2>2. PICK put \in Pair : put = [sample |-> Head(scratch).sample, control |-> Head(scratch).control]
    BY <2>1
  <2>3. put.sample = Head(scratch).sample /\ put.control = Head(scratch).control
    BY <2>2
  <2>4. put.sample = low
    BY <1>6, <2>3
  <2>5. put.control = given[put.sample]
    BY <1>5, <2>3
  <2>6. QED
    BY <2>2, <2>4, <2>5, Zenon
<1>8. PICK ring : ring = m_rxBuffer'
  OBVIOUS
<1>9. ring = (IF Len(m_rxBuffer) = RingLen THEN m_rxBuffer ELSE Append(m_rxBuffer, put))
  BY <1>1, <1>7, <1>8, Zenon
<1>10. Measured(m_rssiBuffer, low, ring, low)
  <2>1. a < put.sample
    BY <1>6, <1>7
  <2>2. Measured(m_rssiBuffer, put.sample, ring, put.sample)
    BY <1>4, <1>9, <2>1, MeasuredPut
  <2>3. QED
    BY <1>7, <2>2
<1>11. Held(ring, c, low, given)
  <2>1. CASE Len(m_rxBuffer) = RingLen
    <3>1. ring = m_rxBuffer
      BY <1>9, <2>1
    <3>2. \A i \in 1 .. Len(ring) : ring[i].sample \in Nat
      BY <1>4, <3>1, HeldTyped
    <3>3. \A i \in 1 .. Len(ring) : ring[i].sample <= low
      BY <1>4, <1>6, <3>1, <3>2 DEF Held
    <3>4. QED
      BY <1>4, <3>1, <3>3 DEF Held
  <2>2. CASE Len(m_rxBuffer) # RingLen
    <3>1. ring = Append(m_rxBuffer, put)
      BY <1>9, <2>2
    <3>2. a < put.sample
      BY <1>6, <1>7
    <3>3. Held(Append(m_rxBuffer, put), c, put.sample, given)
      BY <1>4, <1>7, <2>2, <3>2, HeldMore
    <3>4. QED
      BY <1>7, <3>1, <3>3
  <2>3. QED
    BY <2>1, <2>2
<1>12. putRssi' = low /\ Taken(scratch', low, b, given) /\ c <= low
  BY <1>1, <1>4, <1>5, <1>6
<1>13. OnTheirWay(c, low, b)'
  BY <1>1, <1>3, <1>4, <1>6, <1>8, <1>10, <1>11, <1>12 DEF OnTheirWay
<1>14. ChannelLimits'
  <2>1. Len(scratch') <= PopBurst
    <3>1. Len(scratch) \in Nat /\ Len(scratch) <= PopBurst
      BY <1>2, <1>4, LenProperties DEF ChannelLimits, Taken
    <3>2. QED
      BY <1>1, <1>5, <3>1, ChannelConstants
  <2>2. QED
    BY <1>1, <1>2, <2>1 DEF ChannelLimits
<1>15. Waiting(delayedControl, given, sent)' /\ InTime(given, sent)'
  BY <1>1, <1>2
<1>16. QED
  BY <1>13, <1>14, <1>15 DEF ChannelInv

LEMMA ChannelMeasures ==
  ASSUME RxChannelAssumption, ChannelInv, PutRssi
  PROVE  ChannelInv'
<1>1. /\ putRssi # 0 /\ putRssi' = 0
      /\ m_rssiBuffer' = (IF Len(m_rssiBuffer) = RingLen THEN m_rssiBuffer ELSE Append(m_rssiBuffer, putRssi))
      /\ UNCHANGED <<rxFreq, delayedControl, rxSampleQueue, rxControlQueue, rxRssiQueue, scratch, m_rxBuffer,
                     fed, sent, came, given>>
  BY DEF PutRssi, RssiPut, queues
<1>2. ChannelLimits /\ Waiting(delayedControl, given, sent) /\ InTime(given, sent)
  BY DEF ChannelInv
<1>3. PICK c \in Nat, a \in Nat, b \in Nat : OnTheirWay(c, a, b)
  BY DEF ChannelInv
<1>4. Held(m_rxBuffer, c, a, given) /\ Measured(m_rssiBuffer, putRssi, m_rxBuffer, a)
  BY <1>3 DEF OnTheirWay
<1>5. Measured(m_rssiBuffer', 0, m_rxBuffer, a)
  BY <1>1, <1>4, MeasuredNext
<1>6. OnTheirWay(c, a, b)'
  BY <1>1, <1>3, <1>5 DEF OnTheirWay
<1>7. ChannelLimits'
  BY <1>1, <1>2 DEF ChannelLimits
<1>8. Waiting(delayedControl, given, sent)' /\ InTime(given, sent)'
  BY <1>1, <1>2
<1>9. QED
  BY <1>6, <1>7, <1>8 DEF ChannelInv

\* A block is taken from both rings.
LEMMA HeldRest ==
  ASSUME RxChannelAssumption,
         NEW ring, NEW lo \in Nat, NEW hi \in Nat, NEW g, Held(ring, lo, hi, g), Len(ring) >= Block,
         NEW rest \in Seq(Pair), IsRest(rest, ring, Block)
  PROVE  Held(rest, ring[Block].sample, hi, g)
<1>1. PICK l \in Nat : l = Len(ring) /\ l <= RingLen /\ Block <= l
  BY HeldTyped
<1>2. Block \in Nat /\ Block \in 1 .. l
  BY <1>1, ChannelConstants
<1>3. Len(rest) = l - Block /\ \A i \in 1 .. l - Block : rest[i] = ring[Block + i]
  BY <1>1 DEF IsRest
<1>4. /\ \A i \in 1 .. l : ring[i].sample <= hi /\ ring[i].control = g[ring[i].sample]
      /\ \A i, j \in 1 .. l : i < j => ring[i].sample < ring[j].sample
  BY <1>1 DEF Held
<1>5. ASSUME NEW i \in 1 .. l - Block
      PROVE  /\ ring[Block].sample < rest[i].sample /\ rest[i].sample <= hi
             /\ rest[i].control = g[rest[i].sample]
  <2>1. Block + i \in 1 .. l /\ Block < Block + i /\ rest[i] = ring[Block + i]
    BY <1>2, <1>3
  <2>2. QED
    BY <1>2, <1>4, <2>1
<1>6. ASSUME NEW i \in 1 .. l - Block, NEW j \in 1 .. l - Block, i < j PROVE rest[i].sample < rest[j].sample
  <2>1. /\ Block + i \in 1 .. l /\ Block + j \in 1 .. l /\ Block + i < Block + j
        /\ rest[i] = ring[Block + i] /\ rest[j] = ring[Block + j]
    BY <1>2, <1>3, <1>6
  <2>2. QED
    BY <1>4, <2>1
<1>7. l - Block <= RingLen
  BY <1>1, <1>2, ChannelConstants
<1>8. QED
  BY <1>3, <1>5, <1>6, <1>7 DEF Held

LEMMA MeasuredRest ==
  ASSUME RxChannelAssumption,
         NEW ring, NEW lo \in Nat, NEW hi \in Nat, NEW g, Held(ring, lo, hi, g), Len(ring) >= Block,
         NEW strengths, NEW put, Measured(strengths, put, ring, hi),
         NEW there, there = (IF Len(strengths) < Block THEN Len(strengths) ELSE Block),
         NEW rest, IsRest(rest, ring, Block),
         NEW left \in Seq(Nat), IsRest(left, strengths, there)
  PROVE  Measured(left, put, rest, hi)
<1>1. PICK l \in Nat : l = Len(ring) /\ l <= RingLen /\ Block <= l
  BY HeldTyped
<1>2. PICK m \in Nat : m = Len(strengths)
  BY LenProperties DEF Measured
<1>3. Block \in Nat /\ Block > 0
  BY ChannelConstants
<1>4. Len(rest) = l - Block /\ \A i \in 1 .. l - Block : rest[i] = ring[Block + i]
  BY <1>1 DEF IsRest
<1>5. /\ m <= RingLen /\ put \in Nat /\ put <= hi
      /\ put = 0 => l <= m
      /\ put # 0 => l <= m + 1 /\ (l = m + 1 => put <= ring[l].sample)
  BY <1>1, <1>2 DEF Measured
<1>6. \A i \in 1 .. m : strengths[i] # 0 /\ strengths[i] <= hi /\ (i <= l => strengths[i] <= ring[i].sample)
  BY <1>1, <1>2 DEF Measured
<1>7. CASE m < Block
  <2>1. there = m /\ Len(left) = 0 /\ l = Block /\ put # 0
    BY <1>1, <1>2, <1>3, <1>5, <1>7 DEF IsRest
  <2>2. Len(rest) = 0
    BY <1>1, <1>3, <1>4, <2>1
  <2>3. 0 <= RingLen
    BY ChannelConstants
  <2>4. QED
    BY <1>5, <2>1, <2>2, <2>3 DEF Measured
<1>8. CASE m >= Block
  <2>1. there = Block
    BY <1>2, <1>3, <1>8
  <2>2. Len(left) = m - Block /\ \A i \in 1 .. m - Block : left[i] = strengths[Block + i]
    BY <1>2, <2>1 DEF IsRest
  <2>3. ASSUME NEW i \in 1 .. m - Block
        PROVE  left[i] # 0 /\ left[i] <= hi /\ (i <= l - Block => left[i] <= rest[i].sample)
    <3>1. Block + i \in 1 .. m /\ left[i] = strengths[Block + i]
      BY <1>3, <1>8, <2>2
    <3>2. strengths[Block + i] # 0 /\ strengths[Block + i] <= hi
      BY <1>6, <3>1
    <3>3. ASSUME i <= l - Block PROVE left[i] <= rest[i].sample
      <4>1. Block + i <= l /\ rest[i] = ring[Block + i]
        BY <1>1, <1>3, <1>4, <3>3
      <4>2. strengths[Block + i] <= ring[Block + i].sample
        BY <1>6, <3>1, <4>1
      <4>3. QED
        BY <3>1, <4>1, <4>2
    <3>4. QED
      BY <3>1, <3>2, <3>3
  <2>4. m - Block <= RingLen /\ m - Block \in Nat /\ l - Block \in Nat
    <3>1. RingLen \in Nat
      BY ChannelConstants, Zenon
    <3>2. QED
      BY <1>1, <1>3, <1>5, <1>8, <3>1
  <2>5. put = 0 => l - Block <= m - Block
    BY <1>3, <1>5
  <2>6. put # 0 => l - Block <= (m - Block) + 1
    BY <1>3, <1>5
  <2>7. ASSUME put # 0, l - Block = (m - Block) + 1 PROVE put <= rest[l - Block].sample
    <3>1. l = m + 1 /\ l - Block \in 1 .. l - Block /\ Block + (l - Block) = l
      BY <1>1, <1>3, <1>8, <2>7
    <3>2. rest[l - Block] = ring[l]
      BY <1>4, <3>1
    <3>3. QED
      BY <1>5, <2>7, <3>1, <3>2
  <2>8. QED
    BY <1>4, <1>5, <2>2, <2>3, <2>4, <2>5, <2>6, <2>7 DEF Measured
<1>9. QED
  BY <1>1, <1>2, <1>3, <1>7, <1>8

\* What a receiver is fed.
LEMMA ChannelFeeds ==
  ASSUME RxChannelAssumption, ChannelInv, Drain
  PROVE  ChannelInv' /\ BlockTogether
<1> DEFINE there == IF Len(m_rssiBuffer) < Block THEN Len(m_rssiBuffer) ELSE Block
<1> HIDE DEF there
<1>1. /\ Len(m_rxBuffer) >= Block
      /\ fed' = [i \in 1 .. Block |-> [sample |-> m_rxBuffer[i].sample, control |-> m_rxBuffer[i].control,
                                       rssi |-> IF i <= there THEN m_rssiBuffer[i] ELSE 0]]
      /\ m_rssiBuffer' = SubSeq(m_rssiBuffer, there + 1, Len(m_rssiBuffer))
      /\ m_rxBuffer' = SubSeq(m_rxBuffer, Block + 1, Len(m_rxBuffer))
      /\ UNCHANGED <<rxFreq, delayedControl, rxSampleQueue, rxControlQueue, rxRssiQueue, scratch, putRssi,
                     sent, came, given>>
  BY DEF Drain, queues, None, there
<1>2. ChannelLimits /\ Waiting(delayedControl, given, sent) /\ InTime(given, sent)
  BY DEF ChannelInv
<1>3. PICK c \in Nat, a \in Nat, b \in Nat : OnTheirWay(c, a, b)
  BY DEF ChannelInv
<1>4. /\ c <= a /\ Held(m_rxBuffer, c, a, given) /\ Measured(m_rssiBuffer, putRssi, m_rxBuffer, a)
      /\ fed # <<>> => fed[Block].sample \in Nat /\ fed[Block].sample <= c
  BY <1>3 DEF OnTheirWay
<1>5. PICK l \in Nat : l = Len(m_rxBuffer) /\ m_rxBuffer \in Seq(Pair) /\ Block <= l
  BY <1>1, <1>4, HeldTyped
<1>6. PICK m \in Nat : m = Len(m_rssiBuffer) /\ m_rssiBuffer \in Seq(Nat)
  BY <1>4, LenProperties DEF Measured
<1>7. Block \in Nat /\ Block > 0
  BY ChannelConstants
<1>8. there \in Nat /\ there <= m /\ there <= Block /\ there \in 0 .. Len(m_rssiBuffer)
  BY <1>6, <1>7 DEF there
<1>9. m_rxBuffer' \in Seq(Pair) /\ IsRest(m_rxBuffer', m_rxBuffer, Block)
  <2>1. Block \in 0 .. Len(m_rxBuffer)
    BY <1>5, <1>7
  <2>2. QED
    BY <1>1, <1>5, <2>1, RestIs
<1>10. m_rssiBuffer' \in Seq(Nat) /\ IsRest(m_rssiBuffer', m_rssiBuffer, there)
  BY <1>1, <1>6, <1>8, RestIs
<1>11. PICK low \in Nat : low = m_rxBuffer[Block].sample /\ c < low /\ low <= a
  <2>1. Block \in 1 .. Len(m_rxBuffer)
    BY <1>5, <1>7
  <2>2. m_rxBuffer[Block].sample \in Nat
    BY <1>4, <2>1, HeldTyped
  <2>3. c < m_rxBuffer[Block].sample /\ m_rxBuffer[Block].sample <= a
    BY <1>4, <2>1 DEF Held
  <2>4. QED
    BY <2>2, <2>3
<1>12. Held(m_rxBuffer', low, a, given)
  BY <1>1, <1>4, <1>9, <1>11, HeldRest
<1>13. Measured(m_rssiBuffer', putRssi, m_rxBuffer', a)
  BY <1>1, <1>4, <1>9, <1>10, MeasuredRest DEF there
<1>14. \A i \in 1 .. Block : /\ fed'[i].sample = m_rxBuffer[i].sample /\ fed'[i].control = m_rxBuffer[i].control
                             /\ fed'[i].rssi = IF i <= there THEN m_rssiBuffer[i] ELSE 0
  BY <1>1
<1>15. fed'[Block].sample = low
  BY <1>7, <1>11, <1>14
<1>16. OnTheirWay(low, a, b)'
  <2>1. fed'[Block].sample \in Nat /\ fed'[Block].sample <= low /\ low <= a
    BY <1>11, <1>15
  <2>2. QED
    BY <1>1, <1>3, <1>12, <1>13, <2>1 DEF OnTheirWay
<1>17. ChannelLimits'
  BY <1>1, <1>2 DEF ChannelLimits
<1>18. Waiting(delayedControl, given, sent)' /\ InTime(given, sent)'
  BY <1>1, <1>2
<1>19. ChannelInv'
  BY <1>16, <1>17, <1>18 DEF ChannelInv
<1>20. ASSUME NEW i \in 1 .. Block
       PROVE  /\ fed'[i].control = given[fed'[i].sample]
              /\ fed'[i].rssi <= fed'[i].sample
              /\ i > 1 => fed'[i - 1].sample < fed'[i].sample
              /\ fed # <<>> => fed[Block].sample < fed'[1].sample
  <2>1. i \in 1 .. Len(m_rxBuffer) /\ 1 \in 1 .. Len(m_rxBuffer) /\ 1 \in 1 .. Block
    BY <1>5, <1>7
  <2>2. m_rxBuffer[i].sample \in Nat /\ m_rxBuffer[1].sample \in Nat
    BY <1>4, <2>1, HeldTyped
  <2>3. m_rxBuffer[i].control = given[m_rxBuffer[i].sample] /\ c < m_rxBuffer[1].sample
    BY <1>4, <2>1 DEF Held
  <2>4. fed'[i].rssi <= fed'[i].sample
    <3>1. CASE i <= there
      <4>1. i \in 1 .. Len(m_rssiBuffer) /\ i <= Len(m_rxBuffer)
        BY <1>6, <1>8, <2>1, <3>1
      <4>2. m_rssiBuffer[i] <= m_rxBuffer[i].sample
        BY <1>4, <4>1 DEF Measured
      <4>3. QED
        BY <1>14, <3>1, <4>2
    <3>2. CASE ~(i <= there)
      BY <1>14, <2>2, <3>2
    <3>3. QED
      BY <3>1, <3>2
  <2>5. ASSUME i > 1 PROVE fed'[i - 1].sample < fed'[i].sample
    <3>1. i - 1 \in 1 .. Block /\ i - 1 \in 1 .. Len(m_rxBuffer) /\ i - 1 < i
      BY <1>5, <1>7, <2>1, <2>5
    <3>2. m_rxBuffer[i - 1].sample < m_rxBuffer[i].sample
      BY <1>4, <2>1, <3>1 DEF Held
    <3>3. QED
      BY <1>14, <3>1, <3>2
  <2>6. ASSUME fed # <<>> PROVE fed[Block].sample < fed'[1].sample
    <3>1. PICK first \in Nat : first = m_rxBuffer[1].sample /\ first = fed'[1].sample /\ c < first
      BY <1>14, <2>1, <2>2, <2>3
    <3>2. fed[Block].sample \in Nat /\ fed[Block].sample <= c
      BY <1>4, <2>6
    <3>3. QED
      BY <3>1, <3>2
  <2>7. QED
    BY <1>14, <2>3, <2>4, <2>5, <2>6
<1>21. BlockTogether
  BY <1>20 DEF BlockTogether
<1>22. QED
  BY <1>19, <1>21

LEMMA ChannelSteps ==
  ASSUME RxChannelAssumption, ChannelInv, Next
  PROVE  ChannelInv' /\ BlockTogether
<1>1. CASE Drain
  BY <1>1, ChannelFeeds
<1>2. ASSUME ~Drain PROVE ChannelInv' /\ fed' = fed
  <2>1. CASE SetChannelParams
    BY <2>1, ChannelTuned DEF SetChannelParams
  <2>2. CASE Radio
    <3>1. PICK n \in WorkBursts :
            \/ Dequeue(n) \/ Ignore(n)
            \/ \E taken \in Ascending(came + 1, came + n), afc \in BOOLEAN : Enqueue(n, taken, afc)
      BY <2>2 DEF Radio
    <3>2. CASE Dequeue(n)
      BY <3>2, ChannelSends DEF Dequeue
    <3>3. CASE Ignore(n)
      BY <3>3, ChannelIgnores DEF Ignore
    <3>4. ASSUME NEW taken, NEW afc, Enqueue(n, taken, afc) PROVE ChannelInv' /\ fed' = fed
      BY <3>4, ChannelComes DEF Enqueue
    <3>5. QED
      BY <3>1, <3>2, <3>3, <3>4
  <2>3. CASE Pop
    BY <2>3, ChannelPops DEF Pop
  <2>4. CASE PutSample
    BY <2>4, ChannelPuts DEF PutSample
  <2>5. CASE PutRssi
    BY <2>5, ChannelMeasures DEF PutRssi
  <2>6. QED
    BY <1>2, <2>1, <2>2, <2>3, <2>4, <2>5 DEF Next
<1>3. fed' = fed => BlockTogether
  BY DEF BlockTogether
<1>4. QED
  BY <1>1, <1>2, <1>3

LEMMA ChannelStays ==
  ASSUME ChannelInv, UNCHANGED vars
  PROVE  ChannelInv' /\ BlockTogether
<1>1. UNCHANGED <<rxFreq, delayedControl, rxSampleQueue, rxControlQueue, rxRssiQueue, scratch, putRssi,
                  m_rxBuffer, m_rssiBuffer, fed, sent, came, given>>
  BY DEF vars, queues, rings
<1>2. ChannelLimits'
  BY <1>1 DEF ChannelInv, ChannelLimits
<1>3. \E c \in Nat, a \in Nat, b \in Nat : OnTheirWay(c, a, b)'
  BY <1>1 DEF ChannelInv, OnTheirWay
<1>4. Waiting(delayedControl, given, sent)' /\ InTime(given, sent)'
  BY <1>1 DEF ChannelInv
<1>5. BlockTogether
  BY <1>1 DEF BlockTogether
<1>6. QED
  BY <1>2, <1>3, <1>4, <1>5 DEF ChannelInv

LEMMA ChannelMarked ==
  ASSUME ChannelInv
  PROVE  MarksInTime
<1>1. InTime(given, sent)
  BY DEF ChannelInv
<1>2. PICK l \in Nat : l = Len(given)
  BY <1>1, LenProperties DEF InTime
<1>3. DOMAIN given = 1 .. l
  BY <1>1, <1>2 DEF InTime
<1>4. ASSUME NEW r \in 1 .. l, given[r] # 0
      PROVE  given[r] + Delay <= sent /\ \A q \in 1 .. r - 1 : given[q] < given[r]
  <2>1. \A q \in 1 .. r - 1 : q \in 1 .. l /\ q < r
    BY <1>2
  <2>2. QED
    BY <1>1, <1>2, <1>4, <2>1 DEF InTime
<1>5. QED
  BY <1>3, <1>4 DEF MarksInTime, None

LEMMA ChannelTyped ==
  ASSUME RxChannelAssumption, ChannelInv
  PROVE  TypeOK
<1>1. ChannelLimits /\ Waiting(delayedControl, given, sent) /\ InTime(given, sent)
  BY DEF ChannelInv
<1>2. /\ sent \in Nat /\ sent <= MaxSent /\ came \in Nat /\ came <= MaxCame /\ Len(given) = came
      /\ MaxSent \in Nat /\ MaxCame \in Nat /\ Delay \in Nat
  BY <1>1, ChannelConstants DEF ChannelLimits
<1>3. PICK c \in Nat, a \in Nat, b \in Nat : OnTheirWay(c, a, b)
  BY DEF ChannelInv
<1>4. /\ c <= a /\ a <= b /\ b <= came /\ Held(m_rxBuffer, c, a, given)
      /\ Measured(m_rssiBuffer, putRssi, m_rxBuffer, a)
      /\ Queued(rxSampleQueue, rxControlQueue, rxRssiQueue, b, came, given)
  BY <1>3 DEF OnTheirWay
<1>5. \A r \in 1 .. came : given[r] \in Nat /\ given[r] <= MaxSent
  <2>1. \A r \in 1 .. came : given[r] \in Nat
    BY <1>1, <1>2 DEF InTime
  <2>2. \A r \in 1 .. came : given[r] # 0 => given[r] + Delay <= sent
    BY <1>1, <1>2 DEF InTime
  <2>3. QED
    BY <1>2, <2>1, <2>2
<1>6. /\ rxSampleQueue \in Seq(Nat) /\ rxControlQueue \in Seq(Nat) /\ rxRssiQueue \in Seq(Nat)
      /\ Len(rxControlQueue) = Len(rxSampleQueue) /\ Len(rxRssiQueue) = Len(rxSampleQueue)
  BY <1>4 DEF Queued
<1>7. PICK l \in Nat : l = Len(rxSampleQueue)
  BY <1>6, LenProperties
<1>8. DOMAIN rxSampleQueue = 1 .. l /\ DOMAIN rxControlQueue = 1 .. l /\ DOMAIN rxRssiQueue = 1 .. l
  BY <1>6, <1>7
<1>9. \A i \in 1 .. l : /\ b < rxSampleQueue[i] /\ rxSampleQueue[i] <= came
                        /\ rxControlQueue[i] = given[rxSampleQueue[i]] /\ rxRssiQueue[i] = rxSampleQueue[i]
  BY <1>4, <1>7 DEF Queued
<1>10. ASSUME NEW i \in 1 .. l
       PROVE  /\ rxSampleQueue[i] \in Samples /\ rxRssiQueue[i] \in Samples
              /\ rxControlQueue[i] \in Marks
  <2>1. rxSampleQueue[i] \in Nat
    BY <1>6, <1>7
  <2>2. rxSampleQueue[i] \in 1 .. came
    BY <1>2, <1>9, <2>1
  <2>3. rxSampleQueue[i] \in 1 .. MaxCame
    BY <1>2, <2>2
  <2>4. given[rxSampleQueue[i]] \in 0 .. MaxSent
    BY <1>2, <1>5, <2>2
  <2>5. QED
    BY <1>9, <2>3, <2>4 DEF Samples, Marks
<1>11. /\ Range(rxSampleQueue) \subseteq Samples /\ Range(rxRssiQueue) \subseteq Samples
       /\ Range(rxControlQueue) \subseteq Marks
  BY <1>8, <1>10 DEF Range
<1>12. Range(delayedControl) \subseteq Marks
  <2>1. PICK m \in Nat : m = Len(delayedControl)
    BY <1>1, LenProperties DEF Waiting
  <2>2. DOMAIN delayedControl = 1 .. m /\ \A i \in 1 .. m : delayedControl[i] \in Nat
    BY <1>1, <2>1 DEF Waiting
  <2>3. \A i \in 1 .. m : delayedControl[i] # 0 => delayedControl[i] + (m - i) <= sent
    BY <1>1, <2>1 DEF Waiting
  <2>4. \A i \in 1 .. m : delayedControl[i] \in 0 .. MaxSent
    BY <1>2, <2>2, <2>3
  <2>5. QED
    BY <2>2, <2>4 DEF Range, Marks
<1>13. Len(m_rxBuffer) <= RingLen /\ Len(m_rssiBuffer) <= RingLen
  BY <1>4 DEF Held, Measured
<1>14. putRssi \in 0 .. MaxCame
  <2>1. putRssi \in Nat /\ putRssi <= a
    BY <1>4 DEF Measured
  <2>2. QED
    BY <1>2, <1>4, <2>1
<1>15. sent \in Marks /\ came \in 0 .. MaxCame
  BY <1>2 DEF Marks
<1>16. Range(rxControlQueue) \cup Range(delayedControl) \subseteq Marks
  BY <1>11, <1>12
<1>17. /\ rxFreq \in BOOLEAN /\ Len(delayedControl) <= Delay + MaxLag /\ Len(scratch) <= PopBurst
       /\ Len(rxSampleQueue) <= QueueLen + Max(WorkBursts) /\ Len(given) = came
  BY <1>1, Zenon DEF ChannelLimits
<1>18. QED
  BY <1>11, <1>13, <1>14, <1>15, <1>16, <1>17, Zenon DEF TypeOK
=============================================================================
