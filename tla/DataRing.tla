-------------------------------- MODULE DataRing --------------------------------
(***************************************************************************)
(* RingBuffer<T>: a ring of two indices and no flag, for one thread.       *)
(* Indices that are equal say empty, so a ring that was filled to the last *)
(* place looks empty; addData() lets a caller do so, and hasSpace() is how *)
(* a caller avoids it.                                                     *)
(***************************************************************************)
EXTENDS Naturals, Sequences

CONSTANTS Lengths, Items, MaxBlock   \* lengths of the ring; items; bound: items of a call

DataRingAssumption == Lengths \cup Items \subseteq Nat \ {0} /\ MaxBlock \in Nat

VARIABLES
  m_length, m_buffer, m_iPtr, m_oPtr,
  got,       \* the items of the last get() or peek()
  content    \* the items that were added and are neither taken nor lost

dataVars == <<m_length, m_buffer, m_iPtr, m_oPtr, got, content>>

Blocks == UNION {[1..n -> Items] : n \in 0..MaxBlock}

Cleared(length) == [i \in 0..length - 1 |-> 0]

Init ==
  /\ m_length \in Lengths
  /\ m_buffer = Cleared(m_length) /\ m_iPtr = 0 /\ m_oPtr = 0
  /\ got = <<>> /\ content = <<>>

\* Mutant: the space behind the end of the content is not counted when the content is
\* in one piece.
FreeSpaceBehind ==
  IF m_oPtr > m_iPtr THEN m_oPtr - m_iPtr
  ELSE IF m_iPtr > m_oPtr THEN m_length - m_iPtr ELSE m_length

freeSpace ==
  IF m_oPtr > m_iPtr THEN m_oPtr - m_iPtr
  ELSE IF m_iPtr > m_oPtr THEN m_length - (m_iPtr - m_oPtr) ELSE m_length

dataSize == m_length - freeSpace
hasSpace(n) == freeSpace > n
hasData == m_oPtr # m_iPtr
isEmpty == m_oPtr = m_iPtr

Advance(ptr, n) == (ptr + n) % m_length
From(ptr, n) == [i \in 1..n |-> m_buffer[Advance(ptr, i - 1)]]

clear == m_buffer' = Cleared(m_length) /\ m_iPtr' = 0 /\ m_oPtr' = 0

-----------------------------------------------------------------------------
\* addData(): what does not fit empties the ring.
Overflow(block) ==
  /\ Len(block) > freeSpace /\ clear /\ content' = <<>>
  /\ UNCHANGED <<m_length, got>>

\* Room is made for a block that fills the ring, but the ring is empty then.
Stored(block) ==
  /\ Len(block) <= freeSpace
  /\ m_buffer' = [i \in DOMAIN m_buffer |->
       IF \E k \in 1..Len(block) : Advance(m_iPtr, k - 1) = i
       THEN block[CHOOSE k \in 1..Len(block) : Advance(m_iPtr, k - 1) = i] ELSE m_buffer[i]]
  /\ m_iPtr' = Advance(m_iPtr, Len(block))
  /\ content' = IF hasSpace(Len(block)) \/ block = <<>> THEN content \o block ELSE <<>>
  /\ UNCHANGED <<m_length, m_oPtr, got>>

addData(block) == Overflow(block) \/ Stored(block)

get(n) ==
  /\ IF dataSize < n THEN UNCHANGED <<m_oPtr, got, content>>
     ELSE /\ got' = From(m_oPtr, n) /\ m_oPtr' = Advance(m_oPtr, n)
          /\ content' = SubSeq(content, n + 1, Len(content))
  /\ UNCHANGED <<m_length, m_buffer, m_iPtr>>

peek(n) ==
  /\ n <= dataSize /\ got' = From(m_oPtr, n)
  /\ UNCHANGED <<m_length, m_buffer, m_iPtr, m_oPtr, content>>

Clear == clear /\ content' = <<>> /\ UNCHANGED <<m_length, got>>

resize(length) ==
  /\ m_length' = length /\ m_buffer' = Cleared(length) /\ m_iPtr' = 0 /\ m_oPtr' = 0
  /\ content' = <<>> /\ UNCHANGED got

Next ==
  \/ \E block \in Blocks : addData(block)
  \/ \E n \in 0..MaxBlock : get(n) \/ peek(n)
  \/ Clear \/ \E length \in Lengths : resize(length)

Spec == Init /\ [][Next]_dataVars

-----------------------------------------------------------------------------
TypeOK == m_length \in Lengths /\ m_iPtr \in 0..m_length - 1 /\ m_oPtr \in 0..m_length - 1

\* Every item that was added with hasSpace() is there, in its place and in order, until it
\* is taken, the ring is cleared, or a caller adds more than hasSpace() allows.
ContentKept ==
  /\ dataSize = Len(content) /\ From(m_oPtr, dataSize) = content
  /\ hasData = (content # <<>>) /\ isEmpty = (content = <<>>)

\* get() hands out the oldest items.
OldestFirst == [][\A n \in 0..MaxBlock : get(n) /\ n <= Len(content) => got' = SubSeq(content, 1, n)]_dataVars
=============================================================================
