----------------------------- MODULE BoundedFifo -----------------------------
(***************************************************************************)
(* What a ring buffer of the modem promises its users: a FIFO of at most   *)
(* Capacity elements.  An element offered to a full queue is refused and   *)
(* latched as an overflow; a read of an empty queue is refused and changes *)
(* nothing; the overflow latch is cleared by reading it.                   *)
(* SampleRing is shown to implement this module.                           *)
(***************************************************************************)
EXTENDS Naturals, Sequences

CONSTANTS
  Capacity,   \* number of elements the queue can hold
  Element,    \* the elements
  NoElement   \* what a refused read hands out

VARIABLES
  queue,      \* the elements accepted and not yet taken, oldest first
  overflowed, \* an element was refused since the latch was last read
  taken       \* the result of the last read

fifoVars == <<queue, overflowed, taken>>

FifoInit ==
  /\ queue = <<>>
  /\ overflowed = FALSE
  /\ taken = NoElement

Accept(e) ==
  /\ Len(queue) < Capacity
  /\ queue' = Append(queue, e)
  /\ UNCHANGED <<overflowed, taken>>

Refuse ==
  /\ Len(queue) = Capacity
  /\ overflowed' = TRUE
  /\ UNCHANGED <<queue, taken>>

Take ==
  /\ queue # <<>>
  /\ taken' = Head(queue)
  /\ queue' = Tail(queue)
  /\ UNCHANGED overflowed

TakeNothing ==
  /\ queue = <<>>
  /\ taken' = NoElement
  /\ UNCHANGED <<queue, overflowed>>

ClearOverflow ==
  /\ overflowed' = FALSE
  /\ UNCHANGED <<queue, taken>>

FifoNext ==
  \/ \E e \in Element : Accept(e)
  \/ Refuse
  \/ Take
  \/ TakeNothing
  \/ ClearOverflow

FifoSpec == FifoInit /\ [][FifoNext]_fifoVars
=============================================================================
