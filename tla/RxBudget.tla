------------------------------ MODULE RxBudget ------------------------------
(***************************************************************************)
(* How much of its receive ring a modem drains in one turn of its clock:   *)
(* the sample budget of IO::process().  The budget and the time it was     *)
(* last credited are function statics: all modems of the program share     *)
(* them.                                                                   *)
(*                                                                         *)
(* A ring is the number of its samples (RxRing has its threads), and the   *)
(* clock of a modem is a time since its last turn.                         *)
(***************************************************************************)
EXTENDS Integers

CONSTANTS
  Modem,         \* the modems of the program
  Rate,          \* samples in a millisecond, 24
  RingSize,      \* RX_RINGBUFFER_SIZE, 600
  BlockSize,     \* RX_BLOCK_SIZE, 2
  MaxBudget,     \* RX_SAMPLE_BUDGET_MAX, 700
  MaxElapsed,    \* the longest time credited, in milliseconds, 100
  MaxBlocks,     \* RX_MAX_BLOCKS_PER_PROCESS, 720
  MaxLate        \* the clock thread's longest pause, in milliseconds

RxBudgetAssumption ==
  /\ Rate \in Nat \ {0} /\ BlockSize \in Nat \ {0} /\ MaxLate \in Nat \ {0}
  /\ {RingSize, MaxBudget, MaxElapsed, MaxBlocks} \subseteq Nat
  /\ RingSize + Rate <= MaxBudget /\ MaxBlocks * BlockSize >= MaxBudget
  /\ Rate * MaxElapsed >= MaxBudget
  \* a ring holds what comes within a pause, and what a turn leaves of a block
  /\ Rate * MaxLate + BlockSize <= RingSize

VARIABLES
  waiting,        \* of each modem: samples in m_rxBuffer
  late,           \* of each modem: time since its last turn
  m_lockout,
  rxSampleBudget,
  elapsed,        \* time since lastRxBudgetUpdateMs, 0 until the first turn
  begun,          \* lastRxBudgetUpdateMs is set
  refused         \* of each modem: its ring has refused a sample

vars == <<waiting, late, m_lockout, rxSampleBudget, elapsed, begun, refused>>

Least(a, b) == IF a < b THEN a ELSE b

Init ==
  /\ waiting = [m \in Modem |-> 0] /\ late = [m \in Modem |-> 0]
  /\ m_lockout = [m \in Modem |-> FALSE] /\ refused = [m \in Modem |-> FALSE]
  /\ rxSampleBudget = 0 /\ elapsed = 0 /\ begun = FALSE

\* A millisecond: samples come in for every modem, and no clock is later than MaxLate.
\* Nothing waits before the first turn: SerialPort::process() starts the rx thread,
\* and the same turn of the clock goes on to IO::process().
Tick ==
  /\ begun /\ \A m \in Modem : late[m] < MaxLate
  /\ late' = [m \in Modem |-> late[m] + 1]
  /\ elapsed' = Least(elapsed + 1, MaxElapsed)
  /\ waiting' = [m \in Modem |-> Least(waiting[m] + Rate, RingSize)]
  /\ refused' = [m \in Modem |-> refused[m] \/ waiting[m] + Rate > RingSize]
  /\ UNCHANGED <<m_lockout, rxSampleBudget, begun>>

\* Mutant: a turn is credited with one millisecond, however late it is.
CreditOne == Least(rxSampleBudget + Rate, MaxBudget)

\* The budget of this turn.
Credit == Least(rxSampleBudget + elapsed * Rate, MaxBudget)

\* The COS line, read at the beginning of a turn: the receivers' own m_dcd, which
\* nothing takes back when they are fed no more.
Lockout(m) == {m_lockout[m], TRUE}

\* Blocks drained: what the budget and the ring hold.  Under lockout the first block
\* ends the turn.
Blocks(m, locked, budget) ==
  LET most == Least(MaxBlocks, Least(budget, waiting[m]) \div BlockSize)
  IN  IF locked THEN Least(most, 1) ELSE most

\* A turn of a modem's clock.
Process(m) ==
  /\ \E locked \in Lockout(m) :
       LET n == Blocks(m, locked, Credit)
       IN  /\ rxSampleBudget' = Credit - n * BlockSize
           /\ waiting' = [waiting EXCEPT ![m] = @ - n * BlockSize]
           /\ m_lockout' = [m_lockout EXCEPT ![m] = locked]
  /\ elapsed' = 0 /\ begun' = TRUE
  /\ late' = [late EXCEPT ![m] = 0]
  /\ UNCHANGED refused

Next == Tick \/ \E m \in Modem : Process(m)

Spec == Init /\ [][Next]_vars

-----------------------------------------------------------------------------
(* Properties *)

\* A modem that is alone, and is not locked out, never loses a sample for want of
\* budget: whenever its turns come, the budget is all that its ring holds.
KeepsUp ==
  \A m \in Modem : ~m_lockout[m] => ~refused[m] /\ waiting[m] <= rxSampleBudget + elapsed * Rate

\* The example configuration has two modems: "multi-carrier operation".  Each drains
\* what it receives.
NoneRefused == \A m \in Modem : ~m_lockout[m] => ~refused[m]
=============================================================================
