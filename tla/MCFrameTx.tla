------------------------------ MODULE MCFrameTx ------------------------------
(***************************************************************************)
(* The transmitters that send on demand, each alone: a behaviour is one of *)
(* P25Tx, of FixedTx as NXDN or as DMR direct mode, of CwIdTx, or of the   *)
(* calibration engines.  A modem in a mode calls one of them only.  Apart  *)
(* from them, a behaviour is one of a filter: of those between a           *)
(* transmitter and IO::write(), between IO::process() and a receiver, or   *)
(* small ones called with blocks of any size.                              *)
(***************************************************************************)
EXTENDS P25Tx

CONSTANTS
  FrameBytes,                                   \* FixedTx; direct mode sends one more
  SmallQueue, LargeQueue,
  QueueLen, StartupCount, WaitCount,            \* CalTx
  Messages, Lead, Trail, MaxBits, BufferBits, DotLength,  \* CwIdTx
  MaxFixedOps, MaxCalOps, MaxCwOps

VARIABLES
  part,
  m_length, queue, onAir, led, broken, refusedWithin,              \* FixedTx
  protocol, m_transmit, m_state, m_audioSeq, m_frameStart, tx,     \* CalTx
  m_frameCount, calQueue, lastTwo, undisturbed,
  m_poPtr, m_n,                                                     \* CwIdTx
  filter, pState, came, sums, wild                                  \* Filters

\* Superframes of three frames, rounds of two for P25 and of three for NXDN.
Rounds == [DMR |-> 2, P25 |-> 1, NXDN |-> 2]

N == INSTANCE FixedTx WITH CreditBytes <- FrameBytes, BurstBytes <- FrameBytes,
       QueueBytes <- {SmallQueue, LargeQueue}, MaxOps <- MaxFixedOps
D == INSTANCE FixedTx WITH CreditBytes <- FrameBytes + 1, BurstBytes <- FrameBytes + 1,
       QueueBytes <- {SmallQueue, LargeQueue}, TxHang <- 0, MaxOps <- MaxFixedOps
\* m_modFilter of DMRTX, NXDNTX and P25TX, m_sincFilter and m_lpFilter; IO's filters, with
\* blocks of two; the DC filter.
Program ==
  {[kind |-> "interpolate", L |-> 5, phase |-> 9, room |-> 16, blocks |-> {4}, upto |-> 16],
   [kind |-> "interpolate", L |-> 10, phase |-> 9, room |-> 16, blocks |-> {4}, upto |-> 16],
   [kind |-> "interpolate", L |-> 5, phase |-> 8, room |-> 16, blocks |-> {4}, upto |-> 16],
   [kind |-> "fir", taps |-> 22, room |-> 70, blocks |-> {40}, upto |-> 80],
   [kind |-> "fir", taps |-> 32, room |-> 60, blocks |-> {20}, upto |-> 60],
   [kind |-> "fir", taps |-> 42, room |-> 70, blocks |-> {2}, upto |-> 46],
   [kind |-> "fir", taps |-> 6, room |-> 30, blocks |-> {2}, upto |-> 12],
   [kind |-> "fir", taps |-> 82, room |-> 110, blocks |-> {2}, upto |-> 86],
   [kind |-> "fir", taps |-> 32, room |-> 60, blocks |-> {2}, upto |-> 36],
   [kind |-> "biquad", stages |-> 1, room |-> 4, blocks |-> {2}, upto |-> 8]}

\* The unrolled loop loads one sample more than it needs.
Small ==
  {[kind |-> "fir", taps |-> t, room |-> t + 8, blocks |-> 1 .. 8, upto |-> 12] : t \in {2, 4, 6, 8}}
  \cup {[kind |-> "interpolate", L |-> 3, phase |-> 4, room |-> 6, blocks |-> 1 .. 3, upto |-> 8],
        [kind |-> "biquad", stages |-> 2, room |-> 8, blocks |-> 1 .. 3, upto |-> 6]}

K == INSTANCE CalTx WITH LastOfRound <- Rounds, queue <- calQueue, last <- lastTwo,
       MaxOps <- MaxCalOps
W == INSTANCE CwIdTx WITH m_poLen <- m_poLeft, MaxOps <- MaxCwOps
F == INSTANCE Filters WITH Filter <- Program \cup Small

ASSUME ConstantsFit ==
  N!FixedTxAssumption /\ D!FixedTxAssumption /\ K!CalTxAssumption /\ W!CwIdTxAssumption
  /\ F!FiltersAssumption

p25Vars == <<m_fifo, accepted, burst, last, tight, overdrawn, lost>>
fixedVars == <<m_length, queue, onAir, led, broken, refusedWithin>>
calVars == <<protocol, m_transmit, m_state, m_audioSeq, m_frameStart, tx, m_frameCount,
             calQueue, lastTwo, undisturbed>>
cwVars == <<m_poPtr, m_n>>
filterVars == <<filter, pState, came, sums, wild>>
queueing == <<m_tailCnt, credit, written>>
allVars == <<part, vars, fixedVars, calVars, cwVars, filterVars>>

\* What a part does not use keeps its first value.
AllInit ==
  /\ part \in {"P25", "NXDN", "DMO", "calibration", "CW", "filter"}
  /\ Init /\ N!Init /\ K!Init /\ W!Init /\ F!Init
  /\ part \in {"P25", "calibration", "CW", "filter"} => m_length = SmallQueue
  /\ part # "calibration" => protocol = "DMR"
  /\ part # "filter" => filter = CHOOSE f \in Program : TRUE

\* Every part but the filters.
FiltersStay == UNCHANGED <<part, filterVars>>

AllNext ==
  \/ part = "P25" /\ Next /\ FiltersStay /\ UNCHANGED <<fixedVars, calVars, cwVars>>
  \/ part = "NXDN" /\ N!Next /\ FiltersStay /\ UNCHANGED <<p25Vars, calVars, cwVars>>
  \/ part = "DMO" /\ D!Next /\ FiltersStay /\ UNCHANGED <<p25Vars, calVars, cwVars>>
  \/ part = "calibration" /\ K!Next /\ FiltersStay /\ UNCHANGED <<p25Vars, fixedVars, cwVars, queueing, m_poLeft>>
  \/ part = "CW" /\ W!Next /\ FiltersStay /\ UNCHANGED <<p25Vars, fixedVars, calVars, queueing, m_tx>>
  \/ part = "filter" /\ F!Next /\ UNCHANGED <<part, vars, fixedVars, calVars, cwVars>>

\* The fairness of each part: its clock, and the fall of TX.
ClockTurns ==
  \/ part = "P25" /\ Process /\ FiltersStay /\ UNCHANGED <<fixedVars, calVars, cwVars>>
  \/ part = "NXDN" /\ N!Process /\ FiltersStay /\ UNCHANGED <<p25Vars, calVars, cwVars>>
  \/ part = "DMO" /\ D!Process /\ FiltersStay /\ UNCHANGED <<p25Vars, calVars, cwVars>>
  \/ part = "calibration" /\ K!Clock(TRUE) /\ FiltersStay /\ UNCHANGED <<p25Vars, fixedVars, cwVars, queueing, m_poLeft>>
  \/ part = "CW" /\ W!Cycle /\ FiltersStay /\ UNCHANGED <<p25Vars, fixedVars, calVars, queueing, m_tx>>

TxFalls ==
  \/ part = "NXDN" /\ N!TxOff /\ FiltersStay /\ UNCHANGED <<p25Vars, calVars, cwVars>>
  \/ part = "DMO" /\ D!TxOff /\ FiltersStay /\ UNCHANGED <<p25Vars, calVars, cwVars>>
  \/ part = "calibration" /\ K!TxOff /\ FiltersStay /\ UNCHANGED <<p25Vars, fixedVars, cwVars, queueing, m_poLeft>>

AllSpec == AllInit /\ [][AllNext]_allVars /\ WF_allVars(ClockTurns) /\ WF_allVars(TxFalls)

-----------------------------------------------------------------------------
\* Types, of each part.
TypesOK ==
  CASE part = "P25"  -> TypeOK
    [] part = "NXDN" -> N!TypeOK
    [] part = "DMO"  -> D!TypeOK
    [] part = "CW"   -> W!TypeOK
    [] part = "calibration" -> K!TypeOK
    [] OTHER         -> TRUE

\* FixedTx: a host that keeps to its credit has no frame refused.
CreditIsKept == part \in {"NXDN", "DMO"} => N!CreditIsKept

\* P25Tx: frames are those accepted, whole and in order.  FixedTx: in order, after a
\* preamble.  CalTx: a test call is whole.
FramesArrive ==
  [][CASE part = "P25" -> FrameWhole
       [] part \in {"NXDN", "DMO"} -> N!FrameLed
       [] part = "calibration" -> K!CallWhole
       [] OTHER -> TRUE]_allVars

\* Filters: however a signal is cut into blocks.
SumsAreWhole == part = "filter" => F!SumsAreWhole

\* Once the host is quiet every engine sends what it has, and is done.
AllFallSilent ==
  <>[](CASE part = "P25" -> Silent [] part = "NXDN" -> N!Silent [] part = "DMO" -> D!Silent
         [] part = "CW" -> W!Silent
         [] part = "calibration" -> K!Silent [] OTHER -> TRUE)

-----------------------------------------------------------------------------
(* SerialBuffer *)

Rings ==
  {q \in [m_length : {3}, m_buffer : {[i \in 0 .. 2 |-> <<"data", 0, i>>]}, m_head : 0 .. 2,
          m_tail : 0 .. 2, m_full : BOOLEAN] : q.m_full => q.m_head = q.m_tail}

\* PutAll and GetAll are put() and get() byte by byte, from every ring.
ASSUME PutAllIsPut ==
  \A q \in Rings, n \in 0 .. 4 :
    LET s == [i \in 1 .. n |-> <<"data", 1, i>>] IN PutAll(q, s) = FoldLeft(Put, q, s)

ASSUME GetAllIsGet ==
  \A q \in Rings, n \in 0 .. 4 :
    LET after[i \in 0 .. n] == IF i = 0 THEN q ELSE Get(after[i - 1])
    IN  /\ GetAll(q, n) = after[n]
        /\ PeekAll(q, n) = [i \in 1 .. n |-> Peek(after[i - 1])]
=============================================================================
