------------------------------- MODULE CwIdTx -------------------------------
(***************************************************************************)
(* CWIdTX: the station identifier in Morse code.  The host's message is    *)
(* turned into bits at once, and these are sent in IDLE.                   *)
(***************************************************************************)
EXTENDS Integers, FiniteSets

CONSTANTS
  Messages,    \* bits of the messages the host sends, silence left out
  Lead,        \* bits of silence before the message, 8
  Trail,       \* and after it, 5
  MaxBits,     \* a message that reaches this many bits is refused, 995
  BufferBits,  \* 8 * 1000
  DotLength,   \* cycles of the tone in a bit, DOT_LENGTH
  MaxOps       \* bound: host commands in a behaviour

CwIdTxAssumption ==
  /\ Messages \subseteq Nat /\ Lead \in Nat \ {0} /\ Trail \in Nat
  /\ MaxBits \in Nat /\ MaxBits > Lead
  /\ BufferBits \in Nat /\ MaxBits + Trail <= BufferBits /\ DotLength \in Nat \ {0} /\ MaxOps \in Nat

VARIABLES
  m_modemState,  \* "IDLE" or "voice"
  m_poLen, m_poPtr, m_n,
  ops

vars == <<m_modemState, m_poLen, m_poPtr, m_n, ops>>

Init == m_modemState = "IDLE" /\ m_poLen = 0 /\ m_poPtr = 0 /\ m_n = 0 /\ ops = 0

Command == ops < MaxOps /\ ops' = ops + 1

\* The bits of a message, none if it is empty or too long.
Length(bits) == IF bits = 0 \/ Lead + bits > MaxBits THEN 0 ELSE Lead + bits + Trail

\* CMD_SEND_CWID, in IDLE.  A message that is refused ends the one being sent, too.
Write(bits) ==
  /\ Command /\ m_modemState = "IDLE"
  /\ m_poLen' = Length(bits) /\ m_poPtr' = 0 /\ m_n' = 0
  /\ UNCHANGED m_modemState

\* A change of mode: reset().
Leave ==
  /\ Command /\ m_modemState = "IDLE"
  /\ m_modemState' = "voice"
  /\ m_poLen' = 0 /\ m_poPtr' = 0 /\ m_n' = 0

Return ==
  /\ Command /\ m_modemState = "voice" /\ m_modemState' = "IDLE"
  /\ UNCHANGED <<m_poLen, m_poPtr, m_n>>

Ends(bit) == bit >= m_poLen

\* process(): one cycle, when the transmit ring has room for it.
Cycle ==
  /\ m_modemState = "IDLE" /\ m_poLen > 0
  /\ LET bit == IF m_n + 1 >= DotLength THEN m_poPtr + 1 ELSE m_poPtr
     IN  /\ m_n' = (IF m_n + 1 >= DotLength THEN 0 ELSE m_n + 1)
         /\ m_poPtr' = (IF Ends(bit) THEN 0 ELSE bit)
         /\ m_poLen' = (IF Ends(bit) THEN 0 ELSE m_poLen)
  /\ UNCHANGED <<m_modemState, ops>>

Next == (\E bits \in Messages : Write(bits)) \/ Leave \/ Return \/ Cycle

Spec == Init /\ [][Next]_vars /\ WF_vars(Cycle)

-----------------------------------------------------------------------------
(* Properties *)

\* What is read of the buffer was written: the bit to be sent is one of the message.
TypeOK ==
  /\ m_modemState \in {"IDLE", "voice"} /\ m_n \in 0 .. DotLength - 1 /\ ops \in 0 .. MaxOps
  /\ m_poLen \in 0 .. BufferBits
  /\ m_poLen > 0 => m_poPtr < m_poLen
  /\ m_poLen = 0 => m_poPtr = 0 /\ m_n = 0

\* An identifier ends.
Silent == m_modemState = "IDLE" => m_poLen = 0
FallsSilent == <>[]Silent
=============================================================================
