-------------------------------- MODULE Port ----------------------------------
(***************************************************************************)
(* The pseudo terminal of a modem: PseudoPTYPort, the parts of UARTPort it *)
(* is made of, and the functions by which SerialPort reads and writes it.  *)
(*                                                                         *)
(* The clock thread reads one byte at a time and never waits for one; it   *)
(* writes whole frames, in as many pieces as the terminal takes, and waits *)
(* for room.  The main thread closes the port whenever it likes.  A byte   *)
(* is its number in the stream it is of.                                   *)
(***************************************************************************)
EXTENDS Integers, Sequences, SequencesExt

CONSTANTS
  TtyLen,      \* bytes the terminal holds, each way
  FrameSizes,  \* lengths of the frames written
  MaxBytes     \* bound: bytes each way

PortAssumption == TtyLen \in Nat \ {0} /\ FrameSizes \subseteq Nat \ {0} /\ MaxBytes \in Nat

VARIABLES
  m_isOpen,
  m_fd,         \* "none" (-1), "open", or "stale": closed, and the number kept
  link,         \* the symbolic link the host opens is there
  modem,        \* of createModems(): "none", "runs", or "deleted"
  inbound,      \* written by the host and not read yet
  m_readBuffer, \* the last byte read; 0 is none
  parsed,       \* bytes SerialPort::process() has taken
  outbound,     \* written and not read by the host
  rest,         \* of the frame being written
  frames,       \* bytes of all frames begun
  told          \* what the host has read

ends == <<m_isOpen, m_fd, link, modem>>
reading == <<inbound, m_readBuffer, parsed>>
writing == <<outbound, rest, frames, told>>
vars == <<ends, reading, writing>>

Init ==
  /\ m_isOpen = FALSE /\ m_fd = "none" /\ link = FALSE /\ modem = "none"
  /\ inbound = <<>> /\ m_readBuffer = 0 /\ parsed = <<>>
  /\ outbound = <<>> /\ rest = <<>> /\ frames = 0 /\ told = <<>>

-----------------------------------------------------------------------------
(* Opening and closing, on the main thread *)

\* setTermios(): any of its calls may fail; it closes the terminal and keeps its number.
SetTermios ==
  \/ m_isOpen' = TRUE /\ m_fd' = "open"
  \/ m_isOpen' = FALSE /\ m_fd' = "stale"

\* PseudoPTYPort::open(): a terminal, then the link, which may fail and close it again.
OpenPort ==
  \/ UNCHANGED <<m_isOpen, m_fd, link>>
  \/ SetTermios /\ link' = TRUE

\* createModems(): the modem whose port does not open is deleted.
Open ==
  /\ modem = "none" /\ OpenPort
  /\ modem' = (IF m_isOpen' THEN "runs" ELSE "deleted")
  /\ UNCHANGED <<reading, writing>>

\* Modem::close(), which waits for nobody.
Close ==
  /\ modem = "runs" /\ m_fd = "open"
  /\ m_isOpen' = FALSE /\ m_fd' = "none" /\ link' = FALSE
  /\ UNCHANGED <<modem, reading, writing>>

-----------------------------------------------------------------------------
(* The host at the other end of the link *)

HostWrites ==
  /\ m_fd = "open" /\ Len(inbound) < TtyLen
  /\ LET n == Len(parsed) + Len(inbound) + 1
     IN  n <= MaxBytes /\ inbound' = Append(inbound, n)
  /\ UNCHANGED <<ends, m_readBuffer, parsed, writing>>

HostReads ==
  /\ outbound # <<>>
  /\ \E n \in 1 .. Len(outbound) :
       /\ told' = told \o SubSeq(outbound, 1, n)
       /\ outbound' = SubSeq(outbound, n + 1, Len(outbound))
  /\ UNCHANGED <<ends, reading, rest, frames>>

-----------------------------------------------------------------------------
(* The clock thread *)

Writing == rest # <<>>

\* availableInt() and readInt(): a byte if there is one; 0 if there is none, and -1 of
\* a port that was closed, end the loop.
Take ==
  /\ modem = "runs" /\ ~Writing
  /\ m_fd = "open" /\ inbound # <<>>
  /\ m_readBuffer' = Head(inbound) /\ inbound' = Tail(inbound)
  /\ parsed' = Append(parsed, m_readBuffer')
  /\ UNCHANGED <<ends, writing>>

\* writeInt(): write() of a frame begins.
WriteFrame ==
  /\ modem = "runs" /\ ~Writing /\ m_fd = "open"
  /\ \E n \in FrameSizes :
       /\ frames + n <= MaxBytes
       /\ frames' = frames + n
       /\ rest' = [i \in 1 .. n |-> frames + i]
  /\ UNCHANGED <<ends, reading, outbound, told>>

\* Mutant: what one call of ::write() leaves is given up.
WriteOnce ==
  /\ Writing /\ m_fd = "open"
  /\ \E n \in 1 .. Len(rest) :
       /\ Len(outbound) + n <= TtyLen
       /\ outbound' = outbound \o SubSeq(rest, 1, n)
  /\ rest' = <<>>
  /\ UNCHANGED <<ends, reading, frames, told>>

\* As much of the rest as there is room for.
WriteSome ==
  /\ Writing /\ m_fd = "open"
  /\ \E n \in 1 .. Len(rest) :
       /\ Len(outbound) + n <= TtyLen
       /\ outbound' = outbound \o SubSeq(rest, 1, n)
       /\ rest' = SubSeq(rest, n + 1, Len(rest))
  /\ UNCHANGED <<ends, reading, frames, told>>

\* The port was closed meanwhile: write() returns -1, which nobody looks at.
WriteFails ==
  /\ Writing /\ m_fd # "open"
  /\ rest' = <<>>
  /\ UNCHANGED <<ends, reading, outbound, frames, told>>

WriteStep == WriteSome \/ WriteFails

Next == Open \/ Close \/ HostWrites \/ HostReads \/ Take \/ WriteFrame \/ WriteStep

\* The clock thread runs, and a host that is there reads.
Spec == Init /\ [][Next]_vars /\ WF_vars(WriteStep) /\ WF_vars(HostReads)

-----------------------------------------------------------------------------
(* Properties *)

\* Types.
TypeOK ==
  /\ m_isOpen \in BOOLEAN /\ m_fd \in {"none", "open", "stale"} /\ link \in BOOLEAN
  /\ modem \in {"none", "runs", "deleted"} /\ frames \in 0 .. MaxBytes
  /\ Len(inbound) <= TtyLen /\ Len(outbound) <= TtyLen

\* Numbers in a row from 1.
IsCount(s) == \A i \in DOMAIN s : s[i] = i

\* UARTPort: what the host writes is parsed once and in order, and what it reads are the
\* frames, whole and in order: but for the last, which the close of the port may cut.
\* What a modem runs on is open until it is closed, and the link leads to it.
BytesInOrder ==
  /\ IsCount(parsed \o inbound)
  /\ IsCount(told \o outbound \o rest)
  /\ m_isOpen => m_fd = "open" /\ link
  /\ m_fd = "open" => Len(told \o outbound \o rest) = frames

\* A frame gets out, while the host reads.
WritesEnd == []<>~Writing
=============================================================================
