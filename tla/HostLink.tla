------------------------------ MODULE HostLink ------------------------------
(***************************************************************************)
(* The serial stream from the host to a modem: SerialPort::process() cuts  *)
(* it into frames byte by byte.  Nothing but a length says where a frame   *)
(* ends, and a byte of a frame may look like the start of another.         *)
(*                                                                         *)
(* A byte is a number below Base, and the two start bytes are the highest. *)
(* What a frame is for (its command) does not matter here.                 *)
(***************************************************************************)
EXTENDS Integers, Sequences, SequencesExt

CONSTANTS
  Base,          \* values of a byte, 256
  BufferLen,     \* SERIAL_FB_LEN
  ShortSizes,    \* lengths of the short frames the host sends
  LongSizes,     \* and of the long ones
  Payloads,      \* the bytes in them
  MaxFrames      \* bound: frames in a behaviour

SHORT_START == Base - 2   \* DVM_SHORT_FRAME_START
LONG_START == Base - 1    \* DVM_LONG_FRAME_START

\* A length counts all bytes of the frame, those before the command included, and a
\* frame has a command.
HostLinkAssumption ==
  /\ Base \in Nat \ {0} /\ BufferLen \in Nat /\ MaxFrames \in Nat /\ Payloads \subseteq 0 .. Base - 1
  /\ Base <= BufferLen /\ ShortSizes \subseteq 3 .. Base - 1 /\ LongSizes \subseteq 4 .. BufferLen

VARIABLES
  line,           \* bytes the host has written and the modem has not read
  m_ptr, m_len, m_dblFrame,
  m_buffer,       \* the bytes of the frame read so far: its first m_ptr
  \* bookkeeping
  unhandled,      \* the frames written, but for those handled
  frames,         \* frames written so far
  inStep,         \* no frame was cut in two since the parser was last at rest
  overrun         \* a byte was put behind m_buffer

parser == <<m_ptr, m_len, m_dblFrame, m_buffer>>
vars == <<line, parser, unhandled, frames, inStep, overrun>>

Init ==
  /\ line = <<>>
  /\ m_ptr = 0 /\ m_len = 0 /\ m_dblFrame = FALSE /\ m_buffer = <<>>
  /\ unhandled = <<>> /\ frames = 0 /\ inStep = TRUE /\ overrun = FALSE

\* The frames of a length, in either form.
Frames(size, long) ==
  LET header == IF long THEN <<LONG_START, size \div Base, size % Base>> ELSE <<SHORT_START, size>>
  IN  {header \o rest : rest \in [1 .. size - Len(header) -> Payloads]}

\* The host writes a frame.
Write(size, long) ==
  /\ frames < MaxFrames /\ frames' = frames + 1
  /\ \E f \in Frames(size, long) : line' = line \o f /\ unhandled' = Append(unhandled, f)
  /\ UNCHANGED <<parser, inStep, overrun>>

\* The host ends within a write: what the modem has not read is never sent.
HostStops ==
  /\ line # <<>> /\ line' = <<>>
  /\ unhandled' = <<>>
  /\ inStep' = (inStep /\ m_ptr = 0 /\ FlattenSeq(unhandled) = line)
  /\ UNCHANGED <<parser, frames, overrun>>

-----------------------------------------------------------------------------
(* SerialPort::process(), byte by byte *)

\* Mutant: the two bytes of a long length are not put together.
LongLengthLow(msb, lsb) == lsb

\* The length of a long frame, which is never longer than the buffer.
LongLength(msb, lsb) ==
  LET length == msb * Base + lsb IN IF length > BufferLen THEN BufferLen ELSE length

ReadStart(c) ==
  /\ m_ptr = 0
  /\ m_ptr' = (IF c \in {SHORT_START, LONG_START} THEN 1 ELSE 0)
  /\ m_buffer' = (IF c \in {SHORT_START, LONG_START} THEN <<c>> ELSE <<>>)
  /\ m_len' = 0 /\ m_dblFrame' = (c = LONG_START)
  /\ UNCHANGED unhandled

\* The first byte of the length.
ReadLength(c) ==
  /\ m_ptr = 1
  /\ m_buffer' = Append(m_buffer, c) /\ m_ptr' = 2 /\ m_len' = c
  /\ UNCHANGED <<m_dblFrame, unhandled>>

\* The second, in a long frame.
ReadLengthLow(c) ==
  /\ m_ptr = 2 /\ m_dblFrame
  /\ m_buffer' = Append(m_buffer, c) /\ m_ptr' = 3
  /\ m_len' = LongLength(m_len, c)
  /\ UNCHANGED <<m_dblFrame, unhandled>>

InBody == m_ptr > 2 \/ (m_ptr = 2 /\ ~m_dblFrame)

\* Any other byte.  The frame is handled when the count meets the length, so not at
\* all when the length is one of no frame.
ReadBody(c) ==
  /\ InBody /\ m_ptr < BufferLen
  /\ IF m_ptr + 1 = m_len
     THEN /\ m_ptr' = 0 /\ m_len' = 0 /\ m_dblFrame' = FALSE /\ m_buffer' = <<>>
          /\ unhandled' = (IF unhandled = <<>> THEN <<>> ELSE Tail(unhandled))
     ELSE m_ptr' = m_ptr + 1 /\ m_buffer' = Append(m_buffer, c) /\ UNCHANGED <<m_len, m_dblFrame, unhandled>>

\* Nothing else ends the count: it goes on behind the buffer, where m_ptr, m_len and
\* m_dblFrame are, and what they are then is undefined.  A place further behind is told
\* as the first one.
ReadBehind ==
  /\ InBody /\ m_ptr >= BufferLen
  /\ m_ptr' \in 0 .. BufferLen /\ m_len' \in 0 .. BufferLen /\ m_dblFrame' \in BOOLEAN
  /\ m_buffer' = SubSeq(m_buffer, 1, m_ptr')
  /\ UNCHANGED unhandled

Read ==
  /\ line # <<>> /\ line' = Tail(line)
  /\ \/ /\ \/ ReadStart(Head(line)) \/ ReadLength(Head(line))
           \/ ReadLengthLow(Head(line)) \/ ReadBody(Head(line))
        /\ UNCHANGED overrun
     \/ ReadBehind /\ overrun' = TRUE
  /\ UNCHANGED <<frames, inStep>>

\* The watchdog is at its limit when process() returns: the parser begins again.  If
\* the rest of a frame is still to come it reads it for something else; and what a byte
\* behind the buffer has changed stays so.
Restart ==
  /\ m_ptr > 0
  /\ m_ptr' = 0 /\ m_len' = 0 /\ m_dblFrame' = FALSE /\ m_buffer' = <<>>
  /\ inStep' = (line = <<>> /\ ~overrun)
  /\ unhandled' = (IF line = <<>> THEN <<>> ELSE unhandled)
  /\ UNCHANGED <<line, frames, overrun>>

Next ==
  \/ \E size \in ShortSizes : Write(size, FALSE)
  \/ \E size \in LongSizes : Write(size, TRUE)
  \/ HostStops \/ Read \/ Restart

Spec == Init /\ [][Next]_vars

-----------------------------------------------------------------------------
(* Property *)

\* While the parser is in step, what has been read of a frame and what is still on the
\* line are the frames not yet handled, whatever bytes and forms they are made of, a frame
\* is handled with its last byte, and no byte is put behind the buffer.  A parser left in
\* the middle of a frame, by a host that went away, is in step again once the watchdog has
\* seen it and nothing is left on the line, unless a byte was put behind the buffer before:
\* what it reads until then is not told.
FramesFound ==
  inStep =>
    /\ ~overrun
    /\ m_buffer \o line = FlattenSeq(unhandled) /\ Len(m_buffer) = m_ptr
    /\ m_ptr > 0 => m_ptr < Len(Head(unhandled))
=============================================================================
