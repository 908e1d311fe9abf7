-------------------------------- MODULE P25Tx --------------------------------
(***************************************************************************)
(* P25TX: the Project 25 transmitter of a modem, with the host commands    *)
(* that feed it and the modem states it runs in.                           *)
(*                                                                         *)
(* The host's frames have different lengths, so the engine keeps them in   *)
(* its byte queue framed by a start byte and a length.  The framing is the *)
(* engine's own: nothing but the bytes in the ring says where a frame      *)
(* begins.  A byte is a tuple <<kind, ...>>; a payload byte carries the    *)
(* number of its frame and its place in it, and is never a start byte.     *)
(* As in DmrTx everything runs on the clock thread.                        *)
(*                                                                         *)
(* The byte queue, a SerialBuffer, is a record with operators for the      *)
(* methods.  It is the ring of SampleRing without a lock and without a     *)
(* refusal that its callers look at: put() on a full ring drops the byte,  *)
(* and get() on an empty one returns a stale byte and moves the tail past  *)
(* the head.                                                               *)
(***************************************************************************)
EXTENDS Naturals, Sequences, SequencesExt

CONSTANTS
  FifoLen,       \* P25_TX_BUFFER_LEN
  FrameSizes,    \* sizes of the frames the host sends
  LduBytes,      \* P25_LDU_FRAME_LENGTH_BYTES
  TduBytes,      \* P25_TDU_FRAME_LENGTH_BYTES, the shortest frame
  ByteMax,       \* the greatest length one byte can hold, 255
  SerialHeader,  \* bytes of a short serial frame before its data, 3
  PreambleBytes, \* m_preambleCnt
  TxHang,        \* m_txHang, in bytes of silence
  MaxOps         \* bound: host commands in a behaviour

ASSUME P25TxAssumption ==
  /\ FifoLen \in Nat \ {0} /\ FrameSizes \subseteq Nat \ {0}
  /\ LduBytes \in Nat \ {0} /\ TduBytes \in Nat \ {0}
  /\ ByteMax \in Nat /\ SerialHeader \in Nat
  /\ PreambleBytes \in Nat \ {0} /\ TxHang \in Nat \ {0} /\ MaxOps \in Nat

VARIABLES
  m_modemState,  \* "IDLE", "P25" or "DMR"
  m_tx,          \* Modem::m_tx
  m_fifo,        \* the byte queue
  m_poLeft,      \* bytes of m_poBuffer not yet written
  m_tailCnt,     \* bytes of silence still to be sent
  \* the host
  credit,        \* frames the host may still send, from the last status
  ops,           \* host commands so far
  \* bookkeeping
  written,       \* frames accepted so far
  accepted,      \* the frames accepted and not yet begun: <<number, size>>
  burst,         \* the bytes of the last frame begun
  last,          \* the number of the last frame begun
  tight,         \* a frame was accepted without room for its framing
  overdrawn,     \* the host has sent a frame without credit for it
  lost           \* a queue with frames in it was emptied because it was full

airVars   == <<m_poLeft, m_tailCnt, burst, last>>
queueVars == <<m_fifo, accepted, written, tight, lost>>
hostVars  == <<credit, ops, overdrawn>>
vars == <<m_modemState, m_tx, airVars, queueVars, hostVars>>

-----------------------------------------------------------------------------
(* SerialBuffer *)

NoByte == <<>>

\* The ring as reinitialize() leaves it.
NewRing(length) ==
  [m_length |-> length, m_buffer |-> [i \in 0 .. length - 1 |-> NoByte],
   m_head |-> 0, m_tail |-> 0, m_full |-> FALSE]

\* reset(): the bytes stay where they are.
Reset(q) == [q EXCEPT !.m_head = 0, !.m_tail = 0, !.m_full = FALSE]

GetSpace(q) ==
  IF q.m_tail = q.m_head THEN IF q.m_full THEN 0 ELSE q.m_length
  ELSE IF q.m_tail < q.m_head THEN q.m_length - q.m_head + q.m_tail
  ELSE q.m_tail - q.m_head

GetData(q) ==
  IF q.m_tail = q.m_head THEN IF q.m_full THEN q.m_length ELSE 0
  ELSE IF q.m_tail < q.m_head THEN q.m_head - q.m_tail
  ELSE q.m_length - q.m_tail + q.m_head

\* put()
Put(q, byte) ==
  LET head == (q.m_head + 1) % q.m_length IN
  IF q.m_full THEN q
  ELSE [q EXCEPT !.m_buffer[q.m_head] = byte, !.m_head = head, !.m_full = (head = q.m_tail)]

\* The byte get() returns, and the ring it leaves.
Peek(q) == q.m_buffer[q.m_tail]
Get(q)  == [q EXCEPT !.m_tail = (q.m_tail + 1) % q.m_length, !.m_full = FALSE]

\* put() for each byte of s: the bytes beyond the room there is are dropped.
PutAll(q, s) ==
  LET room == GetSpace(q)
      n    == IF Len(s) < room THEN Len(s) ELSE room
      At(i) == (i + q.m_length - q.m_head) % q.m_length   \* how far i is from the head
  IN [q EXCEPT !.m_buffer = [i \in DOMAIN @ |-> IF At(i) < n THEN s[At(i) + 1] ELSE @[i]],
               !.m_head = (@ + n) % q.m_length,
               !.m_full = @ \/ (n > 0 /\ n = room)]

\* The bytes of n calls of get(), and the ring they leave, whatever is in it.
PeekAll(q, n) == [i \in 1 .. n |-> q.m_buffer[(q.m_tail + i - 1) % q.m_length]]
GetAll(q, n)  == [q EXCEPT !.m_tail = (@ + n) % q.m_length, !.m_full = @ /\ n = 0]

-----------------------------------------------------------------------------
Init ==
  /\ m_modemState = "IDLE" /\ m_tx = FALSE
  /\ m_fifo = NewRing(FifoLen) /\ m_poLeft = 0 /\ m_tailCnt = 0
  /\ credit = 0 /\ ops = 0
  /\ written = 0 /\ accepted = <<>> /\ burst = <<>> /\ last = 0
  /\ tight = FALSE /\ overdrawn = FALSE /\ lost = FALSE

-----------------------------------------------------------------------------
(* The framing *)

Payload(frame) == [i \in 1 .. frame[2] |-> <<"data", frame[1], i>>]

\* Mutant: the length is that of the command, type byte included.
HeaderOneMore(size) ==
  IF size + 1 <= ByteMax THEN <<<<"short">>, <<"len", size + 1>>>>
                         ELSE <<<<"long">>, <<"msb", size + 1>>, <<"lsb", size + 1>>>>

\* The start and length bytes of a frame; data[0] of the command is not kept.
Header(size) ==
  IF size + 1 <= ByteMax THEN <<<<"short">>, <<"len", size>>>>
                         ELSE <<<<"long">>, <<"msb", size>>, <<"lsb", size>>>>

\* Mutant: a long frame is read with a one byte length.
HeaderTakenShort(q) == IF Peek(q) \in {<<"short">>, <<"long">>} THEN 2 ELSE 1

\* Bytes of framing get() takes off, and the payload they announce; a byte that
\* is no start byte announces nothing.
HeaderTaken(q) == CASE Peek(q) = <<"short">> -> 2 [] Peek(q) = <<"long">> -> 3 [] OTHER -> 1

SizeAhead(q) == IF HeaderTaken(q) = 1 THEN 0 ELSE Peek(Get(q))[2]

\* getSpace(): what the host is told, an uint8_t.
FrameSpace == (GetSpace(m_fifo) \div LduBytes) % 256

Command == ops < MaxOps /\ ops' = ops + 1

-----------------------------------------------------------------------------
(* Host commands, as SerialPort::process() dispatches them *)

\* CMD_GET_STATUS.  The host polls for as long as it lives, and keeps the
\* watchdog quiet with it.
GetStatus ==
  /\ credit' = FrameSpace
  /\ UNCHANGED <<m_modemState, m_tx, airVars, queueVars, ops, overdrawn>>

\* A short serial frame has one byte for its own length.
Form(size, long) == long \/ size + 1 + SerialHeader <= ByteMax

\* The command is looked at in IDLE and P25, and only with a frame of some size;
\* otherwise it is answered with a NAK and nothing else happens.
Takes(size) == m_modemState \in {"IDLE", "P25"} /\ size >= TduBytes

\* What the host spends; a credit is for an LDU.
Spend(size) ==
  /\ credit' = IF credit = 0 THEN 0 ELSE credit - 1
  /\ overdrawn' = (overdrawn \/ credit = 0 \/ size > LduBytes)

\* CMD_P25_DATA with less room than the command is long: the whole queue is
\* emptied.
DataRefused(size, long) ==
  /\ Command /\ Form(size, long) /\ Takes(size)
  /\ GetSpace(m_fifo) < size + 1
  /\ m_fifo' = Reset(m_fifo) /\ accepted' = <<>>
  /\ lost' = (lost \/ accepted # <<>>)
  /\ tight' = FALSE
  /\ Spend(size)
  /\ UNCHANGED <<m_modemState, m_tx, airVars, written>>

\* CMD_P25_DATA with room for the command: a frame of that many bytes and the
\* framing is put.  The result of a long serial frame is not looked at, and a
\* modem in IDLE stays there.
DataQueued(size, long) ==
  /\ Command /\ Form(size, long) /\ Takes(size)
  /\ GetSpace(m_fifo) >= size + 1
  /\ written' = written + 1
  /\ accepted' = Append(accepted, <<written', size>>)
  /\ m_fifo' = PutAll(m_fifo, Header(size) \o Payload(<<written', size>>))
  /\ tight' = (tight \/ GetSpace(m_fifo) < Len(Header(size)) + size)
  /\ m_modemState' = IF long THEN m_modemState ELSE "P25"
  /\ Spend(size)
  /\ UNCHANGED <<m_tx, airVars, lost>>

\* CMD_P25_CLEAR, honoured in IDLE and P25.
Clear ==
  /\ Command
  /\ m_modemState \in {"IDLE", "P25"}
  /\ m_fifo' = Reset(m_fifo) /\ accepted' = <<>> /\ tight' = FALSE
  /\ UNCHANGED <<m_modemState, m_tx, airVars, written, lost, credit, overdrawn>>

\* CMD_SET_MODE, or the watchdog: the engine keeps what it has.
SetMode(mode) ==
  /\ Command
  /\ m_modemState # mode
  /\ m_modemState' = mode
  /\ UNCHANGED <<m_tx, airVars, queueVars, credit, overdrawn>>

-----------------------------------------------------------------------------
(* P25TX::process(), called while the modem is in P25 *)

\* Mutant: the count is taken down before it is looked at.
TailSilenceUnguarded ==
  /\ m_modemState = "P25"
  /\ GetData(m_fifo) = 0 /\ m_poLeft = 0
  /\ m_tailCnt' = m_tailCnt - 1
  /\ m_tx' = TRUE
  /\ UNCHANGED <<m_modemState, m_poLeft, burst, last, queueVars, hostVars>>

\* The tail: silence while nothing is left to send.  IO::write() asserts TX.
TailSilence ==
  /\ m_modemState = "P25"
  /\ GetData(m_fifo) = 0 /\ m_poLeft = 0
  /\ m_tailCnt' \in 0 .. m_tailCnt - 1
  /\ m_tx' = TRUE
  /\ UNCHANGED <<m_modemState, m_poLeft, burst, last, queueVars, hostVars>>

\* createData() with TX off: the preamble, and the frame stays in the queue.
BeginPreamble ==
  /\ m_modemState = "P25"
  /\ m_poLeft = 0 /\ GetData(m_fifo) > 0 /\ ~m_tx
  /\ m_poLeft' = PreambleBytes
  /\ m_tx' = TRUE
  /\ UNCHANGED <<m_modemState, m_tailCnt, burst, last, queueVars, hostVars>>

\* createData() with TX on: the framing is read, and as many bytes as it says.
BeginFrame ==
  /\ m_modemState = "P25"
  /\ m_poLeft = 0 /\ GetData(m_fifo) > 0 /\ m_tx
  /\ LET body == GetAll(m_fifo, HeaderTaken(m_fifo))
         size == SizeAhead(m_fifo)
     IN /\ m_fifo' = GetAll(body, size)
        /\ m_poLeft' = size
        /\ burst' = PeekAll(body, size)
        /\ last' = IF size > 0 /\ burst'[1][1] = "data" THEN burst'[1][2] ELSE last
        /\ accepted' = IF accepted # <<>> /\ size > 0 THEN Tail(accepted) ELSE accepted
  /\ UNCHANGED <<m_modemState, m_tx, m_tailCnt, written, tight, lost, hostVars>>

\* Bytes go to IO::write() as the transmit ring has room, and restart the tail.
SendBytes ==
  /\ m_modemState = "P25"
  /\ m_poLeft' \in 0 .. m_poLeft - 1
  /\ m_tailCnt' = TxHang
  /\ m_tx' = TRUE
  /\ UNCHANGED <<m_modemState, burst, last, queueVars, hostVars>>

\* The engine has something to put on the air.
Busy == m_poLeft > 0 \/ m_tailCnt > 0 \/ GetData(m_fifo) > 0

\* IO::process() drops TX after a gap of TX_HANG_MS.  An engine that is called
\* and has something to send leaves no such gap.
TxOff ==
  /\ m_tx
  /\ m_modemState = "P25" => ~Busy
  /\ m_tx' = FALSE
  /\ UNCHANGED <<m_modemState, m_poLeft, m_tailCnt, burst, last, queueVars, hostVars>>

\* In another mode it is another engine that asserts TX.
OtherEngine ==
  /\ m_modemState # "P25"
  /\ m_tx' = TRUE
  /\ UNCHANGED <<m_modemState, airVars, queueVars, hostVars>>

HostStep ==
  \/ GetStatus
  \/ \E size \in FrameSizes, long \in BOOLEAN :
       DataRefused(size, long) \/ DataQueued(size, long)
  \/ Clear
  \/ \E mode \in {"IDLE", "P25", "DMR"} : SetMode(mode)

Process == TailSilence \/ BeginPreamble \/ BeginFrame \/ SendBytes

Next == HostStep \/ Process \/ OtherEngine \/ TxOff

\* The clock thread calls process() for ever; the host owes nothing.
Spec == Init /\ [][Next]_vars /\ WF_vars(Process)

-----------------------------------------------------------------------------
(***************************************************************************)
(* Properties                                                              *)
(***************************************************************************)

\* The shape of the state.
TypeOK ==
  /\ m_modemState \in {"IDLE", "P25", "DMR"} /\ m_tx \in BOOLEAN
  /\ m_fifo.m_length = FifoLen /\ m_fifo.m_full \in BOOLEAN
  /\ m_fifo.m_head \in 0 .. FifoLen - 1 /\ m_fifo.m_tail \in 0 .. FifoLen - 1
  /\ DOMAIN m_fifo.m_buffer = 0 .. FifoLen - 1
  /\ m_poLeft \in Nat /\ m_tailCnt \in 0 .. TxHang
  /\ credit \in 0 .. 255 /\ ops \in 0 .. MaxOps
  /\ written \in Nat /\ last \in 0 .. written
  /\ accepted \in Seq(Nat \X Nat)
  /\ \A i \in 1 .. Len(burst) : burst[i][1] \in {"short", "long", "len", "msb", "lsb", "data"}
  /\ tight \in BOOLEAN /\ overdrawn \in BOOLEAN /\ lost \in BOOLEAN

FrameBegins == m_poLeft = 0 /\ m_poLeft' > 0 /\ m_tx

\* As long as every frame accepted had room for its framing, what goes on the
\* air is the frames accepted, whole, in order and none twice: the lengths in
\* the ring find the frame boundaries again, wherever the ring wraps.
FrameWhole == FrameBegins /\ ~tight => accepted # <<>> /\ burst' = Payload(Head(accepted))

\* The bytes that these frames and their framing take.
BytesOf(frames) ==
  LET bytes[n \in 0 .. Len(frames)] ==
        IF n = 0 THEN 0 ELSE bytes[n - 1] + (Len(Header(frames[n][2])) + frames[n][2])
  IN  bytes[Len(frames)]

\* Under the same condition the ring holds exactly the frames accepted and not
\* begun: process() looks at getData() alone to know whether any is left.
RingAccounts == ~tight => GetData(m_fifo) = BytesOf(accepted)

\* Once the host is quiet, an engine that is called sends what it has, tail
\* included, and is done: it never keeps TX asserted for nothing.
Silent == m_modemState = "P25" /\ ~tight => ~Busy
FallsSilent == <>[]Silent

-----------------------------------------------------------------------------
(* What comments of the code say and the code does not do. *)

\* RSN_RINGBUFF_FULL, "Ring Buffer Full", is the answer when a frame does not
\* fit.  The code compares the room with the length of the command, which is one
\* or two bytes short of what is put: a frame is accepted truncated, get() then
\* runs past the head, and frames already sent are sent again.
SentOnce ==
  [][FrameBegins /\ burst' # <<>> /\ burst'[1][1] = "data" => burst'[1][2] > last]_vars
=============================================================================
