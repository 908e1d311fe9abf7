----------------------------- MODULE HostReplies -----------------------------
(***************************************************************************)
(* What a modem writes to its host: answers to commands, and reports that  *)
(* the receivers make of their own between them.  A reply carries its      *)
(* length, which is all that tells the host where the next one begins, and *)
(* an answer carries the command it answers, from the third byte of the    *)
(* buffer SerialPort::process() reads into.  A report that is refused uses *)
(* that byte too, and may come while a frame is only partly read.          *)
(***************************************************************************)
EXTENDS Integers

CONSTANTS
  Commands,   \* commands of the host that are acknowledged or refused
  Reports,    \* <<command, length>> of the receivers' frames
  Texts       \* bytes of a debug message, or of the name in a version, with its numbers

Byte == 256
None == "none"

\* CMD_P25_DATA in a long frame, whose third byte is the low half of its length.
LongData == "long CMD_P25_DATA"
LengthLow == "length"

Limited == {"CMD_DMR_DATA", "CMD_P25_DATA", "CMD_NXDN_DATA", "CMD_CAL_DATA", "CMD_RSSI_DATA"}

HostRepliesAssumption ==
  /\ Reports \subseteq Limited \X (0 .. Byte * Byte - 1) /\ Commands \cap {None, LongData, LengthLow} = {}
  /\ \A r \in Reports : r[1] = "CMD_P25_DATA" \/ r[2] < Byte
  /\ Texts \subseteq 0 .. Byte - 1

VARIABLES
  pending,    \* the command of the frame being read or handled
  third,      \* m_buffer[2]
  reply       \* the last reply

vars == <<pending, third, reply>>

\* A reply: the length it carries, the bytes written, the room of its array, the command it
\* names and the one it is an answer to.
Reply(field, sent, room, names, asked) ==
  [field |-> field, sent |-> sent, room |-> room, names |-> names, asked |-> asked]

Nothing == Reply(0, 0, 0, None, None)

Init == pending = None /\ third = None /\ reply = Nothing

-----------------------------------------------------------------------------
(* Commands *)

\* The third byte of a frame.
ReadThird(c) ==
  /\ pending = None
  /\ pending' = c /\ third' = (IF c = LongData THEN LengthLow ELSE c)
  /\ reply' = Nothing

\* sendACK() and sendNAK().
Ack(asked) == Reply(4, 4, 4, third, asked)
Nak(names, asked) == Reply(5, 5, 5, names, asked)

\* getStatus(), and getVersion() with the name of the hardware.
Status == Reply(12, 12, 15, None, None)
Version(name) == Reply((21 + name) % Byte, (21 + name) % Byte, 200, None, None)

\* What a command may be answered with.  The result of a long write is not looked at,
\* so that it is refused whether it was queued or not.
Answers ==
  IF pending = LongData
  THEN {Nak(third, pending)}
  ELSE {Ack(pending), Nak(third, pending), Status, Nothing} \cup {Version(name) : name \in Texts}

\* The last byte of the frame is read, and the command carried out.
Handle ==
  /\ pending # None
  /\ reply' \in Answers
  /\ pending' = None
  /\ UNCHANGED third

\* The watchdog begins the parser again; the byte stays.
Restart ==
  /\ pending # None
  /\ pending' = None /\ reply' = Nothing
  /\ UNCHANGED third

-----------------------------------------------------------------------------
(* Reports *)

\* What writeXData() checks a length against, framing included, and its array.
Limit(command) ==
  CASE command = "CMD_DMR_DATA" -> 40 [] command = "CMD_P25_DATA" -> 520 [] OTHER -> 130

Room(command) == IF command = "CMD_RSSI_DATA" THEN 30 ELSE Limit(command)

Framing(command) == IF command = "CMD_P25_DATA" THEN 4 ELSE 3

Fits(command, length) == length + Framing(command) <= Limit(command)

IsLong(command, length) == command = "CMD_P25_DATA" /\ length >= 252

\* A frame of a receiver, in its own mode or in IDLE; in another it is dropped.  The
\* length of a long one has the framing added to it, and again when it is written.
Report(command, length) ==
  IF ~Fits(command, length)
  THEN third' = command /\ reply' = Nak(command, None) /\ UNCHANGED pending
  ELSE /\ reply' = IF IsLong(command, length)
                   THEN Reply(length + 4, length + 8, Room(command), None, None)
                   ELSE Reply((length + 3) % Byte, length + 3, Room(command), None, None)
       /\ UNCHANGED <<pending, third>>

\* writeXLost().
Lost == reply' = Reply(3, 3, 3, None, None) /\ UNCHANGED <<pending, third>>

\* writeDebug(), which counts in a byte.
Debug(text) ==
  /\ reply' = Reply((3 + text) % Byte, (3 + text) % Byte, 130, None, None)
  /\ UNCHANGED <<pending, third>>

Next ==
  \/ \E c \in Commands \cup {LongData} : ReadThird(c)
  \/ Handle \/ Restart \/ Lost
  \/ \E r \in Reports : Report(r[1], r[2])
  \/ \E text \in Texts : Debug(text)

Spec == Init /\ [][Next]_vars

-----------------------------------------------------------------------------
(* Properties *)

IsLongReply == reply.sent > Byte

\* A reply is as long as it says and no longer than its array, and so the host finds the
\* next one; but a long P25 frame, a packet of 512 bytes, is four bytes longer than it
\* says, and may be longer than its array by as many.
RepliesFound ==
  IF IsLongReply THEN reply.sent = reply.field + 4 /\ reply.sent <= reply.room + 4
  ELSE reply.sent = reply.field /\ reply.sent <= reply.room

\* An answer names the command it answers, whatever was reported since the command was
\* read: no frame the receivers make is refused.  Only the answer to a long frame, always
\* a refusal, names none.
AnswersName == reply.asked \notin {None, LongData} => reply.names = reply.asked
=============================================================================
