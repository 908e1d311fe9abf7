-------------------------------- MODULE Tuning ---------------------------------
(***************************************************************************)
(* The frequencies of RadioManager: what a host asks of its modem, the     *)
(* AFC, the centre of each device, and what the flowgraphs are tuned to.   *)
(*                                                                         *)
(* Channels share devices: a channel is heard where its device listens     *)
(* plus what its translation adds, so that a host that moves its channel   *)
(* may move the centre under all the others.  The arithmetic of the AFC    *)
(* loop is left open: it moves its offset by a step at most, either way.   *)
(***************************************************************************)
EXTENDS Integers, FiniteSetsExt

CONSTANTS
  Channel, Device,
  Bindings,       \* devices a configuration may give to the channels
  Transmitters,   \* devices that can transmit
  Asked,          \* frequencies a host asks for; 0 is none
  Licensed,       \* those within a band IO::setRFParams() knows
  FineStep,       \* 20 kHz: a smaller step of rx alone is the host's fine offset
  AfcStep,        \* 50 Hz, the most the AFC moves at once
  AfcUnit,        \* 1 kHz: afcRange counts in it
  AfcLeast,       \* 100 Hz, the least range
  CenterOffset,   \* rxCenterOffsetHz and txCenterOffsetHz
  MaxAsked, MaxAfc  \* bounds: commands, and AFC updates of a run

TuningAssumption ==
  /\ IsFiniteSet(Channel)
  /\ Bindings \subseteq [Channel -> Device] /\ Transmitters \subseteq Device
  /\ Asked \subseteq Nat /\ Licensed \subseteq Asked \ {0}
  /\ {FineStep, AfcStep, AfcUnit, AfcLeast} \subseteq Nat \ {0} /\ CenterOffset \in Int
  /\ {MaxAsked, MaxAfc} \subseteq Nat

VARIABLES
  rxDevice, txDevice,   \* the device of each channel, from the configuration
  rxFreq, txFreq,       \* of a channel; 0: not assigned
  hostOffset,           \* rxHostFreqOffsetCompHz
  afcOffset,            \* rxAfcOffsetHz
  afcRange,             \* 0 is off, unless enabled
  afcEnable,
  request,              \* <<rx, tx>> of a command between its two calls, or <<>>
  source, sink,         \* centre of a device's source and sink; 0: never set
  rxXlate, txRotator,   \* what the channel's blocks add to it
  \* bookkeeping
  applied,              \* the AFC offset each rxXlate was set with
  asked, updates

config == <<rxDevice, txDevice>>
afc == <<afcOffset, afcRange, afcEnable>>
channels == <<rxFreq, txFreq, hostOffset>>
flowgraph == <<source, sink, rxXlate, txRotator, applied>>
vars == <<config, afc, channels, flowgraph, request, asked, updates>>

ZeroOf(S) == [x \in S |-> 0]

\* parseConfig() makes the channels anew, startRadios() the flowgraphs: no
\* frequency is known before the host gives one.
Init ==
  /\ rxDevice \in Bindings /\ txDevice \in Bindings
  /\ rxFreq = ZeroOf(Channel) /\ txFreq = ZeroOf(Channel) /\ hostOffset = ZeroOf(Channel)
  /\ afcOffset = ZeroOf(Channel) /\ afcRange = ZeroOf(Channel) /\ afcEnable = [c \in Channel |-> FALSE]
  /\ request = [c \in Channel |-> <<>>]
  /\ source = ZeroOf(Device) /\ sink = ZeroOf(Device)
  /\ rxXlate = ZeroOf(Channel) /\ txRotator = ZeroOf(Channel) /\ applied = ZeroOf(Channel)
  /\ asked = 0 /\ updates = 0

-----------------------------------------------------------------------------
(* recomputeDeviceCenters() and applyRetune(), under m_lock *)

\* The middle of the lowest and highest frequency assigned to a device, at least 1.
Assigned(device, freq, d) == {freq[c] : c \in {x \in Channel : device[x] = d /\ freq[x] > 0}}

Center(device, freq, d) ==
  LET used == Assigned(device, freq, d)
      middle == (Min(used) + Max(used)) \div 2 + CenterOffset
  IN  CASE used = {} -> 0 [] used # {} /\ middle < 1 -> 1 [] OTHER -> middle

\* startRadios() gives a device a source, with a translation for each channel it
\* hears, and a sink, with a rotator for each channel it sends if it can send.
HasSource(d) == \E c \in Channel : rxDevice[c] = d

HasSink(d) == d \in Transmitters /\ \E c \in Channel : txDevice[c] = d

\* A centre that is not known leaves the block where it is; the offsets of its
\* channels are computed all the same.
Retuned(device, freq, d, center) ==
  IF Center(device, freq, d) > 0 THEN Center(device, freq, d) ELSE center

\* Mutant: the channels of the device that were there before stay.
XlateOfNew(freq, compensated) ==
  [c \in Channel |-> IF rxFreq[c] > 0 /\ freq[c] = rxFreq[c] THEN rxXlate[c]
                     ELSE freq[c] - Center(rxDevice, freq, rxDevice[c]) - compensated[c] - afcOffset[c]]

Xlate(freq, compensated) ==
  [c \in Channel |-> freq[c] - Center(rxDevice, freq, rxDevice[c]) - compensated[c] - afcOffset[c]]

Rotator(freq) ==
  [c \in Channel |-> IF HasSink(txDevice[c])
                     THEN freq[c] - Center(txDevice, freq, txDevice[c]) ELSE txRotator[c]]

Retune(rx, tx, compensated) ==
  /\ source' = [d \in Device |-> IF HasSource(d) THEN Retuned(rxDevice, rx, d, source[d]) ELSE source[d]]
  /\ sink' = [d \in Device |-> IF HasSink(d) THEN Retuned(txDevice, tx, d, sink[d]) ELSE sink[d]]
  /\ rxXlate' = Xlate(rx, compensated) /\ txRotator' = Rotator(tx)
  /\ applied' = afcOffset

-----------------------------------------------------------------------------
(* A command of the host, on its modem's clock thread: two calls of the manager *)

\* SerialPort::setRFParams() sets the AFC first: its default asks for none, with a
\* range of 1, which turns it on.  The offset starts again, the flowgraph is not told.
SetAFC(c) ==
  /\ request[c] = <<>> /\ asked < MaxAsked
  /\ \E rx \in Asked, tx \in Asked, enable \in BOOLEAN, range \in {0, 1} :
       /\ request' = [request EXCEPT ![c] = <<rx, tx>>]
       /\ afcRange' = [afcRange EXCEPT ![c] = range]
       /\ afcEnable' = [afcEnable EXCEPT ![c] = enable \/ range > 0]
       /\ afcOffset' = [afcOffset EXCEPT ![c] = 0]
  /\ asked' = asked + 1
  /\ UNCHANGED <<config, channels, flowgraph, updates>>

\* One of the two frequencies in a band is enough for both.
Accepted(rx, tx) == {rx, tx} \cap Licensed # {}

\* IO::setRFParams() refuses the frequencies; what was set of the AFC stays.
Refuse(c) ==
  /\ request[c] # <<>> /\ ~Accepted(request[c][1], request[c][2])
  /\ request' = [request EXCEPT ![c] = <<>>]
  /\ UNCHANGED <<config, afc, channels, flowgraph, asked, updates>>

\* A small step of the receive frequency alone is taken for a fine offset of the
\* host, and taken back in the channelizer.
Distance(a, b) == IF a > b THEN a - b ELSE b - a

IsFineStep(c, rx, tx) ==
  rxFreq[c] # 0 /\ txFreq[c] = tx /\ Distance(rx, rxFreq[c]) \in 1 .. FineStep

SetChannelParams(c) ==
  /\ request[c] # <<>> /\ Accepted(request[c][1], request[c][2])
  /\ LET rx == request[c][1]
         tx == request[c][2]
     IN  /\ rxFreq' = [rxFreq EXCEPT ![c] = rx] /\ txFreq' = [txFreq EXCEPT ![c] = tx]
         /\ hostOffset' = IF IsFineStep(c, rx, tx) THEN [hostOffset EXCEPT ![c] = rx - rxFreq[c]]
                          ELSE hostOffset
  /\ Retune(rxFreq', txFreq', hostOffset')
  /\ request' = [request EXCEPT ![c] = <<>>]
  /\ UNCHANGED <<config, afc, asked, updates>>

-----------------------------------------------------------------------------
(* The AFC, on a work thread of the receiving device *)

AfcLimit(range) == Max({AfcLeast, range * AfcUnit})

Clamped(offset, range) == Max({-AfcLimit(range), Min({AfcLimit(range), offset})})

\* enqueueChannelRxIqSamples(): the offset moves, the flowgraph is not told.
AfcUpdate(c) ==
  /\ rxFreq[c] # 0 /\ afcEnable[c] /\ updates < MaxAfc
  /\ \E step \in -AfcStep .. AfcStep :
       afcOffset' = [afcOffset EXCEPT ![c] = Clamped(@ + step, afcRange[c])]
  /\ updates' = updates + 1
  /\ UNCHANGED <<config, afcRange, afcEnable, channels, flowgraph, request, asked>>

Next == \E c \in Channel : SetAFC(c) \/ Refuse(c) \/ SetChannelParams(c) \/ AfcUpdate(c)

Spec == Init /\ [][Next]_vars

-----------------------------------------------------------------------------
(* Properties *)

\* Types, and offsets within their ranges: a smaller range finds no offset of a
\* larger one.
TypeOK ==
  /\ rxFreq \in [Channel -> Asked \cup {0}] /\ txFreq \in [Channel -> Asked \cup {0}]
  /\ \A c \in Channel : hostOffset[c] \in -FineStep .. FineStep
  /\ \A c \in Channel : afcOffset[c] \in -AfcLimit(afcRange[c]) .. AfcLimit(afcRange[c])
  /\ \A c \in Channel : request[c] \in (Asked \X Asked) \cup {<<>>}
  /\ \A d \in Device : source[d] >= 0 /\ sink[d] >= 0
  /\ asked \in 0 .. MaxAsked /\ updates \in 0 .. MaxAfc

\* Whoever moves, and whatever is refused between: every channel is received at its
\* frequency, less the offsets it was last tuned with, and sent at its own.
TunedTogether ==
  \A c \in Channel :
    /\ rxFreq[c] > 0 => source[rxDevice[c]] + rxXlate[c] = rxFreq[c] - hostOffset[c] - applied[c]
    /\ txFreq[c] > 0 /\ HasSink(txDevice[c]) => sink[txDevice[c]] + txRotator[c] = txFreq[c]
=============================================================================
