-------------------------- MODULE MCReceivers_proofs ---------------------------
(***************************************************************************)
(* Proofs about the receive side, for every size of its rings, queues and  *)
(* frames.  A behaviour is one of a single part, so each has an invariant  *)
(* of its own, which needs to hold in its part only.                       *)
(***************************************************************************)
EXTENDS Receivers_proofs

-----------------------------------------------------------------------------
(***************************************************************************)
(* Tuning.  The centre of a device that has a frequency is a number above  *)
(* 0, so that what a channel adds to it makes up its own frequency.        *)
(***************************************************************************)

\* Of sets of numbers, too.
CP == INSTANCE RxChannel_proofs

LEMMA TuningExtremes ==
  ASSUME NEW numbers \in SUBSET Nat, numbers # {}, IsFiniteSet(numbers)
  PROVE  T!Max(numbers) \in numbers /\ T!Min(numbers) \in numbers
<1>1. T!Max(numbers) \in numbers
  <2>1. \E x \in numbers : \A y \in numbers : x >= y
    BY CP!GreatestOf DEF CP!HasGreatest, CP!IsFiniteSet, IsFiniteSet
  <2>2. QED
    BY <2>1 DEF T!Max
<1>2. T!Min(numbers) \in numbers
  <2>1. \E x \in numbers : \A y \in numbers : x <= y
    BY CP!LeastOf
  <2>2. QED
    BY <2>1 DEF T!Min
<1>3. QED
  BY <1>1, <1>2

\* The greater and the lesser of two.
LEMMA TuningOfTwo ==
  ASSUME NEW a \in Int, NEW b \in Int
  PROVE  /\ T!Max({a, b}) \in {a, b} /\ T!Max({a, b}) >= a /\ T!Max({a, b}) >= b
         /\ T!Min({a, b}) \in {a, b} /\ T!Min({a, b}) <= a /\ T!Min({a, b}) <= b
<1>1. \E x \in {a, b} : \A y \in {a, b} : x >= y
  OBVIOUS
<1>2. \E x \in {a, b} : \A y \in {a, b} : x <= y
  OBVIOUS
<1>3. T!Max({a, b}) \in {a, b} /\ \A y \in {a, b} : T!Max({a, b}) >= y
  BY <1>1 DEF T!Max
<1>4. T!Min({a, b}) \in {a, b} /\ \A y \in {a, b} : T!Min({a, b}) <= y
  BY <1>2 DEF T!Min
<1>5. QED
  BY <1>3, <1>4

LEMMA TuningConstants ==
  /\ IsFiniteSet(Channel) /\ Bindings \subseteq [Channel -> Device]
  /\ Asked \subseteq Nat /\ FineStep \in Nat /\ AfcStep \in Nat /\ AfcUnit \in Nat /\ AfcLeast \in Nat
  /\ AfcLeast > 0 /\ AfcUnit > 0 /\ CenterOffset \in Int /\ MaxAsked \in Nat /\ MaxAfc \in Nat
<1>1. T!TuningAssumption
  BY ConstantsFit
<1>2. {FineStep, AfcStep, AfcUnit, AfcLeast} \subseteq Nat \ {0} /\ {MaxAsked, MaxAfc} \subseteq Nat
  BY <1>1 DEF T!TuningAssumption
<1>3. FineStep \in Nat \ {0} /\ AfcStep \in Nat \ {0} /\ AfcUnit \in Nat \ {0} /\ AfcLeast \in Nat \ {0}
  BY <1>2
<1>4. /\ IsFiniteSet(Channel) /\ Bindings \subseteq [Channel -> Device] /\ Asked \subseteq Nat
      /\ CenterOffset \in Int
  <2>1. IsFiniteSet(Channel)
    BY <1>1, Zenon DEF T!TuningAssumption, T!IsFiniteSet, IsFiniteSet
  <2>2. Bindings \subseteq [Channel -> Device]
    BY <1>1, Zenon DEF T!TuningAssumption
  <2>3. Asked \subseteq Nat
    BY <1>1, Zenon DEF T!TuningAssumption
  <2>4. CenterOffset \in Int
    BY <1>1, Zenon DEF T!TuningAssumption
  <2>5. QED
    BY <2>1, <2>2, <2>3, <2>4
<1>5. AfcLeast > 0 /\ AfcUnit > 0
  BY <1>3
<1>6. MaxAsked \in Nat /\ MaxAfc \in Nat
  BY <1>2
<1>7. QED
  BY <1>3, <1>4, <1>5, <1>6

\* A device has a centre when a channel of it has a frequency.
LEMMA TuningCenter ==
  ASSUME NEW device, NEW freq, freq \in [Channel -> Nat], NEW d
  PROVE  /\ T!Center(device, freq, d) \in Nat
         /\ \A c \in Channel : device[c] = d /\ freq[c] > 0 => T!Center(device, freq, d) > 0
<1> DEFINE Of == {x \in Channel : device[x] = d /\ freq[x] > 0}
           used == {freq[c] : c \in Of}
           middle == (T!Min(used) + T!Max(used)) \div 2 + CenterOffset
<1>1. T!Assigned(device, freq, d) = used
  BY DEF T!Assigned
<1>2. IsFiniteSet(used)
  <2>1. IsFiniteSet(Of)
    BY TuningConstants, FS_Subset
  <2>2. QED
    <3>1. [c \in Of |-> freq[c]] \in Surjection(Of, used)
      BY DEF Surjection
    <3>2. QED
      BY <2>1, <3>1, FS_Surjection DEF ExistsSurjection
<1>3. used \in SUBSET Nat
  OBVIOUS
<1>4. T!Center(device, freq, d) = CASE used = {} -> 0 [] used # {} /\ middle < 1 -> 1 [] OTHER -> middle
  BY <1>1 DEF T!Center
<1>5. CASE used = {}
  <2>1. T!Center(device, freq, d) = 0
    BY <1>4, <1>5
  <2>2. \A c \in Channel : ~(device[c] = d /\ freq[c] > 0)
    BY <1>5
  <2>3. QED
    BY <2>1, <2>2
<1>6. CASE used # {}
  <2> HIDE DEF used
  <2>1. T!Max(used) \in Nat /\ T!Min(used) \in Nat
    BY <1>2, <1>3, <1>6, TuningExtremes
  <2>2. PICK i \in Int : i = middle
    BY <2>1, TuningConstants
  <2>3. T!Center(device, freq, d) = CASE used = {} -> 0 [] used # {} /\ i < 1 -> 1 [] OTHER -> i
    BY <1>4, <2>2
  <2>4. i < 1 => T!Center(device, freq, d) = 1
    BY <1>6, <2>3
  <2>5. ~(i < 1) => T!Center(device, freq, d) = i
    BY <1>6, <2>3
  <2>6. T!Center(device, freq, d) \in Nat /\ T!Center(device, freq, d) > 0
    BY <2>2, <2>4, <2>5
  <2>7. QED
    BY <2>6
<1>7. QED
  BY <1>5, <1>6

\* The AFC stays within its range.
LEMMA TuningClamped ==
  ASSUME NEW range \in {0, 1}
  PROVE  /\ T!AfcLimit(range) \in Nat
         /\ 0 \in -T!AfcLimit(range) .. T!AfcLimit(range)
         /\ \A offset \in Int : T!Clamped(offset, range) \in -T!AfcLimit(range) .. T!AfcLimit(range)
<1>1. /\ AfcLeast \in Int /\ range * AfcUnit \in Int /\ AfcLeast > 0 /\ range * AfcUnit >= 0
  BY TuningConstants
<1>2. /\ T!AfcLimit(range) \in {AfcLeast, range * AfcUnit} /\ T!AfcLimit(range) >= AfcLeast
  BY <1>1, TuningOfTwo DEF T!AfcLimit
<1>3. PICK limit \in Nat : limit = T!AfcLimit(range)
  BY <1>1, <1>2
<1>4. ASSUME NEW offset \in Int PROVE T!Clamped(offset, range) \in -limit .. limit
  <2>1. T!Min({limit, offset}) \in {limit, offset} /\ T!Min({limit, offset}) <= limit
    <3>1. limit \in Int /\ offset \in Int
      BY <1>4
    <3>2. QED
      BY <3>1, TuningOfTwo
  <2>2. PICK least \in Int : least = T!Min({limit, offset}) /\ least <= limit
    BY <2>1
  <2>3. -limit \in Int
    OBVIOUS
  <2>4. T!Max({-limit, least}) \in {-limit, least} /\ T!Max({-limit, least}) >= -limit
    BY <2>3, TuningOfTwo
  <2>5. T!Clamped(offset, range) = T!Max({-limit, least})
    BY <1>3, <2>2 DEF T!Clamped
  <2>6. PICK most \in Int : most = T!Clamped(offset, range) /\ most >= -limit /\ (most = -limit \/ most = least)
    BY <2>3, <2>4, <2>5
  <2>7. most \in -limit .. limit
    BY <2>2, <2>6
  <2>8. QED
    BY <2>6, <2>7
<1>5. 0 \in -limit .. limit
  OBVIOUS
<1>6. QED
  BY <1>3, <1>4, <1>5
\* Every channel has a device, what is added is a number, and all are tuned.
TuningTypes ==
  /\ rxDevice \in [Channel -> Device] /\ txDevice \in [Channel -> Device]
  /\ channelRx \in [Channel -> Nat] /\ channelTx \in [Channel -> Nat]
  /\ hostOffset \in [Channel -> Int] /\ afcOffset \in [Channel -> Int] /\ applied \in [Channel -> Int]
  /\ afcRange \in [Channel -> {0, 1}]
  /\ source \in [Device -> Nat] /\ sink \in [Device -> Nat]
  /\ rxXlate \in [Channel -> Int] /\ txRotator \in [Channel -> Int]
  /\ request \in [Channel -> (Asked \X Asked) \cup {<<>>}]

TInv == TuningTypes /\ T!TypeOK /\ T!TunedTogether

\* A retune leaves every channel where its frequency is: the centre of a device that has
\* a frequency is a number above 0, so the block takes it.
LEMMA RetuneTunes ==
  ASSUME TuningTypes, NEW rx \in [Channel -> Nat], NEW tx \in [Channel -> Nat],
         NEW offset \in [Channel -> Int],
         source' = [d \in Device |-> IF T!HasSource(d) THEN T!Retuned(rxDevice, rx, d, source[d]) ELSE source[d]],
         sink' = [d \in Device |-> IF T!HasSink(d) THEN T!Retuned(txDevice, tx, d, sink[d]) ELSE sink[d]],
         rxXlate' = T!Xlate(rx, offset), txRotator' = T!Rotator(tx), applied' = afcOffset
  PROVE  /\ source' \in [Device -> Nat] /\ sink' \in [Device -> Nat]
         /\ rxXlate' \in [Channel -> Int] /\ txRotator' \in [Channel -> Int]
         /\ applied' = afcOffset
         /\ \A c \in Channel :
              /\ rx[c] > 0 => source'[rxDevice[c]] + rxXlate'[c] = rx[c] - offset[c] - afcOffset[c]
              /\ tx[c] > 0 /\ T!HasSink(txDevice[c]) => sink'[txDevice[c]] + txRotator'[c] = tx[c]
<1>1. /\ rxDevice \in [Channel -> Device] /\ txDevice \in [Channel -> Device]
      /\ afcOffset \in [Channel -> Int] /\ txRotator \in [Channel -> Int]
      /\ source \in [Device -> Nat] /\ sink \in [Device -> Nat]
  BY DEF TuningTypes
<1>2. /\ source' = [d \in Device |-> IF T!HasSource(d) THEN T!Retuned(rxDevice, rx, d, source[d]) ELSE source[d]]
      /\ sink' = [d \in Device |-> IF T!HasSink(d) THEN T!Retuned(txDevice, tx, d, sink[d]) ELSE sink[d]]
      /\ rxXlate' = T!Xlate(rx, offset) /\ txRotator' = T!Rotator(tx)
      /\ applied' = afcOffset
  OBVIOUS
<1>3. \A device, d : T!Center(device, rx, d) \in Nat /\ T!Center(device, tx, d) \in Nat
  BY TuningCenter
<1>4. ASSUME NEW d \in Device
      PROVE  /\ T!Retuned(rxDevice, rx, d, source[d]) \in Nat
             /\ T!Retuned(txDevice, tx, d, sink[d]) \in Nat
  BY <1>1, <1>3 DEF T!Retuned
<1>5. source' \in [Device -> Nat] /\ sink' \in [Device -> Nat]
  BY <1>1, <1>2, <1>4
<1>6. \A c \in Channel : rxXlate'[c] = rx[c] - T!Center(rxDevice, rx, rxDevice[c]) - offset[c] - afcOffset[c]
  BY <1>2 DEF T!Xlate
<1>7. rxXlate' \in [Channel -> Int]
  <2>1. rxXlate' = [c \in Channel |-> rx[c] - T!Center(rxDevice, rx, rxDevice[c]) - offset[c] - afcOffset[c]]
    BY <1>2 DEF T!Xlate
  <2>2. ASSUME NEW c \in Channel
        PROVE  rx[c] - T!Center(rxDevice, rx, rxDevice[c]) - offset[c] - afcOffset[c] \in Int
    <3>1. rx[c] \in Nat /\ offset[c] \in Int /\ afcOffset[c] \in Int
      BY <1>1
    <3>2. T!Center(rxDevice, rx, rxDevice[c]) \in Nat
      BY <1>3
    <3>3. QED
      BY <3>1, <3>2
  <2>3. QED
    BY <2>1, <2>2
<1>8. txRotator' = [c \in Channel |-> IF T!HasSink(txDevice[c])
                                      THEN tx[c] - T!Center(txDevice, tx, txDevice[c]) ELSE txRotator[c]]
  BY <1>2 DEF T!Rotator
<1>9. txRotator' \in [Channel -> Int]
  <2>1. ASSUME NEW c \in Channel
        PROVE  tx[c] - T!Center(txDevice, tx, txDevice[c]) \in Int /\ txRotator[c] \in Int
    <3>1. tx[c] \in Nat /\ txRotator[c] \in Int
      BY <1>1
    <3>2. T!Center(txDevice, tx, txDevice[c]) \in Nat
      BY <1>3
    <3>3. QED
      BY <3>1, <3>2
  <2>2. QED
    BY <1>8, <2>1
<1>10. ASSUME NEW c \in Channel, rx[c] > 0
       PROVE  source'[rxDevice[c]] + rxXlate'[c] = rx[c] - offset[c] - afcOffset[c]
  <2>1. rxDevice[c] \in Device /\ T!HasSource(rxDevice[c])
    BY <1>1 DEF T!HasSource
  <2>2. T!Center(rxDevice, rx, rxDevice[c]) \in Nat /\ T!Center(rxDevice, rx, rxDevice[c]) > 0
    BY <1>10, TuningCenter
  <2>3. source'[rxDevice[c]] = T!Center(rxDevice, rx, rxDevice[c])
    BY <1>2, <2>1, <2>2 DEF T!Retuned
  <2>4. rx[c] \in Nat /\ offset[c] \in Int /\ afcOffset[c] \in Int
    BY <1>1
  <2>5. QED
    BY <1>6, <2>2, <2>3, <2>4
<1>11. ASSUME NEW c \in Channel, tx[c] > 0, T!HasSink(txDevice[c])
       PROVE  sink'[txDevice[c]] + txRotator'[c] = tx[c]
  <2>1. txDevice[c] \in Device
    BY <1>1
  <2>2. T!Center(txDevice, tx, txDevice[c]) \in Nat /\ T!Center(txDevice, tx, txDevice[c]) > 0
    BY <1>11, TuningCenter
  <2>3. sink'[txDevice[c]] = T!Center(txDevice, tx, txDevice[c])
    BY <1>2, <1>11, <2>1, <2>2 DEF T!Retuned
  <2>4. txRotator'[c] = tx[c] - T!Center(txDevice, tx, txDevice[c])
    BY <1>8, <1>11
  <2>5. tx[c] \in Nat
    OBVIOUS
  <2>6. QED
    BY <2>2, <2>3, <2>4, <2>5
<1>12. QED
  BY <1>2, <1>5, <1>7, <1>9, <1>10, <1>11


\* What the type invariant says of the numbers that only move within bounds.
TuningRanges ==
  /\ channelRx \in [Channel -> Asked \cup {0}] /\ channelTx \in [Channel -> Asked \cup {0}]
  /\ \A c \in Channel : hostOffset[c] \in -FineStep .. FineStep
  /\ \A c \in Channel : afcOffset[c] \in -T!AfcLimit(afcRange[c]) .. T!AfcLimit(afcRange[c])
  /\ asked \in 0 .. MaxAsked /\ updates \in 0 .. MaxAfc

LEMMA TuningTyped ==
  TuningTypes /\ TuningRanges => T!TypeOK
<1> SUFFICES ASSUME TuningTypes, TuningRanges PROVE T!TypeOK
  OBVIOUS
<1>1. channelRx \in [Channel -> Asked \cup {0}] /\ channelTx \in [Channel -> Asked \cup {0}]
  BY DEF TuningRanges
<1>2. \A c \in Channel : hostOffset[c] \in -FineStep .. FineStep
  BY DEF TuningRanges
<1>3. \A c \in Channel : afcOffset[c] \in -T!AfcLimit(afcRange[c]) .. T!AfcLimit(afcRange[c])
  BY DEF TuningRanges
<1>4. \A c \in Channel : request[c] \in (Asked \X Asked) \cup {<<>>}
  BY DEF TuningTypes
<1>5. \A d \in Device : source[d] >= 0 /\ sink[d] >= 0
  BY DEF TuningTypes
<1>6. asked \in 0 .. MaxAsked /\ updates \in 0 .. MaxAfc
  BY DEF TuningRanges
<1>7. QED
  BY <1>1, <1>2, <1>3, <1>4, <1>5, <1>6 DEF T!TypeOK

LEMMA TuningInRange ==
  T!TypeOK => TuningRanges
BY DEF T!TypeOK, TuningRanges

LEMMA TuningBegins ==
  ASSUME T!Init
  PROVE  TInv
<1>1. /\ rxDevice \in Bindings /\ txDevice \in Bindings
      /\ channelRx = T!ZeroOf(Channel) /\ channelTx = T!ZeroOf(Channel) /\ hostOffset = T!ZeroOf(Channel)
      /\ afcOffset = T!ZeroOf(Channel) /\ afcRange = T!ZeroOf(Channel)
      /\ request = [c \in Channel |-> <<>>]
      /\ source = T!ZeroOf(Device) /\ sink = T!ZeroOf(Device)
      /\ rxXlate = T!ZeroOf(Channel) /\ txRotator = T!ZeroOf(Channel) /\ applied = T!ZeroOf(Channel)
      /\ asked = 0 /\ updates = 0
  BY Zenon DEF T!Init
<1>2. rxDevice \in [Channel -> Device] /\ txDevice \in [Channel -> Device]
  BY <1>1, TuningConstants
<1>3. /\ channelRx = [c \in Channel |-> 0] /\ channelTx = [c \in Channel |-> 0]
      /\ hostOffset = [c \in Channel |-> 0] /\ afcOffset = [c \in Channel |-> 0]
      /\ afcRange = [c \in Channel |-> 0] /\ applied = [c \in Channel |-> 0]
      /\ rxXlate = [c \in Channel |-> 0] /\ txRotator = [c \in Channel |-> 0]
      /\ source = [d \in Device |-> 0] /\ sink = [d \in Device |-> 0]
  BY <1>1 DEF T!ZeroOf
<1>4. request \in [Channel -> (Asked \X Asked) \cup {<<>>}]
  BY <1>1
<1>5. TuningTypes
  BY <1>2, <1>3, <1>4 DEF TuningTypes
<1>6. T!TunedTogether
  BY <1>3 DEF T!TunedTogether
<1>7. TuningRanges
  <2>1. \A c \in Channel : afcRange[c] \in {0, 1} /\ afcOffset[c] = 0 /\ hostOffset[c] = 0
    BY <1>3
  <2>2. \A c \in Channel : afcOffset[c] \in -T!AfcLimit(afcRange[c]) .. T!AfcLimit(afcRange[c])
    BY <2>1, TuningClamped
  <2>3. \A c \in Channel : hostOffset[c] \in -FineStep .. FineStep
    BY <2>1, TuningConstants
  <2>4. channelRx \in [Channel -> Asked \cup {0}] /\ channelTx \in [Channel -> Asked \cup {0}]
    BY <1>3, TuningConstants
  <2>5. asked \in 0 .. MaxAsked /\ updates \in 0 .. MaxAfc
    BY <1>1, TuningConstants
  <2>6. QED
    BY <2>2, <2>3, <2>4, <2>5 DEF TuningRanges
<1>8. QED
  BY <1>5, <1>6, <1>7, TuningTyped DEF TInv

LEMMA TuningTypedNext ==
  (TuningTypes /\ TuningRanges => T!TypeOK)'
BY TuningTyped, PTL

LEMMA TuningSteps ==
  ASSUME TInv, T!Next
  PROVE  TInv'
<1>1. /\ rxDevice \in [Channel -> Device] /\ txDevice \in [Channel -> Device]
      /\ channelRx \in [Channel -> Nat] /\ channelTx \in [Channel -> Nat]
      /\ hostOffset \in [Channel -> Int] /\ afcOffset \in [Channel -> Int] /\ applied \in [Channel -> Int]
      /\ afcRange \in [Channel -> {0, 1}]
      /\ source \in [Device -> Nat] /\ sink \in [Device -> Nat]
      /\ rxXlate \in [Channel -> Int] /\ txRotator \in [Channel -> Int]
      /\ request \in [Channel -> (Asked \X Asked) \cup {<<>>}]
  BY DEF TInv, TuningTypes
<1>2. TuningRanges /\ TuningTypes
  BY TuningInRange DEF TInv
<1>3. T!TunedTogether
  BY DEF TInv
<1>4. PICK c \in Channel : T!SetAFC(c) \/ T!Refuse(c) \/ T!SetChannelParams(c) \/ T!AfcUpdate(c)
  BY DEF T!Next
<1>5. CASE T!SetAFC(c)
  <2>1. PICK rx \in Asked, tx \in Asked, enable \in BOOLEAN, range \in {0, 1} :
          /\ request' = [request EXCEPT ![c] = <<rx, tx>>]
          /\ afcRange' = [afcRange EXCEPT ![c] = range]
          /\ afcOffset' = [afcOffset EXCEPT ![c] = 0]
    BY <1>5 DEF T!SetAFC
  <2>2. /\ UNCHANGED <<rxDevice, txDevice, channelRx, channelTx, hostOffset, source, sink, rxXlate,
                       txRotator, applied, updates>>
        /\ asked' = asked + 1 /\ asked < MaxAsked
    BY <1>5 DEF T!SetAFC, T!config, T!channels, T!flowgraph
  <2>3. request' \in [Channel -> (Asked \X Asked) \cup {<<>>}]
    BY <1>1, <2>1
  <2>4. afcRange' \in [Channel -> {0, 1}] /\ afcOffset' \in [Channel -> Int]
    BY <1>1, <2>1
  <2>5. TuningTypes'
    BY <1>1, <2>2, <2>3, <2>4 DEF TuningTypes
  <2>6. T!TunedTogether'
    BY <1>3, <2>2 DEF T!TunedTogether, T!HasSink
  <2>7. TuningRanges'
    <3>1. ASSUME NEW x \in Channel
          PROVE  afcOffset'[x] \in -T!AfcLimit(afcRange'[x]) .. T!AfcLimit(afcRange'[x])
      <4>1. CASE x = c
        BY <1>1, <2>1, <4>1, TuningClamped
      <4>2. CASE x # c
        <5>1. afcOffset'[x] = afcOffset[x] /\ afcRange'[x] = afcRange[x]
          BY <1>1, <2>1, <4>2
        <5>2. QED
          BY <1>2, <5>1 DEF TuningRanges
      <4>3. QED
        BY <4>1, <4>2
    <3>2. asked' \in 0 .. MaxAsked /\ updates' \in 0 .. MaxAfc
      <4>1. asked \in 0 .. MaxAsked /\ updates \in 0 .. MaxAfc
        BY <1>2 DEF TuningRanges
      <4>2. QED
        BY <2>2, <4>1, TuningConstants
    <3>3. QED
      BY <1>2, <2>2, <3>1, <3>2 DEF TuningRanges
  <2>8. QED
    BY <2>5, <2>6, <2>7, TuningTypedNext DEF TInv
<1>6. CASE T!Refuse(c)
  <2>1. /\ request' = [request EXCEPT ![c] = <<>>]
        /\ UNCHANGED <<rxDevice, txDevice, channelRx, channelTx, hostOffset, source, sink, rxXlate,
                       txRotator, applied, updates, asked, afcRange, afcOffset>>
    BY <1>6 DEF T!Refuse, T!config, T!channels, T!flowgraph, T!afc
  <2>2. request' \in [Channel -> (Asked \X Asked) \cup {<<>>}]
    BY <1>1, <2>1
  <2>3. TuningTypes'
    BY <1>1, <2>1, <2>2 DEF TuningTypes
  <2>4. T!TunedTogether'
    BY <1>3, <2>1 DEF T!TunedTogether, T!HasSink
  <2>5. TuningRanges'
    BY <1>2, <2>1 DEF TuningRanges
  <2>6. QED
    BY <2>3, <2>4, <2>5, TuningTypedNext DEF TInv
<1>7. CASE T!SetChannelParams(c)
  <2>1. request[c] # <<>> /\ request[c] \in (Asked \X Asked) \cup {<<>>}
    BY <1>1, <1>7 DEF T!SetChannelParams
  <2>2. PICK rx \in Asked, tx \in Asked : rx = request[c][1] /\ tx = request[c][2]
    BY <2>1
  <2>3. /\ channelRx' = [channelRx EXCEPT ![c] = rx] /\ channelTx' = [channelTx EXCEPT ![c] = tx]
        /\ hostOffset' = IF T!IsFineStep(c, rx, tx) THEN [hostOffset EXCEPT ![c] = rx - channelRx[c]]
                         ELSE hostOffset
        /\ T!Retune(channelRx', channelTx', hostOffset')
        /\ request' = [request EXCEPT ![c] = <<>>]
    BY <1>7, <2>2 DEF T!SetChannelParams
  <2>4. UNCHANGED <<rxDevice, txDevice, afcOffset, afcRange, asked, updates>>
    BY <1>7 DEF T!SetChannelParams, T!config, T!afc
  <2>5. rx \in Nat /\ tx \in Nat /\ channelRx[c] \in Nat
    BY <1>1, TuningConstants
  <2>6. PICK nrx \in [Channel -> Nat], ntx \in [Channel -> Nat], offset \in [Channel -> Int] :
          nrx = channelRx' /\ ntx = channelTx' /\ offset = hostOffset'
    <3>1. channelRx' \in [Channel -> Nat] /\ channelTx' \in [Channel -> Nat]
      BY <1>1, <2>3, <2>5
    <3>2. rx - channelRx[c] \in Int
      BY <2>5
    <3>3. hostOffset' \in [Channel -> Int]
      BY <1>1, <2>3, <3>2
    <3>4. QED
      BY <3>1, <3>3, Zenon
  <2>7. /\ source' \in [Device -> Nat] /\ sink' \in [Device -> Nat]
        /\ rxXlate' \in [Channel -> Int] /\ txRotator' \in [Channel -> Int]
        /\ applied' = afcOffset
        /\ \A x \in Channel :
             /\ channelRx'[x] > 0 =>
                  source'[rxDevice[x]] + rxXlate'[x] = channelRx'[x] - hostOffset'[x] - afcOffset[x]
             /\ channelTx'[x] > 0 /\ T!HasSink(txDevice[x]) =>
                  sink'[txDevice[x]] + txRotator'[x] = channelTx'[x]
    <3>1. /\ source' = [d \in Device |-> IF T!HasSource(d) THEN T!Retuned(rxDevice, nrx, d, source[d])
                                                        ELSE source[d]]
          /\ sink' = [d \in Device |-> IF T!HasSink(d) THEN T!Retuned(txDevice, ntx, d, sink[d])
                                                    ELSE sink[d]]
          /\ rxXlate' = T!Xlate(nrx, offset) /\ txRotator' = T!Rotator(ntx)
          /\ applied' = afcOffset
      BY <2>3, <2>6 DEF T!Retune
    <3>2. QED
      BY <1>2, <2>6, <3>1, RetuneTunes
  <2>8. request' \in [Channel -> (Asked \X Asked) \cup {<<>>}]
    BY <1>1, <2>3
  <2>9. TuningTypes'
    BY <1>1, <2>4, <2>6, <2>7, <2>8 DEF TuningTypes
  <2>10. T!TunedTogether'
    BY <2>4, <2>7 DEF T!TunedTogether, T!HasSink
  <2>11. TuningRanges'
    <3>1. channelRx' \in [Channel -> Asked \cup {0}] /\ channelTx' \in [Channel -> Asked \cup {0}]
      BY <1>2, <2>3 DEF TuningRanges
    <3>2. T!IsFineStep(c, rx, tx) => rx - channelRx[c] \in -FineStep .. FineStep
      BY <2>5, TuningConstants DEF T!IsFineStep, T!Distance
    <3>3. ASSUME NEW x \in Channel PROVE hostOffset'[x] \in -FineStep .. FineStep
      <4>1. hostOffset[x] \in -FineStep .. FineStep
        BY <1>2 DEF TuningRanges
      <4>2. QED
        BY <1>1, <2>3, <3>2, <4>1
    <3>4. QED
      BY <1>2, <2>4, <3>1, <3>3 DEF TuningRanges
  <2>12. QED
    BY <2>9, <2>10, <2>11, TuningTypedNext DEF TInv
<1>8. CASE T!AfcUpdate(c)
  <2>1. PICK step \in -AfcStep .. AfcStep :
          afcOffset' = [afcOffset EXCEPT ![c] = T!Clamped(@ + step, afcRange[c])]
    BY <1>8 DEF T!AfcUpdate
  <2>2. /\ UNCHANGED <<rxDevice, txDevice, channelRx, channelTx, hostOffset, source, sink, rxXlate,
                       txRotator, applied, asked, afcRange, request>>
        /\ updates' = updates + 1 /\ updates < MaxAfc
    BY <1>8 DEF T!AfcUpdate, T!config, T!channels, T!flowgraph
  <2>3. afcRange[c] \in {0, 1} /\ afcOffset[c] + step \in Int
    BY <1>1, TuningConstants
  <2>4. PICK limit \in Nat : limit = T!AfcLimit(afcRange[c])
    BY <2>3, TuningClamped
  <2>5. T!Clamped(afcOffset[c] + step, afcRange[c]) \in -limit .. limit
    BY <2>3, <2>4, TuningClamped
  <2>6. afcOffset' = [afcOffset EXCEPT ![c] = T!Clamped(afcOffset[c] + step, afcRange[c])]
    BY <1>1, <2>1
  <2>7. afcOffset'[c] \in -limit .. limit /\ \A x \in Channel : x # c => afcOffset'[x] = afcOffset[x]
    BY <1>1, <2>5, <2>6
  <2>8. afcOffset' \in [Channel -> Int]
    <3>1. T!Clamped(afcOffset[c] + step, afcRange[c]) \in Int
      BY <2>5
    <3>2. QED
      BY <1>1, <2>6, <3>1
  <2>9. TuningTypes'
    BY <1>1, <2>2, <2>8 DEF TuningTypes
  <2>10. T!TunedTogether'
    BY <1>3, <2>2 DEF T!TunedTogether, T!HasSink
  <2>11. TuningRanges'
    <3>1. ASSUME NEW x \in Channel
          PROVE  afcOffset'[x] \in -T!AfcLimit(afcRange'[x]) .. T!AfcLimit(afcRange'[x])
      <4>1. CASE x = c
        BY <2>2, <2>4, <2>7, <4>1
      <4>2. CASE x # c
        BY <1>2, <2>2, <2>7, <4>2 DEF TuningRanges
      <4>3. QED
        BY <4>1, <4>2
    <3>2. asked' \in 0 .. MaxAsked /\ updates' \in 0 .. MaxAfc
      <4>1. asked \in 0 .. MaxAsked /\ updates \in 0 .. MaxAfc
        BY <1>2 DEF TuningRanges
      <4>2. QED
        BY <2>2, <4>1, TuningConstants
    <3>3. QED
      BY <1>2, <2>2, <3>1, <3>2 DEF TuningRanges
  <2>12. QED
    BY <2>9, <2>10, <2>11, TuningTypedNext DEF TInv
<1>9. QED
  BY <1>4, <1>5, <1>6, <1>7, <1>8

-----------------------------------------------------------------------------
(***************************************************************************)
(* DmrSync, of direct mode and of the idle receiver.  In the middle of a   *)
(* burst the sample that comes in has the place of the last sync plus the  *)
(* samples since; in a call, that of the last burst plus the samples       *)
(* since.  A sync that moves the window is stronger than those before it   *)
(* and comes right after: a burst is as much longer than a round of the    *)
(* ring as there are strengths.                                            *)
(***************************************************************************)
G(ring, calls) == INSTANCE DmrSync WITH SlotRing <- ring, HasCalls <- calls

InCall == m_state = "CALL"

Weaker(corr) == Cardinality({c \in Strengths : c <= corr})

RingFits(ring) ==
  /\ ring \in Nat /\ BurstTail \in Nat /\ BurstTail > 0
  /\ Strengths \subseteq Nat \ {0} /\ IsFiniteSet(Strengths)
  /\ BurstTail + 2 * Cardinality(Strengths) + 2 < ring

RingTypes(ring) ==
  /\ m_dataPtr \in 0 .. ring - 1 /\ m_syncPtr \in 0 .. ring - 1 /\ m_endPtr \in 0 .. ring
  /\ m_maxCorr \in Strengths \cup {0} /\ m_control \in BOOLEAN /\ since \in Nat /\ fresh \in Nat

\* A burst that has its sync.
RingSynced(ring) ==
  m_control =>
    /\ m_endPtr = (m_syncPtr + BurstTail) % ring /\ fresh < BurstTail
    /\ m_dataPtr = (m_syncPtr + fresh + 1) % ring
    /\ InCall => since <= fresh + ring - BurstTail + Weaker(m_maxCorr)

\* A burst of a call that has none yet.
RingUnsynced(ring) ==
  ~m_control =>
    /\ m_maxCorr = 0
    /\ InCall => /\ m_endPtr = (m_syncPtr + BurstTail) % ring /\ since < ring
                 /\ m_dataPtr = (m_endPtr + 1 + since) % ring

RingInv(ring) ==
  /\ m_state \in {"NONE", "CALL"} /\ report \in {"", "sync", "late"}
  /\ RingTypes(ring) /\ RingSynced(ring) /\ RingUnsynced(ring)

LEMMA RingWrap ==
  ASSUME NEW ring \in Nat, ring > 0, NEW x \in Nat
  PROVE  /\ x % ring \in 0 .. ring - 1
         /\ x < ring => x % ring = x
         /\ x >= ring /\ x < 2 * ring => x % ring = x - ring
         /\ x >= 2 * ring /\ x < 3 * ring => x % ring = x - 2 * ring
<1>1. ring \in Nat \ {0}
  OBVIOUS
<1>2. x % ring \in 0 .. ring - 1
  BY <1>1
<1>3. x < ring => x % ring = x
  BY <1>1
<1>4. x >= ring /\ x < 2 * ring => x % ring = x - ring
  BY <1>1
<1>5. x >= 2 * ring /\ x < 3 * ring => x % ring = x - 2 * ring
  BY <1>1
<1>6. QED
  BY <1>2, <1>3, <1>4, <1>5

\* A stronger sync has more that are not stronger than it.
LEMMA WeakerGrows ==
  ASSUME IsFiniteSet(Strengths), Strengths \subseteq Nat \ {0},
         NEW a \in Strengths \cup {0}, NEW b \in Strengths, a < b
  PROVE  /\ Weaker(a) \in Nat /\ Weaker(b) \in Nat /\ Weaker(a) + 1 <= Weaker(b)
         /\ Weaker(b) <= Cardinality(Strengths) /\ Cardinality(Strengths) \in Nat
<1> DEFINE As == {c \in Strengths : c <= a}
           Bs == {c \in Strengths : c <= b}
<1>1. /\ IsFiniteSet(As) /\ IsFiniteSet(Bs)
      /\ Cardinality(As) \in Nat /\ Cardinality(Bs) \in Nat /\ Cardinality(Strengths) \in Nat
      /\ Cardinality(Bs) <= Cardinality(Strengths)
  BY FS_Subset, FS_CardinalityType
<1>2. IsFiniteSet(Bs \ {b}) /\ Cardinality(Bs \ {b}) = Cardinality(Bs) - 1
  <2>1. b \in Bs
    OBVIOUS
  <2>2. QED
    BY <1>1, <2>1, FS_RemoveElement
<1>3. As \subseteq Bs \ {b}
  <2>1. a \in Nat /\ b \in Nat /\ \A c \in Strengths : c \in Nat
    OBVIOUS
  <2>2. \A c \in Strengths : c <= a => c <= b /\ c # b
    BY <2>1
  <2>3. QED
    BY <2>2
<1>4. Cardinality(As) <= Cardinality(Bs \ {b})
  BY <1>2, <1>3, FS_Subset
<1>5. QED
  BY <1>1, <1>2, <1>4 DEF Weaker

LEMMA WeakerBound ==
  ASSUME IsFiniteSet(Strengths), NEW a
  PROVE  /\ Weaker(a) \in Nat /\ Weaker(a) <= Cardinality(Strengths)
         /\ Cardinality(Strengths) \in Nat
  BY FS_Subset, FS_CardinalityType DEF Weaker

\* A sample within a burst, without and with a sync: in a call only near the last one.
RingUnseen(ring) ==
  /\ m_dataPtr # m_endPtr
  /\ fresh' = (IF m_control THEN fresh + 1 ELSE 0)
  /\ m_syncPtr' = m_syncPtr /\ m_endPtr' = m_endPtr /\ m_maxCorr' = m_maxCorr /\ m_control' = m_control

RingSeen(ring) ==
  /\ m_maxCorr' \in Strengths /\ m_maxCorr' > m_maxCorr /\ m_control' = TRUE
  /\ m_syncPtr' = m_dataPtr /\ m_endPtr' = (m_dataPtr + BurstTail) % ring /\ fresh' = 0
  /\ InCall => m_dataPtr = (m_syncPtr + ring - 1) % ring \/ m_dataPtr = m_syncPtr
               \/ m_dataPtr = (m_syncPtr + 1) % ring

\* The window is a sample to either side of the last sync.
LEMMA RingWindow ==
  ASSUME NEW ring, NEW calls, RingFits(ring), m_dataPtr \in 0 .. ring - 1, m_syncPtr \in 0 .. ring - 1,
         G(ring, calls)!InWindow
  PROVE  \/ m_dataPtr = (m_syncPtr + ring - 1) % ring \/ m_dataPtr = m_syncPtr
         \/ m_dataPtr = (m_syncPtr + 1) % ring
<1>1. ring \in Nat /\ ring > 3
  <2>1. Cardinality(Strengths) \in Nat
    BY FS_CardinalityType DEF RingFits
  <2>2. QED
    BY <2>1 DEF RingFits
<1> DEFINE below == (m_syncPtr + ring - 1) % ring
           above == (m_syncPtr + 1) % ring
<1>2. IF below < above THEN m_dataPtr >= below /\ m_dataPtr <= above
                       ELSE m_dataPtr >= below \/ m_dataPtr <= above
  BY Zenon DEF G!InWindow, G!Wrap
<1>3. /\ m_syncPtr = 0 => below = ring - 1 /\ above = 1
      /\ m_syncPtr > 0 /\ m_syncPtr < ring - 1 => below = m_syncPtr - 1 /\ above = m_syncPtr + 1
      /\ m_syncPtr = ring - 1 => below = ring - 2 /\ above = 0
  BY <1>1, RingWrap
<1> HIDE DEF below, above
<1>4. m_dataPtr = below \/ m_dataPtr = m_syncPtr \/ m_dataPtr = above
  BY <1>1, <1>2, <1>3
<1>5. QED
  BY <1>4 DEF below, above

LEMMA RingMoves ==
  ASSUME NEW ring, NEW calls, RingFits(ring), RingInv(ring), G(ring, calls)!SampleInBurst
  PROVE  /\ RingUnseen(ring) \/ RingSeen(ring)
         /\ m_dataPtr' = (m_dataPtr + 1) % ring /\ m_state' = m_state /\ (InCall' <=> InCall) /\ report' = ""
         /\ InCall => since' = since + 1
         /\ ~InCall => since' = 0
<1>1. m_dataPtr \in 0 .. ring - 1 /\ m_syncPtr \in 0 .. ring - 1
  BY Zenon DEF RingInv, RingTypes
<1>2. PICK corr \in G(ring, calls)!Syncs : IF corr = 0 THEN m_dataPtr # m_endPtr /\ G(ring, calls)!Unseen
                                           ELSE G(ring, calls)!Seen(corr)
  BY Zenon DEF G!SampleInBurst
<1>3. ASSUME corr = 0 PROVE RingUnseen(ring)
  BY <1>2, <1>3, Zenon DEF G!Unseen, RingUnseen
<1>4. ASSUME corr # 0 PROVE RingSeen(ring)
  <2>1. corr \in Strengths /\ corr > m_maxCorr /\ (InCall => G(ring, calls)!InWindow)
    <3>1. CASE m_state = "NONE" \/ G(ring, calls)!InWindow
      <4>1. corr \in {0} \cup {c \in Strengths : c > m_maxCorr}
        BY <3>1, Zenon DEF G!Syncs
      <4>2. ~(m_state = "NONE") \/ ~InCall
        BY Zenon DEF InCall
      <4>3. QED
        BY <1>4, <3>1, <4>1, <4>2, Zenon
    <3>2. CASE ~(m_state = "NONE" \/ G(ring, calls)!InWindow)
      <4>1. corr \in {0}
        BY <3>2, Zenon DEF G!Syncs
      <4>2. QED
        BY <1>4, <4>1, Zenon
    <3>3. QED
      BY <3>1, <3>2, Zenon
  <2>2. G(ring, calls)!Seen(corr)
    BY <1>2, <1>4, Zenon
  <2>3. QED
    BY <1>1, <2>1, <2>2, RingWindow, Zenon DEF RingSeen, G!Seen, G!EndOfBurst, G!Wrap
<1>5. /\ m_dataPtr' = (m_dataPtr + 1) % ring /\ m_state' = m_state /\ report' = ""
      /\ since' = (IF m_state = "NONE" THEN 0 ELSE since + 1)
  BY Zenon DEF G!SampleInBurst, G!Advance, G!Wrap
<1>6. (InCall' <=> InCall) /\ (InCall => m_state # "NONE") /\ (~InCall => m_state = "NONE")
  BY <1>5, Zenon DEF InCall, RingInv
<1>7. QED
  BY <1>3, <1>4, <1>5, <1>6, Zenon

\* What the state and the report may be, on every step.
LEMMA RingKinds ==
  ASSUME NEW ring, NEW calls, RingInv(ring), G(ring, calls)!Next
  PROVE  m_state' \in {"NONE", "CALL"} /\ report' \in {"", "sync", "late"}
<1>1. m_state \in {"NONE", "CALL"}
  BY Zenon DEF RingInv
<1>2. CASE G(ring, calls)!SampleInBurst
  BY <1>1, <1>2, Zenon DEF G!SampleInBurst
<1>3. CASE G(ring, calls)!SampleEndsBurst
  BY <1>1, <1>3, Zenon DEF G!SampleEndsBurst, G!BurstSays
<1>4. CASE G(ring, calls)!Reset
  BY <1>4, Zenon DEF G!Reset
<1>5. QED
  BY <1>2, <1>3, <1>4, Zenon DEF G!Next

\* A sample within a burst: a stronger sync right after the last, or the first of a burst
\* near the one before, leaves as many samples as there are strengths to come.
LEMMA RingGoesOn ==
  ASSUME NEW ring, NEW calls, RingFits(ring), RingInv(ring), G(ring, calls)!SampleInBurst
  PROVE  RingInv(ring)'
<1>1. /\ RingUnseen(ring) \/ RingSeen(ring)
      /\ m_dataPtr' = (m_dataPtr + 1) % ring /\ (InCall' <=> InCall)
      /\ InCall => since' = since + 1
      /\ ~InCall => since' = 0
  BY RingMoves, Zenon
<1>2. /\ ring \in Nat /\ BurstTail \in Nat /\ BurstTail > 0 /\ Cardinality(Strengths) \in Nat
      /\ BurstTail + 2 * Cardinality(Strengths) + 2 < ring /\ ring > 0
  <2>1. Cardinality(Strengths) \in Nat
    BY FS_CardinalityType DEF RingFits
  <2>2. QED
    BY <2>1 DEF RingFits
<1>3. RingTypes(ring) /\ RingSynced(ring) /\ RingUnsynced(ring)
  BY Zenon DEF RingInv
<1>4. /\ m_dataPtr \in Nat /\ m_dataPtr < ring /\ m_syncPtr \in Nat /\ m_syncPtr < ring
      /\ m_endPtr \in 0 .. ring /\ since \in Nat /\ fresh \in Nat /\ m_control \in BOOLEAN
      /\ m_maxCorr \in Strengths \cup {0}
  BY <1>2, <1>3 DEF RingTypes
<1>5. Weaker(m_maxCorr) \in Nat /\ Weaker(m_maxCorr) <= Cardinality(Strengths)
  BY WeakerBound DEF RingFits
<1>6. m_dataPtr' \in 0 .. ring - 1 /\ since' \in Nat
  <2>1. m_dataPtr' \in 0 .. ring - 1
    BY <1>1, <1>2, <1>4, RingWrap
  <2>2. since' \in Nat
    BY <1>1, <1>4
  <2>3. QED
    BY <2>1, <2>2
<1>7. CASE RingUnseen(ring)
  <2>1. /\ m_dataPtr # m_endPtr /\ fresh' = (IF m_control THEN fresh + 1 ELSE 0)
        /\ m_syncPtr' = m_syncPtr /\ m_endPtr' = m_endPtr /\ m_maxCorr' = m_maxCorr
        /\ m_control' = m_control
    BY <1>7 DEF RingUnseen
  <2>2. RingTypes(ring)'
    BY <1>2, <1>4, <1>6, <2>1 DEF RingTypes
  <2>3. ASSUME m_control
        PROVE  /\ fresh + 1 < BurstTail /\ m_dataPtr' = (m_syncPtr + (fresh + 1) + 1) % ring
               /\ m_endPtr = (m_syncPtr + BurstTail) % ring
               /\ InCall => since <= fresh + ring - BurstTail + Weaker(m_maxCorr)
    <3>1. /\ m_endPtr = (m_syncPtr + BurstTail) % ring /\ fresh < BurstTail
          /\ m_dataPtr = (m_syncPtr + fresh + 1) % ring
          /\ InCall => since <= fresh + ring - BurstTail + Weaker(m_maxCorr)
      BY <1>3, <2>3 DEF RingSynced
    <3>2. fresh + 1 # BurstTail
      <4>1. fresh + 1 = BurstTail => m_syncPtr + fresh + 1 = m_syncPtr + BurstTail
        BY <1>2, <1>4
      <4>2. QED
        BY <2>1, <3>1, <4>1
    <3>3. fresh + 1 < BurstTail
      BY <1>2, <1>4, <3>1, <3>2
    <3>4. m_dataPtr' = (m_syncPtr + (fresh + 1) + 1) % ring
      <4>1. PICK x \in Nat : x = m_syncPtr + fresh + 1 /\ x + 1 = m_syncPtr + (fresh + 1) + 1 /\ x + 1 < 2 * ring
        BY <1>2, <1>4, <3>3
      <4>2. m_dataPtr = x % ring /\ m_dataPtr' = (m_dataPtr + 1) % ring
        BY <1>1, <3>1, <4>1
      <4>3. x < ring - 1 => m_dataPtr = x /\ (x + 1) % ring = x + 1 /\ (m_dataPtr + 1) % ring = x + 1
        BY <1>2, <4>2, RingWrap
      <4>4. x = ring - 1 => m_dataPtr = x
        BY <1>2, <4>2, RingWrap
      <4>5. x >= ring => m_dataPtr = x - ring /\ (x + 1) % ring = x + 1 - ring
                         /\ (x - ring + 1) % ring = x - ring + 1
        BY <1>2, <4>1, <4>2, RingWrap
      <4>6. QED
        BY <1>2, <4>1, <4>2, <4>3, <4>4, <4>5
    <3>5. QED
      BY <3>1, <3>3, <3>4
  <2>4. RingSynced(ring)'
    <3>1. ASSUME m_control
          PROVE  /\ m_endPtr' = (m_syncPtr' + BurstTail) % ring /\ fresh' < BurstTail
                 /\ m_dataPtr' = (m_syncPtr' + fresh' + 1) % ring
                 /\ InCall => since' <= fresh' + ring - BurstTail + Weaker(m_maxCorr')
      <4>1. fresh' = fresh + 1
        BY <2>1, <3>1
      <4>2. InCall => since' <= (fresh + 1) + ring - BurstTail + Weaker(m_maxCorr)
        BY <1>1, <1>2, <1>4, <1>5, <2>3, <3>1
      <4>3. QED
        BY <2>1, <2>3, <3>1, <4>1, <4>2
    <3>2. QED
      BY <1>1, <2>1, <3>1 DEF RingSynced, Weaker
  <2>5. RingUnsynced(ring)'
    <3>1. ASSUME ~m_control, InCall
          PROVE  /\ m_endPtr' = (m_syncPtr' + BurstTail) % ring /\ since' < ring
                 /\ m_dataPtr' = (m_endPtr' + 1 + since') % ring
      <4>1. /\ m_endPtr = (m_syncPtr + BurstTail) % ring /\ since < ring
            /\ m_dataPtr = (m_endPtr + 1 + since) % ring
        BY <1>3, <3>1 DEF RingUnsynced
      <4>2. m_endPtr \in Nat /\ m_endPtr < ring
        BY <1>2, <1>4, <4>1, RingWrap
      <4>3. PICK x \in Nat : x = m_endPtr + 1 + since /\ x < 2 * ring /\ m_dataPtr = x % ring
        BY <1>2, <1>4, <4>1, <4>2
      <4>4. since + 1 # ring
        <5>1. ASSUME since + 1 = ring PROVE FALSE
          <6>1. x = m_endPtr + ring
            BY <1>2, <1>4, <4>2, <4>3, <5>1
          <6>2. x % ring = m_endPtr
            BY <1>2, <4>2, <4>3, <6>1, RingWrap
          <6>3. QED
            BY <2>1, <4>3, <6>2
        <5>2. QED
          BY <5>1
      <4>5. since' = since + 1 /\ since' < ring
        BY <1>1, <1>2, <1>4, <3>1, <4>1, <4>4
      <4>6. x + 1 < 2 * ring /\ x + 1 = m_endPtr + 1 + (since + 1)
        BY <1>2, <1>4, <4>2, <4>3, <4>5
      <4>7. x < ring => m_dataPtr = x
        BY <1>2, <4>3, RingWrap
      <4>8. x >= ring => m_dataPtr = x - ring /\ (x + 1) % ring = x + 1 - ring
                         /\ (x - ring + 1) % ring = x - ring + 1
        BY <1>2, <4>3, <4>6, RingWrap
      <4>9. (m_dataPtr + 1) % ring = (x + 1) % ring
        BY <1>2, <4>3, <4>7, <4>8
      <4>10. QED
        BY <1>1, <2>1, <4>1, <4>5, <4>6, <4>9
    <3>2. ~m_control => m_maxCorr = 0
      BY <1>3 DEF RingUnsynced
    <3>3. QED
      BY <1>1, <2>1, <3>1, <3>2 DEF RingUnsynced
  <2>6. QED
    BY <2>2, <2>4, <2>5, RingKinds, Zenon DEF RingInv, G!Next
<1>8. CASE RingSeen(ring)
  <2>1. /\ m_maxCorr' \in Strengths /\ m_maxCorr' > m_maxCorr /\ m_control' = TRUE
        /\ m_syncPtr' = m_dataPtr /\ m_endPtr' = (m_dataPtr + BurstTail) % ring /\ fresh' = 0
        /\ InCall => m_dataPtr = (m_syncPtr + ring - 1) % ring \/ m_dataPtr = m_syncPtr
                     \/ m_dataPtr = (m_syncPtr + 1) % ring
    BY <1>8 DEF RingSeen
  <2>2. m_endPtr' \in 0 .. ring
    <3>1. (m_dataPtr + BurstTail) % ring \in 0 .. ring - 1
      BY <1>2, <1>4, RingWrap
    <3>2. QED
      BY <1>2, <2>1, <3>1
  <2>3. RingTypes(ring)'
    BY <1>2, <1>4, <1>6, <2>1, <2>2 DEF RingTypes
  <2>4. PICK strength \in Strengths : strength = m_maxCorr'
    BY <2>1
  <2>5. m_maxCorr \in Nat /\ strength \in Nat /\ m_maxCorr < strength
    BY <1>4, <2>1, <2>4 DEF RingFits
  <2>6. Weaker(strength) \in Nat /\ Weaker(m_maxCorr) + 1 <= Weaker(strength)
    BY <1>4, <2>5, WeakerGrows DEF RingFits
  <2>7. /\ m_syncPtr = 0 => (m_syncPtr + ring - 1) % ring = ring - 1 /\ (m_syncPtr + 1) % ring = 1
        /\ m_syncPtr > 0 /\ m_syncPtr < ring - 1 =>
             (m_syncPtr + ring - 1) % ring = m_syncPtr - 1 /\ (m_syncPtr + 1) % ring = m_syncPtr + 1
        /\ m_syncPtr = ring - 1 => (m_syncPtr + ring - 1) % ring = ring - 2 /\ (m_syncPtr + 1) % ring = 0
    BY <1>2, <1>4, RingWrap
  <2>8. PICK below \in Int, above \in Int : below = (m_syncPtr + ring - 1) % ring /\ above = (m_syncPtr + 1) % ring
    BY <1>2, <1>4, RingWrap
  <2>9. ASSUME InCall PROVE since + 1 <= ring - BurstTail + Weaker(strength)
    <3>1. CASE m_control
      <4>1. /\ fresh < BurstTail /\ m_dataPtr = (m_syncPtr + fresh + 1) % ring
            /\ since <= fresh + ring - BurstTail + Weaker(m_maxCorr)
        BY <1>3, <2>9, <3>1 DEF RingSynced
      <4>2. PICK x \in Nat : x = m_syncPtr + fresh + 1 /\ m_dataPtr = x % ring /\ x < m_syncPtr + ring - 1
        BY <1>2, <1>4, <4>1
      <4>3. (x < ring => m_dataPtr = x) /\ (x >= ring => m_dataPtr = x - ring)
        BY <1>2, <1>4, <4>2, RingWrap
      <4>4. fresh = 0
        BY <1>2, <1>4, <2>1, <2>7, <2>8, <2>9, <4>2, <4>3
      <4>5. QED
        BY <1>2, <1>4, <1>5, <2>6, <4>1, <4>4
    <3>2. CASE ~m_control
      <4>1. /\ m_endPtr = (m_syncPtr + BurstTail) % ring /\ since < ring
            /\ m_dataPtr = (m_endPtr + 1 + since) % ring
        BY <1>3, <2>9, <3>2 DEF RingUnsynced
      <4>2. m_endPtr \in Nat /\ m_endPtr < ring
        BY <1>2, <1>4, <4>1, RingWrap
      <4>3. /\ m_syncPtr + BurstTail < ring => m_endPtr = m_syncPtr + BurstTail
            /\ m_syncPtr + BurstTail >= ring => m_endPtr = m_syncPtr + BurstTail - ring
        BY <1>2, <1>4, <4>1, RingWrap
      <4>4. PICK x \in Nat : x = m_endPtr + 1 + since /\ x < 2 * ring /\ m_dataPtr = x % ring
        BY <1>2, <1>4, <4>1, <4>2
      <4>5. (x < ring => m_dataPtr = x) /\ (x >= ring => m_dataPtr = x - ring)
        BY <1>2, <4>4, RingWrap
      <4>6. since <= ring - BurstTail
        BY <1>2, <1>4, <2>1, <2>7, <2>8, <2>9, <4>1, <4>2, <4>3, <4>4, <4>5
      <4>7. QED
        BY <1>2, <1>4, <1>5, <2>6, <4>6
    <3>3. QED
      BY <1>4, <3>1, <3>2
  <2>10. RingSynced(ring)'
    <3>1. m_dataPtr' = (m_syncPtr' + fresh' + 1) % ring /\ fresh' < BurstTail
      <4>1. m_dataPtr + 0 + 1 = m_dataPtr + 1
        BY <1>4
      <4>2. QED
        BY <1>1, <1>2, <2>1, <4>1
    <3>2. InCall => since' <= fresh' + ring - BurstTail + Weaker(strength)
      <4>1. 0 + ring - BurstTail + Weaker(strength) = ring - BurstTail + Weaker(strength)
        BY <1>2, <2>6
      <4>2. QED
        BY <1>1, <2>1, <2>9, <4>1
    <3>3. QED
      BY <1>1, <2>1, <2>4, <3>1, <3>2 DEF RingSynced, Weaker
  <2>11. RingUnsynced(ring)'
    BY <2>1 DEF RingUnsynced
  <2>12. QED
    BY <2>3, <2>10, <2>11, RingKinds, Zenon DEF RingInv, G!Next
<1>9. QED
  BY <1>1, <1>7, <1>8

\* When a burst ends, what it says may leave the pointers or forget them; a call goes on
\* from where they are.
LEMMA RingEnds ==
  ASSUME NEW ring, NEW calls \in BOOLEAN, RingFits(ring), RingInv(ring), G(ring, calls)!SampleEndsBurst
  PROVE  RingInv(ring)'
<1>1. /\ m_dataPtr = m_endPtr /\ m_maxCorr' = 0 /\ m_control' = FALSE /\ since' = 0 /\ fresh' = 0
      /\ m_dataPtr' = (m_dataPtr + 1) % ring
  BY Zenon DEF G!SampleEndsBurst, G!Advance, G!Wrap
<1>2. /\ m_endPtr' \in {m_endPtr, ring} /\ m_syncPtr' \in {m_syncPtr, 0}
      /\ InCall' => (m_control \/ InCall) /\ m_endPtr' = m_endPtr /\ m_syncPtr' = m_syncPtr
  <2>1. G(ring, calls)!BurstSays
    BY Zenon DEF G!SampleEndsBurst
  <2>2. CASE m_state' = "NONE" /\ G(ring, calls)!Forget
    BY <2>2, Zenon DEF G!Forget, G!NOENDPTR, InCall
  <2>3. CASE (m_control \/ m_state = "CALL") /\ UNCHANGED <<m_endPtr, m_syncPtr>>
    BY <2>3, Zenon DEF InCall
  <2>4. CASE m_state = "NONE" /\ UNCHANGED <<m_state, m_endPtr, m_syncPtr>>
    BY <2>4, Zenon DEF InCall
  <2>5. QED
    BY <2>1, <2>2, <2>3, <2>4, Zenon DEF G!BurstSays
<1>3. ring \in Nat /\ ring > 0
  <2>1. Cardinality(Strengths) \in Nat
    BY FS_CardinalityType DEF RingFits
  <2>2. QED
    BY <2>1 DEF RingFits
<1>4. RingTypes(ring) /\ RingSynced(ring) /\ RingUnsynced(ring)
  BY Zenon DEF RingInv
<1>5. m_dataPtr \in 0 .. ring - 1 /\ m_syncPtr \in 0 .. ring - 1 /\ m_endPtr \in 0 .. ring
  BY <1>4 DEF RingTypes
<1>6. RingTypes(ring)'
  <2>1. m_dataPtr' \in 0 .. ring - 1
    BY <1>1, <1>3, <1>5, RingWrap
  <2>2. m_syncPtr' \in 0 .. ring - 1 /\ m_endPtr' \in 0 .. ring
    BY <1>2, <1>3, <1>5
  <2>3. m_maxCorr' \in Strengths \cup {0} /\ m_control' \in BOOLEAN
    BY <1>1, Zenon
  <2>4. since' \in Nat /\ fresh' \in Nat
    BY <1>1
  <2>5. QED
    BY <2>1, <2>2, <2>3, <2>4, Zenon DEF RingTypes
<1>7. ASSUME m_control \/ InCall
      PROVE  m_endPtr = (m_syncPtr + BurstTail) % ring
  BY <1>4, <1>7 DEF RingSynced, RingUnsynced
<1>8. RingSynced(ring)' /\ RingUnsynced(ring)'
  <2>1. m_endPtr + 1 + 0 = m_endPtr + 1
    BY <1>5
  <2>2. QED
    BY <1>1, <1>2, <1>3, <1>7, <2>1 DEF RingSynced, RingUnsynced
<1>9. QED
  BY <1>6, <1>8, RingKinds, Zenon DEF RingInv, G!Next

LEMMA RingResets ==
  ASSUME NEW ring, NEW calls \in BOOLEAN, RingFits(ring), RingInv(ring), G(ring, calls)!Reset
  PROVE  RingInv(ring)'
<1>1. /\ m_maxCorr' = 0 /\ m_control' = FALSE /\ since' = 0 /\ fresh' = 0 /\ ~InCall'
      /\ m_endPtr' = ring /\ m_syncPtr' \in {m_syncPtr, 0} /\ m_dataPtr' \in {m_dataPtr, 0}
  BY Zenon DEF G!Reset, G!Forget, G!NOENDPTR, InCall
<1>2. ring \in Nat /\ ring > 0
  <2>1. Cardinality(Strengths) \in Nat
    BY FS_CardinalityType DEF RingFits
  <2>2. QED
    BY <2>1 DEF RingFits
<1>3. m_dataPtr \in 0 .. ring - 1 /\ m_syncPtr \in 0 .. ring - 1
  BY Zenon DEF RingInv, RingTypes
<1>4. RingTypes(ring)'
  <2>1. m_dataPtr' \in 0 .. ring - 1 /\ m_syncPtr' \in 0 .. ring - 1 /\ m_endPtr' \in 0 .. ring
    BY <1>1, <1>2, <1>3
  <2>2. m_maxCorr' \in Strengths \cup {0} /\ m_control' \in BOOLEAN
    BY <1>1, Zenon
  <2>3. since' \in Nat /\ fresh' \in Nat
    BY <1>1
  <2>4. QED
    BY <2>1, <2>2, <2>3, Zenon DEF RingTypes
<1>5. RingSynced(ring)' /\ RingUnsynced(ring)'
  BY <1>1 DEF RingSynced, RingUnsynced
<1>6. QED
  BY <1>4, <1>5, RingKinds, Zenon DEF RingInv, G!Next

\* When a burst is taken with a sync, its last sample is in; without one, the ring has gone
\* round once since the last.
LEMMA RingTaken ==
  ASSUME NEW ring, NEW calls, RingFits(ring), RingInv(ring), G(ring, calls)!SampleEndsBurst
  PROVE  /\ m_control => fresh = BurstTail - 1
         /\ ~m_control /\ InCall => since = ring - 1
<1>1. m_dataPtr = m_endPtr
  BY Zenon DEF G!SampleEndsBurst
<1>2. /\ ring \in Nat /\ ring > 0 /\ BurstTail \in Nat /\ BurstTail > 0 /\ BurstTail < ring
  <2>1. Cardinality(Strengths) \in Nat
    BY FS_CardinalityType DEF RingFits
  <2>2. QED
    BY <2>1 DEF RingFits
<1>3. RingTypes(ring) /\ RingSynced(ring) /\ RingUnsynced(ring)
  BY Zenon DEF RingInv
<1>4. /\ m_dataPtr \in 0 .. ring - 1 /\ m_syncPtr \in 0 .. ring - 1 /\ m_endPtr \in 0 .. ring
      /\ since \in Nat /\ fresh \in Nat
  BY <1>3 DEF RingTypes
<1>5. ASSUME m_control PROVE fresh = BurstTail - 1
  <2>1. m_endPtr = (m_syncPtr + BurstTail) % ring /\ fresh < BurstTail
        /\ m_dataPtr = (m_syncPtr + fresh + 1) % ring
    BY <1>3, <1>5 DEF RingSynced
  <2>2. PICK x \in Nat, y \in Nat : /\ x = m_syncPtr + BurstTail /\ y = m_syncPtr + fresh + 1
                                    /\ x < 2 * ring /\ y <= x /\ x < y + ring
    BY <1>2, <1>4, <2>1
  <2>3. x % ring = y % ring
    BY <1>1, <2>1, <2>2
  <2>4. (x < ring => x % ring = x) /\ (x >= ring => x % ring = x - ring)
    BY <1>2, <2>2, RingWrap
  <2>5. (y < ring => y % ring = y) /\ (y >= ring => y % ring = y - ring)
    BY <1>2, <2>2, RingWrap
  <2>6. x = y
    BY <1>2, <2>2, <2>3, <2>4, <2>5
  <2>7. QED
    BY <1>2, <1>4, <2>2, <2>6
<1>6. ASSUME ~m_control, InCall PROVE since = ring - 1
  <2>1. /\ m_endPtr = (m_syncPtr + BurstTail) % ring /\ since < ring
        /\ m_dataPtr = (m_endPtr + 1 + since) % ring
    BY <1>3, <1>6 DEF RingUnsynced
  <2>2. m_endPtr \in Nat /\ m_endPtr < ring
    BY <1>1, <1>2, <1>4
  <2>3. PICK x \in Nat : x = m_endPtr + 1 + since /\ x < 2 * ring
    BY <1>2, <1>4, <2>1, <2>2
  <2>4. (x < ring => x % ring = x) /\ (x >= ring => x % ring = x - ring)
    BY <1>2, <2>3, RingWrap
  <2>5. x % ring = m_endPtr
    BY <1>1, <2>1, <2>3
  <2>6. x = m_endPtr + ring
    BY <1>2, <1>4, <2>2, <2>3, <2>4, <2>5
  <2>7. QED
    BY <1>2, <1>4, <2>2, <2>3, <2>6
<1>7. QED
  BY <1>5, <1>6

\* A burst is no longer than its sync allows, a round no longer than the strengths allow.
LEMMA RingWithin ==
  ASSUME NEW ring, RingFits(ring), RingInv(ring)
  PROVE  /\ m_control => fresh < BurstTail
         /\ InCall => since < ring + Cardinality(Strengths)
<1>1. /\ ring \in Nat /\ BurstTail \in Nat /\ Cardinality(Strengths) \in Nat
  BY FS_CardinalityType DEF RingFits
<1>2. RingTypes(ring) /\ RingSynced(ring) /\ RingUnsynced(ring)
  BY Zenon DEF RingInv
<1>3. since \in Nat /\ fresh \in Nat /\ m_control \in BOOLEAN
  BY <1>2 DEF RingTypes
<1>4. Weaker(m_maxCorr) \in Nat /\ Weaker(m_maxCorr) <= Cardinality(Strengths)
  BY WeakerBound DEF RingFits
<1>5. m_control => fresh < BurstTail
  BY <1>2 DEF RingSynced
<1>6. ASSUME m_control, InCall PROVE since < ring + Cardinality(Strengths)
  <2>1. fresh < BurstTail /\ since <= fresh + ring - BurstTail + Weaker(m_maxCorr)
    BY <1>2, <1>6 DEF RingSynced
  <2>2. QED
    BY <1>1, <1>3, <1>4, <2>1
<1>7. ASSUME ~m_control, InCall PROVE since < ring + Cardinality(Strengths)
  <2>1. since < ring
    BY <1>2, <1>7 DEF RingUnsynced
  <2>2. QED
    BY <1>1, <1>3, <2>1
<1>8. QED
  BY <1>3, <1>5, <1>6, <1>7

LEMMA RingSteps ==
  ASSUME NEW ring, NEW calls \in BOOLEAN, RingFits(ring), RingInv(ring), G(ring, calls)!Next
  PROVE  RingInv(ring)' /\ G(ring, calls)!BurstTiles
<1>1. RingInv(ring)'
  <2>1. CASE G(ring, calls)!SampleInBurst
    BY <2>1, RingGoesOn
  <2>2. CASE G(ring, calls)!SampleEndsBurst
    BY <2>2, RingEnds
  <2>3. CASE G(ring, calls)!Reset
    BY <2>3, RingResets
  <2>4. QED
    BY <2>1, <2>2, <2>3, Zenon DEF G!Next
<1>2. /\ report' = "sync" => fresh = BurstTail - 1
      /\ report' = "late" => since = ring - 1
  <2>1. CASE G(ring, calls)!SampleInBurst
    <3>1. report' = ""
      BY <2>1, Zenon DEF G!SampleInBurst
    <3>2. QED
      BY <3>1, Zenon
  <2>2. CASE G(ring, calls)!SampleEndsBurst
    <3>1. /\ m_control => fresh = BurstTail - 1
          /\ ~m_control /\ InCall => since = ring - 1
      BY <2>2, RingTaken
    <3>2. report' = IF m_control THEN "sync" ELSE IF m_state = "CALL" THEN "late" ELSE ""
      BY <2>2, Zenon DEF G!SampleEndsBurst
    <3>3. (report' = "sync" => m_control) /\ (report' = "late" => ~m_control /\ InCall)
      BY <3>2, Zenon DEF InCall
    <3>4. QED
      BY <3>1, <3>3, Zenon
  <2>3. CASE G(ring, calls)!Reset
    <3>1. report' = ""
      BY <2>3, Zenon DEF G!Reset
    <3>2. QED
      BY <3>1, Zenon
  <2>4. QED
    BY <2>1, <2>2, <2>3, Zenon DEF G!Next
<1>3. /\ m_control => fresh < BurstTail
      /\ InCall => since < ring + Cardinality(Strengths)
  BY RingWithin
<1>4. G(ring, calls)!BurstTiles
  <2>1. m_state = "CALL" => since < ring + Cardinality(Strengths)
    BY <1>3, Zenon DEF InCall
  <2>2. QED
    BY <1>2, <1>3, <2>1, Zenon DEF G!BurstTiles, G!Cardinality, Cardinality, G!IsFiniteSet, IsFiniteSet
<1>5. QED
  BY <1>1, <1>4

LEMMA RingBegins ==
  ASSUME NEW ring, NEW calls, RingFits(ring), G(ring, calls)!Init
  PROVE  RingInv(ring)
<1>1. /\ m_state = "NONE" /\ m_dataPtr = 0 /\ m_syncPtr = 0 /\ m_endPtr = ring
      /\ m_maxCorr = 0 /\ m_control = FALSE /\ report = "" /\ since = 0 /\ fresh = 0
  BY Zenon DEF G!Init, G!NOENDPTR
<1>2. m_dataPtr = 0 /\ m_syncPtr = 0 /\ m_endPtr = ring /\ m_maxCorr = 0 /\ m_control = FALSE
      /\ since = 0 /\ fresh = 0 /\ ~InCall
  BY <1>1, Zenon DEF InCall
<1>3. ring \in Nat /\ ring > 0
  <2>1. Cardinality(Strengths) \in Nat
    BY FS_CardinalityType DEF RingFits
  <2>2. QED
    BY <2>1 DEF RingFits
<1>4. RingTypes(ring)
  <2>1. m_dataPtr \in 0 .. ring - 1 /\ m_syncPtr \in 0 .. ring - 1 /\ m_endPtr \in 0 .. ring
    BY <1>2, <1>3
  <2>2. m_maxCorr \in Strengths \cup {0} /\ m_control \in BOOLEAN
    BY <1>2, Zenon
  <2>3. since \in Nat /\ fresh \in Nat
    BY <1>2
  <2>4. QED
    BY <2>1, <2>2, <2>3, Zenon DEF RingTypes
<1>5. RingSynced(ring) /\ RingUnsynced(ring)
  BY <1>2 DEF RingSynced, RingUnsynced
<1>6. QED
  BY <1>1, <1>4, <1>5, Zenon DEF RingInv

\* The ring of direct mode is SlotRing long.
LEMMA DirectRingSame ==
  /\ S!Init <=> G(SlotRing, TRUE)!Init
  /\ S!Next <=> G(SlotRing, TRUE)!Next
  /\ S!BurstTiles <=> G(SlotRing, TRUE)!BurstTiles
<1>1. S!Init <=> G(SlotRing, TRUE)!Init
  BY DEF S!Init, G!Init, S!NOENDPTR, G!NOENDPTR
<1>2. S!Next <=> G(SlotRing, TRUE)!Next
  BY DEF S!Next, S!Reset, S!SampleInBurst, S!SampleEndsBurst, S!Advance, S!Wrap, S!Forget,
     S!BurstSays, S!Syncs, S!InWindow, S!Seen, S!Unseen, S!EndOfBurst, S!NOENDPTR,
     G!Next, G!Reset, G!SampleInBurst, G!SampleEndsBurst, G!Advance, G!Wrap, G!Forget,
     G!BurstSays, G!Syncs, G!InWindow, G!Seen, G!Unseen, G!EndOfBurst, G!NOENDPTR
<1>3. S!BurstTiles <=> G(SlotRing, TRUE)!BurstTiles
  BY DEF S!BurstTiles, G!BurstTiles, S!Cardinality, G!Cardinality, S!IsFiniteSet, G!IsFiniteSet
<1>4. QED
  BY <1>1, <1>2, <1>3

LEMMA DirectRingFits ==
  RingFits(SlotRing)
<1>1. /\ SlotRing \in Int /\ BurstTail \in Nat \ {0} /\ Strengths \subseteq Nat \ {0}
      /\ SlotRing \in Nat /\ IsFiniteSet(Strengths)
  BY ConstantsFit DEF S!DmrSyncAssumption, I!DmrSyncAssumption, S!IsFiniteSet, IsFiniteSet
<1>2. BurstTail + 2 * Cardinality(Strengths) + 2 < SlotRing
  BY ConstantsFit DEF S!DmrSyncAssumption, S!Cardinality, Cardinality, S!IsFiniteSet, IsFiniteSet
<1>3. QED
  BY <1>1, <1>2 DEF RingFits

LEMMA DirectRingSteps ==
  ASSUME RingInv(SlotRing), S!Next
  PROVE  RingInv(SlotRing)' /\ S!BurstTiles
<1>1. G(SlotRing, TRUE)!Next
  BY DirectRingSame
<1>2. RingInv(SlotRing)' /\ G(SlotRing, TRUE)!BurstTiles
  BY <1>1, DirectRingFits, RingSteps
<1>3. QED
  BY <1>2, DirectRingSame

LEMMA DirectRingBegins ==
  ASSUME S!Init
  PROVE  RingInv(SlotRing)
<1>1. G(SlotRing, TRUE)!Init
  BY DirectRingSame
<1>2. QED
  BY <1>1, DirectRingFits, RingBegins

LEMMA DirectRingTyped ==
  ASSUME RingInv(SlotRing)
  PROVE  S!TypeOK
<1>1. /\ m_dataPtr \in S!Index /\ m_syncPtr \in S!Index
      /\ m_endPtr \in S!Index \cup {S!NOENDPTR} /\ {since, fresh} \subseteq Nat
  <2>1. RingTypes(SlotRing) /\ SlotRing \in Nat
    BY DirectRingFits, Zenon DEF RingInv, RingFits
  <2>2. QED
    BY <2>1 DEF RingTypes, S!Index, S!NOENDPTR
<1>2. QED
  BY <1>1, Zenon DEF RingInv, RingTypes, S!TypeOK

\* That of the idle receiver is a sample shorter, and it has no calls.
LEMMA IdleRingSame ==
  /\ I!Init <=> G(SlotRing - 1, FALSE)!Init
  /\ I!Next <=> G(SlotRing - 1, FALSE)!Next
  /\ I!BurstTiles <=> G(SlotRing - 1, FALSE)!BurstTiles
<1>1. I!Init <=> G(SlotRing - 1, FALSE)!Init
  BY DEF I!Init, G!Init, I!NOENDPTR, G!NOENDPTR
<1>2. I!Next <=> G(SlotRing - 1, FALSE)!Next
  BY DEF I!Next, I!Reset, I!SampleInBurst, I!SampleEndsBurst, I!Advance, I!Wrap, I!Forget,
     I!BurstSays, I!Syncs, I!InWindow, I!Seen, I!Unseen, I!EndOfBurst, I!NOENDPTR,
     G!Next, G!Reset, G!SampleInBurst, G!SampleEndsBurst, G!Advance, G!Wrap, G!Forget,
     G!BurstSays, G!Syncs, G!InWindow, G!Seen, G!Unseen, G!EndOfBurst, G!NOENDPTR
<1>3. I!BurstTiles <=> G(SlotRing - 1, FALSE)!BurstTiles
  BY DEF I!BurstTiles, G!BurstTiles, I!Cardinality, G!Cardinality, I!IsFiniteSet, G!IsFiniteSet
<1>4. QED
  BY <1>1, <1>2, <1>3

LEMMA IdleRingFits ==
  RingFits(SlotRing - 1)
<1>1. /\ SlotRing \in Int /\ BurstTail \in Nat \ {0} /\ Strengths \subseteq Nat \ {0}
      /\ SlotRing - 1 \in Nat /\ IsFiniteSet(Strengths)
  BY ConstantsFit DEF S!DmrSyncAssumption, I!DmrSyncAssumption, S!IsFiniteSet, IsFiniteSet
<1>2. BurstTail + 2 * Cardinality(Strengths) + 2 < SlotRing - 1
  BY ConstantsFit DEF I!DmrSyncAssumption, I!Cardinality, Cardinality, I!IsFiniteSet, IsFiniteSet
<1>3. QED
  BY <1>1, <1>2 DEF RingFits

LEMMA IdleRingSteps ==
  ASSUME RingInv(SlotRing - 1), I!Next
  PROVE  RingInv(SlotRing - 1)' /\ I!BurstTiles
<1>1. G(SlotRing - 1, FALSE)!Next
  BY IdleRingSame
<1>2. RingInv(SlotRing - 1)' /\ G(SlotRing - 1, FALSE)!BurstTiles
  BY <1>1, IdleRingFits, RingSteps
<1>3. QED
  BY <1>2, IdleRingSame

LEMMA IdleRingBegins ==
  ASSUME I!Init
  PROVE  RingInv(SlotRing - 1)
<1>1. G(SlotRing - 1, FALSE)!Init
  BY IdleRingSame
<1>2. QED
  BY <1>1, IdleRingFits, RingBegins

LEMMA IdleRingTyped ==
  ASSUME RingInv(SlotRing - 1)
  PROVE  I!TypeOK
<1>1. /\ m_dataPtr \in I!Index /\ m_syncPtr \in I!Index
      /\ m_endPtr \in I!Index \cup {I!NOENDPTR} /\ {since, fresh} \subseteq Nat
  <2>1. RingTypes(SlotRing - 1) /\ SlotRing - 1 \in Nat
    BY IdleRingFits, Zenon DEF RingInv, RingFits
  <2>2. QED
    BY <2>1 DEF RingTypes, I!Index, I!NOENDPTR
<1>2. QED
  BY <1>1, Zenon DEF RingInv, RingTypes, I!TypeOK

-----------------------------------------------------------------------------
(***************************************************************************)
(* RxBudget, of a modem that is alone: what waits is what came since its   *)
(* last turn, and less than a block besides.                               *)
(***************************************************************************)
BudgetTypes(m) ==
  /\ waiting \in [Modem -> Nat] /\ late \in [Modem -> Nat]
  /\ m_lockout \in [Modem -> BOOLEAN] /\ refused \in [Modem -> BOOLEAN]
  /\ waiting[m] <= RingSize /\ late[m] <= MaxLate
  /\ rxSampleBudget \in Nat /\ elapsed \in Nat /\ begun \in BOOLEAN

BudgetInv(m) ==
  /\ BudgetTypes(m)
  /\ ~m_lockout[m] => /\ ~refused[m]
                      /\ waiting[m] <= rxSampleBudget + elapsed * Rate
                      /\ waiting[m] <= Block - 1 + late[m] * Rate

LEMMA BudgetConstants ==
  /\ Rate \in Nat /\ Rate > 0 /\ Block \in Nat /\ Block > 0 /\ MaxLate \in Nat
  /\ RingSize \in Nat /\ MaxBudget \in Nat /\ MaxElapsed \in Nat /\ MaxBlocks \in Nat
  /\ RingSize + Rate <= MaxBudget /\ MaxBlocks * Block >= MaxBudget /\ Rate * MaxElapsed >= MaxBudget
  /\ Rate * MaxLate + Block <= RingSize
  BY ConstantsFit DEF B!RxBudgetAssumption

LEMMA LeastOfTwo ==
  ASSUME NEW a \in Int, NEW b \in Int
  PROVE  /\ B!Least(a, b) \in {a, b} /\ B!Least(a, b) <= a /\ B!Least(a, b) <= b
         /\ a <= b => B!Least(a, b) = a
         /\ b <= a => B!Least(a, b) = b
  BY DEF B!Least

\* Whole blocks of x samples.
LEMMA WholeBlocks ==
  ASSUME NEW x \in Nat, NEW b \in Nat, b > 0
  PROVE  /\ x \div b \in Nat /\ (x \div b) * b <= x /\ x - (x \div b) * b < b
         /\ \A k \in Nat : k <= x \div b => k * b <= x
         /\ \A k \in Nat : x <= k * b => x \div b <= k
<1>1. b \in Nat \ {0} /\ x \div b \in Nat /\ x % b \in 0 .. b - 1 /\ x = b * (x \div b) + (x % b)
  <2>1. b \in Nat \ {0}
    OBVIOUS
  <2>2. x \div b \in Int /\ x = b * (x \div b) + (x % b)
    BY <2>1
  <2>3. x % b \in 0 .. b - 1
    BY <2>1
  <2>4. x \div b >= 0
    BY <2>1
  <2>5. QED
    BY <2>1, <2>2, <2>3, <2>4
<1>2. PICK q \in Nat, r \in 0 .. b - 1 : q = x \div b /\ x = b * q + r
  BY <1>1
<1>3. b * q = q * b
  OBVIOUS
<1>4. q * b <= x /\ x - q * b < b
  BY <1>2, <1>3
<1>5. ASSUME NEW k \in Nat, k <= q PROVE k * b <= x
  <2>1. k * b <= q * b
    BY <1>5
  <2>2. QED
    BY <1>4, <2>1
<1>6. ASSUME NEW k \in Nat, x <= k * b PROVE q <= k
  <2>1. ASSUME q >= k + 1 PROVE FALSE
    <3>1. q * b >= (k + 1) * b
      BY <2>1
    <3>2. (k + 1) * b = k * b + b
      OBVIOUS
    <3>3. QED
      BY <1>4, <1>6, <3>1, <3>2
  <2>2. QED
    BY <2>1
<1>7. QED
  BY <1>2, <1>4, <1>5, <1>6

\* A millisecond: the pause is not over, so what it brings has room, and credit with it.
LEMMA BudgetTick ==
  ASSUME NEW m, Modem = {m}, BudgetInv(m), B!Tick
  PROVE  BudgetInv(m)'
<1>1. /\ late[m] < MaxLate /\ late' = [x \in Modem |-> late[x] + 1]
      /\ elapsed' = B!Least(elapsed + 1, MaxElapsed)
      /\ waiting' = [x \in Modem |-> B!Least(waiting[x] + Rate, RingSize)]
      /\ rxSampleBudget' = rxSampleBudget
  BY DEF B!Tick
<1>2. /\ refused' = [x \in Modem |-> refused[x] \/ waiting[x] + Rate > RingSize]
      /\ m_lockout' = m_lockout /\ begun' = begun
  BY DEF B!Tick
<1>3. /\ Rate \in Nat /\ Rate > 0 /\ Block \in Nat /\ Block > 0 /\ MaxLate \in Nat
      /\ RingSize \in Nat /\ MaxBudget \in Nat /\ MaxElapsed \in Nat
      /\ RingSize + Rate <= MaxBudget /\ Rate * MaxElapsed >= MaxBudget
      /\ Rate * MaxLate + Block <= RingSize
  BY BudgetConstants
<1>4. BudgetTypes(m)
  BY DEF BudgetInv
<1>5. PICK w \in Nat, l \in Nat, e \in Nat, b \in Nat :
        /\ w = waiting[m] /\ l = late[m] /\ e = elapsed /\ b = rxSampleBudget
        /\ w <= RingSize /\ l < MaxLate
  BY <1>1, <1>4 DEF BudgetTypes
<1>6. PICK w2 \in Nat : /\ w2 = B!Least(w + Rate, RingSize) /\ w2 <= RingSize
                        /\ w + Rate <= RingSize => w2 = w + Rate
                        /\ w2 <= w + Rate
  <2>1. PICK more \in Nat : more = w + Rate
    BY <1>3
  <2>2. /\ B!Least(more, RingSize) \in {more, RingSize} /\ B!Least(more, RingSize) <= RingSize
        /\ B!Least(more, RingSize) <= more
        /\ more <= RingSize => B!Least(more, RingSize) = more
    BY <1>3, <2>1, LeastOfTwo
  <2>3. B!Least(more, RingSize) \in Nat
    BY <1>3, <2>2
  <2>4. QED
    BY <2>1, <2>2, <2>3
<1>7. PICK e2 \in Nat : /\ e2 = B!Least(e + 1, MaxElapsed) /\ (e2 = e + 1 \/ e2 = MaxElapsed)
  BY <1>3, LeastOfTwo
<1>8. waiting'[m] = w2 /\ late'[m] = l + 1 /\ elapsed' = e2 /\ rxSampleBudget' = b
  BY <1>1, <1>5, <1>6, <1>7
<1>9. BudgetTypes(m)'
  <2>1. waiting' \in [Modem -> Nat] /\ late' \in [Modem -> Nat]
    <3>1. waiting' = [x \in Modem |-> w2] /\ late' = [x \in Modem |-> l + 1]
      BY <1>1, <1>5, <1>6
    <3>2. QED
      BY <1>5, <1>6, <3>1
  <2>2. m_lockout' \in [Modem -> BOOLEAN] /\ begun' \in BOOLEAN
    BY <1>2, <1>4 DEF BudgetTypes
  <2>3. refused' \in [Modem -> BOOLEAN]
    BY <1>2, Zenon
  <2>4. waiting'[m] <= RingSize /\ late'[m] <= MaxLate /\ rxSampleBudget' \in Nat /\ elapsed' \in Nat
    BY <1>3, <1>5, <1>6, <1>7, <1>8
  <2>5. QED
    BY <2>1, <2>2, <2>3, <2>4, Zenon DEF BudgetTypes
<1>10. ASSUME ~m_lockout[m]
       PROVE  ~refused'[m] /\ w2 <= b + e2 * Rate /\ w2 <= Block - 1 + (l + 1) * Rate
  <2>1. ~refused[m] /\ w <= b + e * Rate /\ w <= Block - 1 + l * Rate
    BY <1>5, <1>10 DEF BudgetInv
  <2>2. (l + 1) * Rate = l * Rate + Rate /\ (e + 1) * Rate = e * Rate + Rate
    BY <1>3
  <2>3. (l + 1) * Rate <= MaxLate * Rate /\ MaxLate * Rate = Rate * MaxLate
    <3>1. l + 1 <= MaxLate
      BY <1>3, <1>5
    <3>2. QED
      BY <1>3, <3>1
  <2>4. PICK p \in Nat, q \in Nat, lim \in Nat : p = l * Rate /\ q = e * Rate /\ lim = Rate * MaxLate
    BY <1>3
  <2>5. w + Rate <= RingSize
    BY <1>3, <2>1, <2>2, <2>3, <2>4
  <2>6. ~refused'[m]
    <3>1. refused'[m] <=> refused[m] \/ w + Rate > RingSize
      BY <1>2, <1>5
    <3>2. ~(w + Rate > RingSize)
      BY <1>3, <2>5
    <3>3. QED
      BY <2>1, <3>1, <3>2, Zenon
  <2>7. w2 <= Block - 1 + (l + 1) * Rate
    BY <1>3, <1>6, <2>1, <2>2, <2>4
  <2>8. w2 <= b + e2 * Rate
    <3>1. CASE e2 = e + 1
      BY <1>3, <1>6, <2>1, <2>2, <2>4, <3>1
    <3>2. CASE e2 = MaxElapsed
      <4>1. e2 * Rate = Rate * MaxElapsed
        BY <1>3, <3>2
      <4>2. PICK top \in Nat : top = Rate * MaxElapsed
        BY <1>3
      <4>3. QED
        BY <1>3, <1>6, <4>1, <4>2
    <3>3. QED
      BY <1>7, <3>1, <3>2
  <2>9. QED
    BY <2>6, <2>7, <2>8
<1>11. m_lockout'[m] = m_lockout[m]
  BY <1>2
<1>12. QED
  BY <1>8, <1>9, <1>10, <1>11, Zenon DEF BudgetInv

\* A turn of the clock: the budget is all that waits, unless the first block locks the
\* modem out.
LEMMA BudgetProcess ==
  ASSUME NEW m, Modem = {m}, BudgetInv(m), B!Process(m)
  PROVE  BudgetInv(m)'
<1>1. PICK locked \in B!Lockout(m) :
        /\ rxSampleBudget' = B!Credit - B!Blocks(m, locked, B!Credit) * Block
        /\ waiting' = [waiting EXCEPT ![m] = @ - B!Blocks(m, locked, B!Credit) * Block]
        /\ m_lockout' = [m_lockout EXCEPT ![m] = locked]
  BY DEF B!Process
<1>2. elapsed' = 0 /\ begun' = TRUE /\ late' = [late EXCEPT ![m] = 0] /\ refused' = refused
  BY DEF B!Process
<1>3. /\ Rate \in Nat /\ Rate > 0 /\ Block \in Nat /\ Block > 0 /\ MaxLate \in Nat
      /\ RingSize \in Nat /\ MaxBudget \in Nat /\ MaxBlocks \in Nat
      /\ RingSize + Rate <= MaxBudget /\ MaxBlocks * Block >= MaxBudget
  BY BudgetConstants
<1>4. BudgetTypes(m)
  BY DEF BudgetInv
<1>5. PICK w \in Nat, e \in Nat, b \in Nat :
        /\ w = waiting[m] /\ e = elapsed /\ b = rxSampleBudget /\ w <= RingSize
  BY <1>4 DEF BudgetTypes
<1>6. PICK credit \in Nat : /\ credit = B!Credit
                            /\ w <= b + e * Rate => w <= credit
  <2>1. b + e * Rate \in Nat
    BY <1>3
  <2>2. PICK all \in Nat : all = b + e * Rate
    BY <2>1
  <2>3. B!Credit = B!Least(all, MaxBudget)
    BY <1>5, <2>2 DEF B!Credit
  <2>4. /\ B!Least(all, MaxBudget) \in {all, MaxBudget}
        /\ w <= all => w <= B!Least(all, MaxBudget)
    BY <1>3, <1>5, <2>2, LeastOfTwo
  <2>5. QED
    BY <1>3, <2>2, <2>3, <2>4
<1>7. PICK x \in Nat : x = B!Least(credit, w) /\ x <= credit /\ x <= w /\ (w <= credit => x = w)
  BY <1>5, <1>6, LeastOfTwo
<1>8. /\ x \div Block \in Nat /\ (x \div Block) * Block <= x /\ x - (x \div Block) * Block < Block
      /\ \A k \in Nat : k <= x \div Block => k * Block <= x
      /\ \A k \in Nat : x <= k * Block => x \div Block <= k
  BY <1>3, WholeBlocks
<1>9. PICK d \in Nat : d = x \div Block
  BY <1>8
<1>10. PICK most \in Nat : most = B!Least(MaxBlocks, d) /\ most <= d /\ (d <= MaxBlocks => most = d)
  BY <1>3, <1>9, LeastOfTwo
<1>11. PICK n \in Nat : n = B!Blocks(m, locked, B!Credit) /\ n <= d /\ (~locked => n = most)
  <2>1. B!Blocks(m, locked, B!Credit) = IF locked THEN B!Least(most, 1) ELSE most
    BY <1>5, <1>6, <1>7, <1>9, <1>10 DEF B!Blocks
  <2>2. B!Least(most, 1) \in Nat /\ B!Least(most, 1) <= most
    BY <1>10, LeastOfTwo
  <2>3. CASE locked
    BY <1>9, <1>10, <2>1, <2>2, <2>3
  <2>4. CASE ~locked
    BY <1>9, <1>10, <2>1, <2>4
  <2>5. QED
    BY <2>3, <2>4
<1>12. PICK drained \in Nat : drained = n * Block /\ drained <= x
  <2>1. n * Block \in Nat
    BY <1>3
  <2>2. QED
    BY <1>8, <1>9, <1>11, <2>1
<1>13. /\ rxSampleBudget' = credit - drained /\ waiting'[m] = w - drained
       /\ waiting' = [waiting EXCEPT ![m] = w - drained] /\ late'[m] = 0
  BY <1>1, <1>2, <1>4, <1>5, <1>6, <1>11, <1>12 DEF BudgetTypes
<1>14. w - drained \in Nat /\ credit - drained \in Nat /\ w - drained <= RingSize
  BY <1>3, <1>5, <1>7, <1>12
<1>15. BudgetTypes(m)'
  <2>1. waiting' \in [Modem -> Nat] /\ late' \in [Modem -> Nat]
    BY <1>2, <1>4, <1>13, <1>14 DEF BudgetTypes
  <2>2. m_lockout' \in [Modem -> BOOLEAN] /\ refused' \in [Modem -> BOOLEAN] /\ begun' \in BOOLEAN
    <3>1. locked \in BOOLEAN
      BY <1>4 DEF B!Lockout, BudgetTypes
    <3>2. QED
      BY <1>1, <1>2, <1>4, <3>1 DEF BudgetTypes
  <2>3. waiting'[m] <= RingSize /\ late'[m] <= MaxLate /\ rxSampleBudget' \in Nat /\ elapsed' \in Nat
    BY <1>2, <1>3, <1>13, <1>14
  <2>4. QED
    BY <2>1, <2>2, <2>3, Zenon DEF BudgetTypes
<1>16. m_lockout'[m] = locked /\ (~locked => ~m_lockout[m])
  <2>1. m_lockout'[m] = locked
    BY <1>1, <1>4 DEF BudgetTypes
  <2>2. locked \in {m_lockout[m], TRUE}
    BY DEF B!Lockout
  <2>3. QED
    BY <2>1, <2>2
<1>17. ASSUME ~locked
       PROVE  ~refused'[m] /\ w - drained <= (credit - drained) + 0 * Rate /\ w - drained <= Block - 1 + 0 * Rate
  <2>1. ~refused[m] /\ w <= b + e * Rate
    BY <1>5, <1>16, <1>17 DEF BudgetInv
  <2>2. w <= credit /\ x = w
    BY <1>6, <1>7, <2>1
  <2>3. w <= MaxBlocks * Block
    <3>1. MaxBlocks * Block \in Nat
      BY <1>3
    <3>2. QED
      BY <1>3, <1>5, <3>1
  <2>4. n = d
    BY <1>3, <1>8, <1>9, <1>10, <1>11, <1>17, <2>2, <2>3
  <2>5. w - drained < Block
    BY <1>8, <1>9, <1>12, <2>2, <2>4
  <2>6. 0 * Rate = 0
    BY <1>3
  <2>7. QED
    BY <1>2, <1>3, <1>12, <2>1, <2>2, <2>5, <2>6
<1>18. QED
  BY <1>2, <1>13, <1>15, <1>16, <1>17 DEF BudgetInv

LEMMA BudgetSteps ==
  ASSUME NEW m, Modem = {m}, BudgetInv(m), B!Next
  PROVE  BudgetInv(m)'
<1>1. CASE B!Tick
  BY <1>1, BudgetTick
<1>2. ASSUME NEW x \in Modem, B!Process(x) PROVE BudgetInv(m)'
  <2>1. x = m
    OBVIOUS
  <2>2. B!Process(m)
    BY <1>2, <2>1
  <2>3. QED
    BY <2>2, BudgetProcess
<1>3. QED
  BY <1>1, <1>2 DEF B!Next

LEMMA BudgetBegins ==
  ASSUME NEW m, Modem = {m}, B!Init
  PROVE  BudgetInv(m)
<1>1. /\ waiting = [x \in Modem |-> 0] /\ late = [x \in Modem |-> 0]
      /\ m_lockout = [x \in Modem |-> FALSE] /\ refused = [x \in Modem |-> FALSE]
      /\ rxSampleBudget = 0 /\ elapsed = 0 /\ begun = FALSE
  BY DEF B!Init
<1>2. 0 * Rate = 0 /\ 0 <= RingSize /\ 0 <= MaxLate /\ 0 <= Block - 1
  BY BudgetConstants
<1>3. waiting \in [Modem -> Nat] /\ late \in [Modem -> Nat] /\ waiting[m] = 0 /\ late[m] = 0
  BY <1>1
<1>4. m_lockout \in [Modem -> BOOLEAN] /\ refused \in [Modem -> BOOLEAN] /\ begun \in BOOLEAN /\ ~refused[m]
  BY <1>1, Zenon
<1>5. BudgetTypes(m)
  BY <1>1, <1>2, <1>3, <1>4 DEF BudgetTypes
<1>6. waiting[m] <= rxSampleBudget + elapsed * Rate /\ waiting[m] <= Block - 1 + late[m] * Rate
  BY <1>1, <1>2, <1>3, BudgetConstants
<1>7. QED
  BY <1>4, <1>5, <1>6 DEF BudgetInv

LEMMA BudgetKept ==
  ASSUME NEW m, Modem = {m}, BudgetInv(m)
  PROVE  B!KeepsUp
  BY DEF BudgetInv, B!KeepsUp

-----------------------------------------------------------------------------
(***************************************************************************)
(* RxChannel.  What RxChannel_proofs proves is of the channel here.        *)
(***************************************************************************)
LEMMA ChannelSame ==
  /\ C!Init <=> CP!Init
  /\ C!Next <=> CP!Next
  /\ C!TypeOK <=> CP!TypeOK
  /\ C!BlockTogether <=> CP!BlockTogether
  /\ C!MarksInTime <=> CP!MarksInTime
<1>1. C!Init <=> CP!Init
  BY DEF C!Init, CP!Init, C!None, CP!None
<1>2. C!Next <=> CP!Next
  BY DEF C!Next, C!SetChannelParams, C!Radio, C!Dequeue, C!Ignore, C!Enqueue, C!Pop, C!PutSample,
     C!PutRssi, C!Drain, C!Newest, C!Due, C!Aligned, C!Trim, C!MarksFor, C!Ascending, C!RssiPut,
     C!None, C!queues, C!rings,
     CP!Next, CP!SetChannelParams, CP!Radio, CP!Dequeue, CP!Ignore, CP!Enqueue, CP!Pop, CP!PutSample,
     CP!PutRssi, CP!Drain, CP!Newest, CP!Due, CP!Aligned, CP!Trim, CP!MarksFor, CP!Ascending, CP!RssiPut,
     CP!None, CP!queues, CP!rings
<1>3. C!TypeOK <=> CP!TypeOK
  BY DEF C!TypeOK, CP!TypeOK, C!Samples, CP!Samples, C!Marks, CP!Marks, C!Range, CP!Range, C!Max, CP!Max
<1>4. C!BlockTogether <=> CP!BlockTogether
  BY DEF C!BlockTogether, CP!BlockTogether
<1>5. C!MarksInTime <=> CP!MarksInTime
  BY DEF C!MarksInTime, CP!MarksInTime, C!None, CP!None
<1>6. QED
  BY <1>1, <1>2, <1>3, <1>4, <1>5

LEMMA ChannelAssumed ==
  CP!RxChannelAssumption
BY ConstantsFit DEF C!RxChannelAssumption, CP!RxChannelAssumption, C!IsFiniteSet, CP!IsFiniteSet

LEMMA ChannelSteps ==
  ASSUME CP!ChannelInv, C!Next
  PROVE  CP!ChannelInv' /\ C!BlockTogether
<1>1. CP!Next
  BY ChannelSame
<1>2. CP!ChannelInv' /\ CP!BlockTogether
  BY <1>1, ChannelAssumed, CP!ChannelSteps
<1>3. QED
  BY <1>2, ChannelSame

LEMMA ChannelBegins ==
  ASSUME C!Init
  PROVE  CP!ChannelInv
<1>1. CP!Init
  BY ChannelSame
<1>2. QED
  BY <1>1, ChannelAssumed, CP!ChannelBegins

LEMMA ChannelStays ==
  ASSUME CP!ChannelInv, UNCHANGED channelVars
  PROVE  CP!ChannelInv'
<1>1. UNCHANGED CP!vars
  BY Zenon DEF channelVars, CP!vars, CP!queues, CP!rings
<1>2. QED
  BY <1>1, CP!ChannelStays

LEMMA ChannelKept ==
  ASSUME CP!ChannelInv
  PROVE  C!TypeOK /\ C!MarksInTime
<1>1. CP!TypeOK /\ CP!MarksInTime
  BY ChannelAssumed, CP!ChannelTyped, CP!ChannelMarked
<1>2. QED
  BY <1>1, ChannelSame

-----------------------------------------------------------------------------
(* What a step of another part leaves alone *)

LEMMA ReceiverStays ==
  ASSUME UNCHANGED receiverVars
  PROVE  /\ NInv => NInv'
         /\ PInv => PInv'
         /\ DmrInv({1, 2}) => DmrInv({1, 2})'
         /\ DmrInv({2}) => DmrInv({2})'
         /\ \A ring : RingInv(ring) => RingInv(ring)'
<1>1. /\ m_state' = m_state /\ m_dataPtr' = m_dataPtr /\ m_endPtr' = m_endPtr
      /\ m_pduEndPtr' = m_pduEndPtr /\ m_fswPtr' = m_fswPtr /\ m_syncPtr' = m_syncPtr
      /\ m_minFSWPtr' = m_minFSWPtr /\ m_maxFSWPtr' = m_maxFSWPtr /\ m_minSyncPtr' = m_minSyncPtr
      /\ m_maxSyncPtr' = m_maxSyncPtr /\ m_maxCorr' = m_maxCorr /\ m_lostCount' = m_lostCount
      /\ m_countdown' = m_countdown /\ m_lduSyncPos' = m_lduSyncPos /\ m_control' = m_control
      /\ m_dcd' = m_dcd /\ report' = report /\ since' = since /\ fresh' = fresh
      /\ unsynced' = unsynced /\ seen' = seen /\ carried' = carried
  BY Zenon DEF receiverVars
<1>2. /\ m_syncCount' = m_syncCount /\ m_n' = m_n /\ m_type' = m_type
      /\ noise' = noise /\ foreign' = foreign
  BY Zenon DEF receiverVars
<1>3. ASSUME NInv PROVE NInv'
  <2>1. N!TypeOK'
    BY <1>1, <1>3, Zenon DEF NInv, N!TypeOK
  <2>2. N!CarrierIsLock' /\ N!FlagsAreTrue'
    BY <1>1, <1>3, Zenon DEF NInv, N!CarrierIsLock, N!FlagsAreTrue
  <2>3. NSearch'
    BY <1>1, <1>3, Zenon DEF NInv, NSearch
  <2>4. NCounts'
    BY <1>1, <1>3, Zenon DEF NInv, NCounts
  <2>5. NLocked'
    BY <1>1, <1>3, Zenon DEF NInv, NLocked, NSyncAt
  <2>6. QED
    BY <2>1, <2>2, <2>3, <2>4, <2>5, Zenon DEF NInv
<1>4. ASSUME PInv PROVE PInv'
  <2>1. P!TypeOK'
    BY <1>1, <1>4, Zenon DEF PInv, P!TypeOK
  <2>2. PPointers => PPointers'
    BY <1>1, Zenon DEF PPointers, PAt
  <2>3. PSearch'
    BY <1>1, <1>4, <2>2, Zenon DEF PInv, PSearch
  <2>4. PWait'
    BY <1>1, <1>4, <2>2, Zenon DEF PInv, PWait
  <2>5. PVoice' /\ PData'
    BY <1>1, <1>4, <2>2, Zenon DEF PInv, PVoice, PData
  <2>6. QED
    BY <2>1, <2>3, <2>4, <2>5, Zenon DEF PInv
<1>5. UNCHANGED M({1, 2})!vars /\ UNCHANGED M({2})!vars
  BY <1>1, <1>2, Zenon DEF M!vars
<1>6. DmrInv({1, 2}) => DmrInv({1, 2})'
  BY <1>5, DmrStays
<1>7. DmrInv({2}) => DmrInv({2})'
  BY <1>5, DmrStays
<1>8. ASSUME NEW ring, RingInv(ring) PROVE RingInv(ring)'
  <2>1. RingTypes(ring)'
    BY <1>1, <1>8, Zenon DEF RingInv, RingTypes
  <2>2. RingSynced(ring)'
    BY <1>1, <1>8, Zenon DEF RingInv, RingSynced, InCall
  <2>3. RingUnsynced(ring)'
    BY <1>1, <1>8, Zenon DEF RingInv, RingUnsynced, InCall
  <2>4. QED
    BY <1>1, <1>8, <2>1, <2>2, <2>3, Zenon DEF RingInv
<1>9. QED
  BY <1>3, <1>4, <1>6, <1>7, <1>8, Zenon

LEMMA TuningStays ==
  ASSUME TInv, UNCHANGED tuningVars
  PROVE  TInv'
<1>1. UNCHANGED <<rxDevice, txDevice, channelRx, channelTx, hostOffset, afcOffset, afcRange,
                  request, source, sink, rxXlate, txRotator, applied, asked, updates>>
  BY DEF tuningVars
<1>2. TuningTypes'
  BY <1>1, Zenon DEF TInv, TuningTypes
<1>3. T!TypeOK'
  BY <1>1, Zenon DEF TInv, T!TypeOK
<1>4. T!TunedTogether'
  BY <1>1, Zenon DEF TInv, T!TunedTogether, T!HasSink
<1>5. QED
  BY <1>2, <1>3, <1>4, Zenon DEF TInv

LEMMA BudgetStays ==
  ASSUME NEW m, BudgetInv(m), UNCHANGED budgetVars
  PROVE  BudgetInv(m)'
<1>1. /\ waiting' = waiting /\ late' = late /\ m_lockout' = m_lockout /\ rxSampleBudget' = rxSampleBudget
      /\ elapsed' = elapsed /\ begun' = begun /\ refused' = refused
  BY Zenon DEF budgetVars
<1>2. BudgetTypes(m)'
  BY <1>1, Zenon DEF BudgetInv, BudgetTypes
<1>3. QED
  BY <1>1, <1>2, Zenon DEF BudgetInv

-----------------------------------------------------------------------------
(* Whatever part a behaviour is of *)

\* What is known of the receiver of a behaviour.
ReceiverInv ==
  /\ part = "NXDN" => NInv
  /\ part = "P25" => PInv
  /\ part = "DMR" => DmrInv({1, 2})
  /\ part = "DMO" => DmrInv({2})
  /\ part = "DMO ring" => RingInv(SlotRing)
  /\ part = "idle ring" => RingInv(SlotRing - 1)

PathInv == ReceiverInv /\ CP!ChannelInv /\ TInv

\* What a step of a receiver may report.
Reported ==
  /\ part = "NXDN" => N!FrameTiles
  /\ part = "P25" => P!LduTiles
  /\ part = "DMR" => R!CallBegins /\ R!VoiceInPlace'
  /\ part = "DMO" => D!CallBegins /\ D!VoiceInPlace'
  /\ part = "DMO ring" => S!BurstTiles
  /\ part = "idle ring" => I!BurstTiles

LEMMA PathBegins == Init => PathInv
<1> SUFFICES ASSUME Init PROVE PathInv
  OBVIOUS
<1>1. CP!ChannelInv /\ TInv
  BY ChannelBegins, TuningBegins, Zenon DEF Init
<1>2. \/ part \in {"NXDN", "channel", "budget", "tuning", "rssi", "link", "replies"} /\ N!Init
      \/ part = "P25" /\ P!Init
      \/ part = "DMR" /\ R!Init
      \/ part = "DMO" /\ D!Init
      \/ part = "DMO ring" /\ S!Init
      \/ part = "idle ring" /\ I!Init
  BY Zenon DEF Init
<1>3. ReceiverInv
  <2>1. CASE part \in {"NXDN", "channel", "budget", "tuning", "rssi", "link", "replies"} /\ N!Init
    BY <2>1, NxdnBegins, Zenon DEF ReceiverInv
  <2>2. CASE part = "P25" /\ P!Init
    BY <2>2, P25Begins, Zenon DEF ReceiverInv
  <2>3. CASE part = "DMR" /\ R!Init
    BY <2>3, RepeaterBegins, Zenon DEF ReceiverInv
  <2>4. CASE part = "DMO" /\ D!Init
    BY <2>4, DirectBegins, Zenon DEF ReceiverInv
  <2>5. CASE part = "DMO ring" /\ S!Init
    BY <2>5, DirectRingBegins, Zenon DEF ReceiverInv
  <2>6. CASE part = "idle ring" /\ I!Init
    BY <2>6, IdleRingBegins, Zenon DEF ReceiverInv
  <2>7. QED
    BY <1>2, <2>1, <2>2, <2>3, <2>4, <2>5, <2>6, Zenon
<1>4. QED
  BY <1>1, <1>3, Zenon DEF PathInv

LEMMA RepeaterKeptNext ==
  (DmrInv({1, 2}) => R!TypeOK /\ R!CarrierIsCall /\ R!NoiseIsBounded /\ R!VoiceInPlace)'
BY RepeaterKept, PTL

LEMMA DirectKeptNext ==
  (DmrInv({2}) => D!TypeOK /\ D!CarrierIsCall /\ D!NoiseIsBounded /\ D!VoiceInPlace)'
BY DirectKept, PTL

\* A step of a receiver.
LEMMA ReceiverSteps ==
  ASSUME ReceiverInv,
         NextNxdn \/ NextP25 \/ NextDmr \/ NextDmo \/ NextSync \/ NextIdle
  PROVE  /\ ReceiverInv' /\ Reported
         /\ UNCHANGED channelVars /\ UNCHANGED tuningVars /\ UNCHANGED budgetVars /\ part # "channel"
<1>1. CASE NextNxdn
  <2>1. part = "NXDN" /\ part' = part /\ N!Next
    BY <1>1, Zenon DEF NextNxdn
  <2>2. NInv' /\ N!FrameTiles
    BY <2>1, NxdnSteps, Zenon DEF ReceiverInv
  <2>3. UNCHANGED channelVars /\ UNCHANGED tuningVars /\ UNCHANGED budgetVars
    BY <1>1, Zenon DEF NextNxdn
  <2>4. QED
    BY <2>1, <2>2, <2>3, Zenon DEF ReceiverInv, Reported
<1>2. CASE NextP25
  <2>1. part = "P25" /\ part' = part /\ P!Next
    BY <1>2, Zenon DEF NextP25
  <2>2. PInv' /\ P!LduTiles
    BY <2>1, P25Steps, Zenon DEF ReceiverInv
  <2>3. UNCHANGED channelVars /\ UNCHANGED tuningVars /\ UNCHANGED budgetVars
    BY <1>2, Zenon DEF NextP25
  <2>4. QED
    BY <2>1, <2>2, <2>3, Zenon DEF ReceiverInv, Reported
<1>3. CASE NextDmr
  <2>1. part = "DMR" /\ part' = part /\ R!Next
    BY <1>3, Zenon DEF NextDmr
  <2>2. DmrInv({1, 2})' /\ R!CallBegins
    BY <2>1, RepeaterSteps, Zenon DEF ReceiverInv
  <2>3. UNCHANGED channelVars /\ UNCHANGED tuningVars /\ UNCHANGED budgetVars
    BY <1>3, Zenon DEF NextDmr
  <2>4. R!VoiceInPlace'
    BY <2>2, RepeaterKeptNext, Zenon
  <2>5. QED
    BY <2>1, <2>2, <2>3, <2>4, Zenon DEF ReceiverInv, Reported
<1>4. CASE NextDmo
  <2>1. part = "DMO" /\ part' = part /\ D!Next
    BY <1>4, Zenon DEF NextDmo
  <2>2. DmrInv({2})' /\ D!CallBegins
    BY <2>1, DirectSteps, Zenon DEF ReceiverInv
  <2>3. UNCHANGED channelVars /\ UNCHANGED tuningVars /\ UNCHANGED budgetVars
    BY <1>4, Zenon DEF NextDmo
  <2>4. D!VoiceInPlace'
    BY <2>2, DirectKeptNext, Zenon
  <2>5. QED
    BY <2>1, <2>2, <2>3, <2>4, Zenon DEF ReceiverInv, Reported
<1>5. CASE NextSync
  <2>1. part = "DMO ring" /\ part' = part /\ S!Next
    BY <1>5, Zenon DEF NextSync
  <2>2. RingInv(SlotRing)' /\ S!BurstTiles
    BY <2>1, DirectRingSteps, Zenon DEF ReceiverInv
  <2>3. UNCHANGED channelVars /\ UNCHANGED tuningVars /\ UNCHANGED budgetVars
    BY <1>5, Zenon DEF NextSync
  <2>4. QED
    BY <2>1, <2>2, <2>3, Zenon DEF ReceiverInv, Reported
<1>6. CASE NextIdle
  <2>1. part = "idle ring" /\ part' = part /\ I!Next
    BY <1>6, Zenon DEF NextIdle
  <2>2. RingInv(SlotRing - 1)' /\ I!BurstTiles
    BY <2>1, IdleRingSteps, Zenon DEF ReceiverInv
  <2>3. UNCHANGED channelVars /\ UNCHANGED tuningVars /\ UNCHANGED budgetVars
    BY <1>6, Zenon DEF NextIdle
  <2>4. QED
    BY <2>1, <2>2, <2>3, Zenon DEF ReceiverInv, Reported
<1>7. QED
  BY <1>1, <1>2, <1>3, <1>4, <1>5, <1>6, Zenon

\* A step that is none of a receiver reports nothing.
LEMMA OthersReport ==
  ASSUME part \in {"channel", "budget", "tuning", "rssi", "link", "replies"}, part' = part
  PROVE  ReceiverInv' /\ Reported
  BY Zenon DEF ReceiverInv, Reported

LEMMA PathSteps ==
  ASSUME PathInv, Next
  PROVE  /\ PathInv' /\ Reported
         /\ part = "channel" => C!BlockTogether
         /\ NextBudget \/ UNCHANGED budgetVars
<1>1. ReceiverInv /\ CP!ChannelInv /\ TInv
  BY Zenon DEF PathInv
<1>2. CASE NextNxdn \/ NextP25 \/ NextDmr \/ NextDmo \/ NextSync \/ NextIdle
  <2>1. /\ ReceiverInv' /\ Reported
        /\ UNCHANGED channelVars /\ UNCHANGED tuningVars /\ UNCHANGED budgetVars /\ part # "channel"
    BY <1>1, <1>2, ReceiverSteps
  <2>2. CP!ChannelInv' /\ TInv'
    BY <1>1, <2>1, ChannelStays, TuningStays, Zenon
  <2>3. QED
    BY <2>1, <2>2, Zenon DEF PathInv
<1>3. CASE NextChannel
  <2>1. part = "channel" /\ part' = part /\ C!Next /\ UNCHANGED tuningVars /\ UNCHANGED budgetVars
    BY <1>3, Zenon DEF NextChannel
  <2>2. CP!ChannelInv' /\ C!BlockTogether
    BY <1>1, <2>1, ChannelSteps, Zenon
  <2>3. TInv'
    BY <1>1, <2>1, TuningStays, Zenon
  <2>4. ReceiverInv' /\ Reported
    BY <2>1, OthersReport, Zenon
  <2>5. QED
    BY <2>1, <2>2, <2>3, <2>4, Zenon DEF PathInv
<1>4. CASE NextTuning
  <2>1. part = "tuning" /\ part' = part /\ T!Next /\ UNCHANGED channelVars /\ UNCHANGED budgetVars
    BY <1>4, Zenon DEF NextTuning
  <2>2. TInv'
    BY <1>1, <2>1, TuningSteps, Zenon
  <2>3. CP!ChannelInv'
    BY <1>1, <2>1, ChannelStays, Zenon
  <2>4. ReceiverInv' /\ Reported
    BY <2>1, OthersReport, Zenon
  <2>5. QED
    BY <2>1, <2>2, <2>3, <2>4, Zenon DEF PathInv
<1>5. CASE NextBudget
  <2>1. part = "budget" /\ part' = part /\ UNCHANGED channelVars /\ UNCHANGED tuningVars
    BY <1>5, Zenon DEF NextBudget
  <2>2. CP!ChannelInv' /\ TInv'
    BY <1>1, <2>1, ChannelStays, TuningStays, Zenon
  <2>3. ReceiverInv' /\ Reported
    BY <2>1, OthersReport, Zenon
  <2>4. QED
    BY <1>5, <2>1, <2>2, <2>3, Zenon DEF PathInv
<1>6. CASE NextRssi \/ NextLink \/ NextReplies
  <2>1. /\ part \in {"rssi", "link", "replies"} /\ part' = part
        /\ UNCHANGED channelVars /\ UNCHANGED tuningVars /\ UNCHANGED budgetVars
    BY <1>6, Zenon DEF NextRssi, NextLink, NextReplies, SignalsStay
  <2>2. CP!ChannelInv' /\ TInv'
    BY <1>1, <2>1, ChannelStays, TuningStays, Zenon
  <2>3. ReceiverInv' /\ Reported
    BY <2>1, OthersReport, Zenon
  <2>4. QED
    BY <2>1, <2>2, <2>3, Zenon DEF PathInv
<1>7. QED
  BY <1>2, <1>3, <1>4, <1>5, <1>6, Zenon DEF Next

LEMMA PathStutters ==
  ASSUME PathInv, UNCHANGED vars
  PROVE  PathInv' /\ UNCHANGED budgetVars
<1>1. /\ UNCHANGED receiverVars /\ UNCHANGED channelVars /\ UNCHANGED tuningVars
      /\ UNCHANGED budgetVars /\ part' = part
  BY Zenon DEF vars
<1>2. ReceiverInv'
  BY <1>1, ReceiverStays, Zenon DEF PathInv, ReceiverInv
<1>3. CP!ChannelInv' /\ TInv'
  BY <1>1, ChannelStays, TuningStays, Zenon DEF PathInv
<1>4. QED
  BY <1>1, <1>2, <1>3, Zenon DEF PathInv


\* A turn of a modem that is alone, and of none.
LEMMA BudgetGoesOn ==
  ASSUME NEW m, Modem = {m}, BudgetInv(m), NextBudget \/ UNCHANGED budgetVars
  PROVE  BudgetInv(m)'
<1>1. CASE NextBudget
  <2>1. B!Next
    BY <1>1, Zenon DEF NextBudget
  <2>2. QED
    BY <2>1, BudgetSteps
<1>2. CASE UNCHANGED budgetVars
  BY <1>2, BudgetStays
<1>3. QED
  BY <1>1, <1>2

LEMMA BudgetStarts ==
  ASSUME NEW m, Modem = {m}, Init
  PROVE  BudgetInv(m)
<1>1. B!Init
  BY Zenon DEF Init
<1>2. QED
  BY <1>1, BudgetBegins

LEMMA ChannelKeptNext ==
  (CP!ChannelInv => C!TypeOK /\ C!MarksInTime)'
BY ChannelKept, PTL

LEMMA BudgetKeptNext ==
  ASSUME NEW m, Modem = {m}
  PROVE  (BudgetInv(m) => B!KeepsUp)'
<1>1. BudgetInv(m) => B!KeepsUp
  BY BudgetKept
<1>2. QED
  BY <1>1, PTL

\* The receive path and the receivers keep their invariants: the place of a receiver in
\* its ring is that of the last sync and the samples since, the numbers of samples grow
\* from the queues to the blocks, and every channel is within reach of its device.
THEOREM PathInvariant == Spec => []PathInv
<1>1. PathInv /\ [Next]_vars => PathInv'
  BY PathSteps, PathStutters
<1>2. QED
  BY <1>1, PathBegins, PTL DEF Spec

\* The pointers of a receiver are places of its ring, its counters are within their
\* limits, and the queues and rings of the receive path hold samples of the radio, no more
\* of them than they have room for.
THEOREM ReceiversTyped == Spec => []TypeOK
<1>1. PathInv => TypeOK
  <2> SUFFICES ASSUME PathInv PROVE TypeOK
    OBVIOUS
  <2>1. (part = "NXDN" => N!TypeOK) /\ (part = "P25" => P!TypeOK)
    BY Zenon DEF PathInv, ReceiverInv, NInv, PInv
  <2>2. (part = "DMR" => R!TypeOK) /\ (part = "DMO" => D!TypeOK)
    BY RepeaterKept, DirectKept, Zenon DEF PathInv, ReceiverInv
  <2>3. (part = "DMO ring" => S!TypeOK) /\ (part = "idle ring" => I!TypeOK)
    BY DirectRingTyped, IdleRingTyped, Zenon DEF PathInv, ReceiverInv
  <2>4. C!TypeOK /\ T!TypeOK
    BY ChannelKept, Zenon DEF PathInv, TInv
  <2>5. QED
    BY <2>1, <2>2, <2>3, <2>4, Zenon DEF TypeOK
<1>2. QED
  BY <1>1, PathInvariant, PTL

\* NXDNRX, P25RX, DMRSlotRX and DMRDMORX never stay locked with nothing to come that
\* would end it: a lock has its carrier and the end of a frame ahead in the ring, and the
\* frames without a sync that are left to it are fewer than the limit; few bursts of noise
\* are told as those of a call.
THEOREM LocksEnd == Spec => []LocksAreLive
<1>1. PathInv => LocksAreLive
  <2> SUFFICES ASSUME PathInv PROVE LocksAreLive
    OBVIOUS
  <2>1. part = "NXDN" => N!LockIsLive /\ N!CarrierIsLock /\ N!FlagsAreTrue
    BY NxdnLock, Zenon DEF PathInv, ReceiverInv, NInv
  <2>2. part = "P25" => P!LockIsLive /\ P!LockIsCarrier
    BY P25Lock, Zenon DEF PathInv, ReceiverInv
  <2>3. part = "DMR" => R!CarrierIsCall /\ R!NoiseIsBounded
    BY RepeaterKept, Zenon DEF PathInv, ReceiverInv
  <2>4. part = "DMO" => D!CarrierIsCall /\ D!NoiseIsBounded
    BY DirectKept, Zenon DEF PathInv, ReceiverInv
  <2>5. QED
    BY <2>1, <2>2, <2>3, <2>4, Zenon DEF LocksAreLive
<1>2. QED
  BY <1>1, PathInvariant, PTL

\* RadioManager: whichever channel asks for a frequency, for an offset or for a
\* correction, and whatever the device is moved to for it, every channel stays tuned.
THEOREM ChannelsStayTuned == Spec => []TunedTogether
<1>1. PathInv => TunedTogether
  BY Zenon DEF PathInv, TInv, TunedTogether
<1>2. QED
  BY <1>1, PathInvariant, PTL

\* NXDNRX, P25RX, DMRDMORX and DMRIdleRX take each frame and each burst once and pass by
\* none while they are locked; DMRSlotRX tells of a call between its beginning and its end.
THEOREM CallsAreTakenInPlace == Spec => CallsInPlace
<1>1. PathInv /\ [Next]_vars => [Reported]_vars
  BY PathSteps
<1>2. Spec => [][Reported]_vars
  BY <1>1, PathInvariant, PTL DEF Spec
<1>3. QED
  BY <1>2 DEF CallsInPlace, Reported

\* RadioManager to IO::process(), of a modem that is alone: a sample reaches the receiver
\* with the mark and the signal strength that were given to it, in order and once, and
\* within the budget of the turns there is room for all that comes in.
THEOREM ModemIsFedTogether ==
  ASSUME NEW m, Modem = {m}
  PROVE  Spec => FedTogether
<1>1. Init => PathInv /\ BudgetInv(m)
  BY PathBegins, BudgetStarts
<1>2. PathInv /\ BudgetInv(m) /\ [Next]_vars => PathInv' /\ BudgetInv(m)'
  <2>1. ASSUME PathInv, BudgetInv(m), [Next]_vars PROVE PathInv' /\ BudgetInv(m)'
    <3>1. PathInv' /\ (NextBudget \/ UNCHANGED budgetVars)
      BY <2>1, PathSteps, PathStutters
    <3>2. QED
      BY <2>1, <3>1, BudgetGoesOn
  <2>2. QED
    BY <2>1
<1>3. (PathInv /\ BudgetInv(m))' => C!MarksInTime' /\ B!KeepsUp'
  BY ChannelKeptNext, BudgetKeptNext DEF PathInv
<1>4. PathInv /\ Next => (part = "channel" => C!BlockTogether)
  BY PathSteps
<1>5. ASSUME PathInv, BudgetInv(m), [Next]_vars
      PROVE  [(part = "channel" => C!BlockTogether) /\ C!MarksInTime' /\ B!KeepsUp']_vars
  BY <1>2, <1>3, <1>4, <1>5, Zenon
<1>6. Spec => [][(part = "channel" => C!BlockTogether) /\ C!MarksInTime' /\ B!KeepsUp']_vars
  BY <1>1, <1>2, <1>5, PTL DEF Spec
<1>7. QED
  BY <1>6 DEF FedTogether

-----------------------------------------------------------------------------
(***************************************************************************)
(* CalRssi: a report is of the samples since the one before.  The sum of   *)
(* samples is a recursive function; the invariant keeps one at hand.       *)
(***************************************************************************)

Sums(sum, samples) == sum = [n \in 0 .. Len(samples) |-> IF n = 0 THEN 0 ELSE sum[n - 1] + samples[n]]

\* The sum, the greatest and the least of these samples, as they are before the first.
Measures(samples, accum, max, min) ==
  /\ \E sum : Sums(sum, samples) /\ sum[Len(samples)] = accum
  /\ \A i \in 1 .. Len(samples) : min <= samples[i] /\ samples[i] <= max
  /\ samples = <<>> => max = 0 /\ min = Greatest
  /\ samples # <<>> => (\E i \in 1 .. Len(samples) : samples[i] = max)
                         /\ (\E i \in 1 .. Len(samples) : samples[i] = min)

\* What is not told yet.
Untold(of, samples) == IF of = Q!Untold THEN samples ELSE <<>>

RssiInv ==
  /\ heard \in Seq(Levels) /\ m_count \in 0 .. Second - 1 /\ m_accum \in Nat
  /\ m_max \in 0 .. Greatest /\ m_min \in 0 .. Greatest
  /\ m_count = Len(Untold(told, heard))
  /\ Measures(Untold(told, heard), m_accum, m_max, m_min)
  /\ Q!ReportTiles

LEMMA RssiConstants == Second \in Nat \ {0} /\ Greatest \in Nat /\ Levels \subseteq 0 .. Greatest
  BY ConstantsFit DEF Q!CalRssiAssumption

\* A count that begins at zero and goes on by these steps; there is one.
SumsTo(sum, step, length) == sum[0] = 0 /\ \A n \in 1 .. length : sum[n] = sum[n - 1] + step[n]

LEMMA OneSum ==
  ASSUME NEW length \in Nat, NEW step, NEW f, NEW g, SumsTo(f, step, length), SumsTo(g, step, length)
  PROVE  f[length] = g[length]
<1> USE DEF SumsTo
<1> DEFINE Bad == {n \in 0 .. length : f[n] # g[n]}
<1>1. SUFFICES ASSUME Bad # {} PROVE FALSE
  OBVIOUS
<1>2. Bad \in SUBSET Nat
  OBVIOUS
<1>3. PICK n \in Bad : \A k \in Bad : n <= k
  BY <1>1, <1>2, CP!LeastOf
<1>4. n \in 1 .. length /\ n - 1 \in 0 .. length /\ ~(n <= n - 1)
  BY <1>3
<1>5. f[n - 1] = g[n - 1]
  BY <1>3, <1>4
<1>6. f[n] = g[n]
  BY <1>4, <1>5
<1>7. QED
  BY <1>3, <1>6

LEMMA SumsAre ==
  ASSUME NEW samples, NEW length \in Nat, length = Len(samples), NEW sum, Sums(sum, samples)
  PROVE  SumsTo(sum, samples, length)
<1>1. 0 \in 0 .. length /\ \A n \in 1 .. length : n \in 0 .. length /\ n # 0
  OBVIOUS
<1>2. QED
  BY <1>1, Zenon DEF Sums, SumsTo

LEMMA TotalIs ==
  ASSUME NEW samples, NEW length \in Nat, length = Len(samples), NEW sum, Sums(sum, samples)
  PROVE  Q!Total(samples) = sum[length]
<1> DEFINE upTo == CHOOSE b : Sums(b, samples)
<1>1. Q!Total(samples) = upTo[length]
  BY Zenon DEF Q!Total, Sums
<1>2. Sums(upTo, samples)
  BY Zenon
<1> HIDE DEF upTo
<1>3. QED
  BY <1>1, <1>2, SumsAre, OneSum, Zenon

LEMMA MeasuresMore ==
  ASSUME NEW s \in Seq(Levels), NEW x \in Levels, NEW accum, NEW max \in Nat, NEW min \in Nat,
         Measures(s, accum, max, min)
  PROVE  Measures(Append(s, x), accum + x, Q!Greater(max, x), Q!Lesser(min, x))
<1>1. PICK n \in Nat : n = Len(s)
  OBVIOUS
<1>2. x \in Nat /\ x <= Greatest /\ Greatest \in Nat /\ \A i \in 1 .. n : s[i] \in Nat
  <2>1. x \in Levels /\ \A i \in 1 .. n : s[i] \in Levels
    BY <1>1
  <2>2. \A l \in Levels : l \in Nat /\ l <= Greatest
    BY RssiConstants
  <2>3. QED
    BY <2>1, <2>2, RssiConstants, Zenon
<1>3. /\ Append(s, x) # <<>> /\ Len(Append(s, x)) = n + 1 /\ Append(s, x)[n + 1] = x
      /\ \A i \in 1 .. n : Append(s, x)[i] = s[i]
  BY <1>1
<1>4. PICK sum : Sums(sum, s) /\ sum[n] = accum
  BY <1>1, Zenon DEF Measures
<1>5. \E b : Sums(b, Append(s, x)) /\ b[n + 1] = accum + x
  <2> DEFINE b == [k \in 0 .. n + 1 |-> IF k = n + 1 THEN accum + x ELSE sum[k]]
             t == Append(s, x)
  <2>1. \A k \in 0 .. n + 1 : b[k] = IF k = 0 THEN 0 ELSE b[k - 1] + t[k]
    <3>1. sum[0] = 0 /\ \A k \in 1 .. n : sum[k] = sum[k - 1] + s[k]
      BY <1>1, <1>4, SumsAre, Zenon DEF SumsTo
    <3>2. ASSUME NEW k \in 0 .. n + 1 PROVE b[k] = IF k = 0 THEN 0 ELSE b[k - 1] + t[k]
      <4>1. CASE k = 0
        <5>1. k # n + 1 /\ k \in 0 .. n + 1
          BY <4>1
        <5>2. b[k] = sum[0]
          BY <4>1, <5>1, Zenon
        <5>3. QED
          BY <4>1, <5>2, <3>1, Zenon
      <4>2. CASE k \in 1 .. n
        <5>1. k # 0 /\ k # n + 1 /\ k - 1 # n + 1 /\ k - 1 \in 0 .. n + 1
          BY <4>2
        <5>2. b[k] = sum[k] /\ b[k - 1] = sum[k - 1]
          BY <5>1, Zenon
        <5>3. QED
          BY <1>3, <3>1, <4>2, <5>1, <5>2, Zenon
      <4>3. CASE k = n + 1
        <5>1. k # 0 /\ k - 1 = n /\ n # n + 1 /\ n \in 0 .. n + 1
          BY <4>3
        <5>2. b[k] = accum + x /\ b[k - 1] = sum[n]
          BY <4>3, <5>1, Zenon
        <5>3. QED
          BY <1>3, <1>4, <4>3, <5>1, <5>2, Zenon
      <4>4. QED
        BY <4>1, <4>2, <4>3
    <3>3. QED
      BY <3>2
  <2>2. b = [k \in 0 .. n + 1 |-> b[k]] /\ b[n + 1] = accum + x
    <3>1. n + 1 \in 0 .. n + 1
      OBVIOUS
    <3>2. QED
      BY <3>1, Zenon
  <2> HIDE DEF b
  <2>3. b = [k \in 0 .. n + 1 |-> IF k = 0 THEN 0 ELSE b[k - 1] + t[k]]
    BY <2>1, <2>2, Zenon
  <2>4. Sums(b, t)
    BY <1>3, <2>3, Zenon DEF Sums
  <2>5. QED
    BY <2>2, <2>4, Zenon
<1> DEFINE t == Append(s, x)
           most == Q!Greater(max, x)
           least == Q!Lesser(min, x)
<1>6. \A i \in 1 .. n : min <= s[i] /\ s[i] <= max
  BY <1>1, Zenon DEF Measures
<1>7. \A i \in 1 .. n + 1 : least <= t[i] /\ t[i] <= most
  BY <1>2, <1>3, <1>6 DEF Q!Greater, Q!Lesser
<1>8. (\E i \in 1 .. n + 1 : t[i] = most) /\ (\E i \in 1 .. n + 1 : t[i] = least)
  <2>1. n + 1 \in 1 .. n + 1 /\ \A i \in 1 .. n : i \in 1 .. n + 1
    OBVIOUS
  <2>2. most = x \/ (most = max /\ s # <<>>)
    BY <1>2 DEF Q!Greater, Measures
  <2>3. least = x \/ (least = min /\ s # <<>>)
    BY <1>2 DEF Q!Lesser, Measures
  <2>4. s # <<>> => (\E i \in 1 .. n : s[i] = max) /\ (\E i \in 1 .. n : s[i] = min)
    BY <1>1, Zenon DEF Measures
  <2> HIDE DEF most, least
  <2>5. QED
    BY <1>3, <2>1, <2>2, <2>3, <2>4, Zenon
<1> HIDE DEF most, least
<1>9. QED
  BY <1>3, <1>5, <1>7, <1>8, Zenon DEF Measures, most, least

LEMMA MeasuresTell ==
  ASSUME NEW s \in Seq(Levels), s # <<>>, NEW accum, NEW max \in Nat, NEW min \in Nat,
         Measures(s, accum, max, min)
  PROVE  max = Q!Max(Q!ToSet(s)) /\ min = Q!Min(Q!ToSet(s)) /\ accum = Q!Total(s)
<1>1. PICK n \in Nat : n = Len(s)
  OBVIOUS
<1>2. DOMAIN s = 1 .. n /\ \A i \in 1 .. n : s[i] \in Nat
  <2>1. DOMAIN s = 1 .. n /\ \A i \in 1 .. n : s[i] \in Levels
    BY <1>1
  <2>2. \A l \in Levels : l \in Nat
    BY RssiConstants
  <2>3. QED
    BY <2>1, <2>2, Zenon
<1>3. Q!ToSet(s) = {s[i] : i \in 1 .. n}
  BY <1>2, Zenon DEF Q!ToSet
<1>4. /\ \A i \in 1 .. n : min <= s[i] /\ s[i] <= max
      /\ (\E i \in 1 .. n : s[i] = max) /\ (\E i \in 1 .. n : s[i] = min)
  BY <1>1, Zenon DEF Measures
<1>5. /\ max \in Q!ToSet(s) /\ \A y \in Q!ToSet(s) : y \in Nat /\ max >= y
      /\ min \in Q!ToSet(s) /\ \A y \in Q!ToSet(s) : min <= y
  BY <1>2, <1>3, <1>4
<1>6. max = Q!Max(Q!ToSet(s))
  <2> DEFINE c == CHOOSE x \in Q!ToSet(s) : \A y \in Q!ToSet(s) : x >= y
  <2>1. c \in Q!ToSet(s) /\ \A y \in Q!ToSet(s) : c >= y
    BY <1>5, Zenon
  <2> HIDE DEF c
  <2>2. c = max
    BY <1>5, <2>1
  <2>3. QED
    BY <2>2, Zenon DEF c, Q!Max
<1>7. min = Q!Min(Q!ToSet(s))
  <2> DEFINE c == CHOOSE x \in Q!ToSet(s) : \A y \in Q!ToSet(s) : x =< y
  <2>1. c \in Q!ToSet(s) /\ \A y \in Q!ToSet(s) : c =< y
    BY <1>5, Zenon
  <2> HIDE DEF c
  <2>2. c = min
    BY <1>5, <2>1
  <2>3. QED
    BY <2>2, Zenon DEF c, Q!Min
<1>8. accum = Q!Total(s)
  <2>1. PICK sum : Sums(sum, s) /\ sum[n] = accum
    BY <1>1, Zenon DEF Measures
  <2>2. QED
    BY <1>1, <2>1, TotalIs, Zenon
<1>9. QED
  BY <1>6, <1>7, <1>8

LEMMA RssiInit == ASSUME Q!Init PROVE RssiInv
<1>1. /\ m_count = 0 /\ m_accum = 0 /\ m_min = Greatest /\ m_max = 0 /\ told = Q!Untold /\ heard = <<>>
  BY Zenon DEF Q!Init
<1>2. <<>> \in Seq(Levels) /\ Len(<<>>) = 0 /\ ~(\E i \in 1 .. 0 : TRUE)
  OBVIOUS
<1>3. Measures(<<>>, 0, 0, Greatest)
  <2>1. Sums([n \in 0 .. 0 |-> 0], <<>>)
    BY <1>2 DEF Sums
  <2>2. [n \in 0 .. 0 |-> 0][0] = 0
    OBVIOUS
  <2>3. QED
    BY <1>2, <2>1, <2>2, Zenon DEF Measures
<1>4. 0 \in 0 .. Second - 1 /\ 0 \in Nat /\ 0 \in 0 .. Greatest /\ Greatest \in 0 .. Greatest
  BY RssiConstants
<1>5. QED
  BY <1>1, <1>2, <1>3, <1>4, Zenon DEF RssiInv, Untold, Q!ReportTiles

\* The samples before this one, not told of yet, and this one.
LEMMA RssiHears ==
  ASSUME RssiInv, NEW ss \in Levels, NEW s, s = Untold(told, heard)
  PROVE  /\ s \in Seq(Levels) /\ Append(s, ss) \in Seq(Levels) /\ Len(Append(s, ss)) = m_count + 1
         /\ Append(s, ss) # <<>> /\ Q!Heard(ss) = Append(s, ss)
         /\ m_accum + ss \in Nat /\ Q!Greater(m_max, ss) \in 0 .. Greatest /\ Q!Lesser(m_min, ss) \in 0 .. Greatest
         /\ Measures(Append(s, ss), m_accum + ss, Q!Greater(m_max, ss), Q!Lesser(m_min, ss))
<1>1. <<>> \in Seq(Levels)
  OBVIOUS
<1>2. s \in Seq(Levels) /\ m_count = Len(s)
  BY <1>1, Zenon DEF RssiInv, Untold
<1>3. Q!Heard(ss) = Append(s, ss)
  BY Zenon DEF Q!Heard, Untold
<1>4. m_accum \in Nat /\ m_max \in 0 .. Greatest /\ m_min \in 0 .. Greatest /\ Measures(s, m_accum, m_max, m_min)
  BY Zenon DEF RssiInv
<1>5. Append(s, ss) \in Seq(Levels) /\ Len(Append(s, ss)) = m_count + 1 /\ Append(s, ss) # <<>>
  BY <1>2
<1>6. m_max \in Nat /\ m_min \in Nat /\ ss \in 0 .. Greatest
  BY <1>4, RssiConstants
<1>7. Measures(Append(s, ss), m_accum + ss, Q!Greater(m_max, ss), Q!Lesser(m_min, ss))
  BY <1>2, <1>4, <1>6, MeasuresMore, Zenon
<1>8. m_accum + ss \in Nat /\ Q!Greater(m_max, ss) \in 0 .. Greatest /\ Q!Lesser(m_min, ss) \in 0 .. Greatest
  BY <1>4, <1>6, RssiConstants DEF Q!Greater, Q!Lesser
<1>9. QED
  BY <1>2, <1>3, <1>5, <1>7, <1>8, Zenon

LEMMA RssiSample == ASSUME RssiInv, NEW ss \in Levels, Q!Sample(ss) PROVE RssiInv'
<1>1. PICK s : s = Untold(told, heard)
  OBVIOUS
<1>2. /\ m_count' = m_count + 1 /\ m_accum' = m_accum + ss /\ m_max' = Q!Greater(m_max, ss)
      /\ m_min' = Q!Lesser(m_min, ss) /\ told' = Q!Untold /\ heard' = Append(s, ss)
  BY <1>1, RssiHears, Zenon DEF Q!Sample
<1>3. m_count + 1 \in 0 .. Second - 1
  <2>1. m_count \in 0 .. Second - 1 /\ m_count + 1 < Second
    BY Zenon DEF RssiInv, Q!Sample
  <2>2. QED
    BY <2>1, RssiConstants
<1>4. Untold(told, heard)' = Append(s, ss)
  BY <1>2, Zenon DEF Untold
<1>5. Q!ReportTiles'
  BY <1>2, Zenon DEF Q!ReportTiles
<1>6. QED
  BY <1>1, <1>2, <1>3, <1>4, <1>5, RssiHears, Zenon DEF RssiInv

LEMMA RssiLast == ASSUME RssiInv, NEW ss \in Levels, Q!LastSample(ss) PROVE RssiInv'
<1>1. PICK s : s = Untold(told, heard)
  OBVIOUS
<1>2. PICK t : t = Append(s, ss)
  OBVIOUS
<1>3. /\ m_count' = 0 /\ m_accum' = 0 /\ m_max' = 0 /\ m_min' = Greatest /\ heard' = t
      /\ told' = [max |-> Q!Greater(m_max, ss), min |-> Q!Lesser(m_min, ss),
                  ave |-> (m_accum + ss) \div (m_count + 1)]
  BY <1>1, <1>2, RssiHears, Zenon DEF Q!LastSample
<1>4. m_count + 1 = Second
  <2>1. m_count \in 0 .. Second - 1 /\ m_count + 1 >= Second
    BY Zenon DEF RssiInv, Q!LastSample
  <2>2. QED
    BY <2>1, RssiConstants
<1>5. /\ t \in Seq(Levels) /\ Len(t) = Second /\ t # <<>>
      /\ Measures(t, m_accum + ss, Q!Greater(m_max, ss), Q!Lesser(m_min, ss))
      /\ Q!Greater(m_max, ss) \in Nat /\ Q!Lesser(m_min, ss) \in Nat
  <2>1. Q!Greater(m_max, ss) \in 0 .. Greatest /\ Q!Lesser(m_min, ss) \in 0 .. Greatest
    BY <1>1, RssiHears, Zenon
  <2>2. Q!Greater(m_max, ss) \in Nat /\ Q!Lesser(m_min, ss) \in Nat
    BY <2>1, RssiConstants
  <2>3. QED
    BY <1>1, <1>2, <1>4, <2>2, RssiHears, Zenon
<1>6. /\ Q!Greater(m_max, ss) = Q!Max(Q!ToSet(t)) /\ Q!Lesser(m_min, ss) = Q!Min(Q!ToSet(t))
      /\ m_accum + ss = Q!Total(t)
  BY <1>5, MeasuresTell, Zenon
<1>7. told'.max = Q!Greater(m_max, ss) /\ told'.min = Q!Lesser(m_min, ss) /\ told'.ave = (m_accum + ss) \div Second
  BY <1>3, <1>4
<1>8. Q!ReportTiles'
  BY <1>3, <1>5, <1>6, <1>7, Zenon DEF Q!ReportTiles
<1>9. told' # Q!Untold
  <2>1. Q!Untold.max = -1
    BY DEF Q!Untold
  <2>2. QED
    BY <1>5, <1>7, <2>1
<1>10. Untold(told, heard)' = <<>>
  BY <1>9, Zenon DEF Untold
<1>11. <<>> \in Seq(Levels) /\ Len(<<>>) = 0 /\ ~(\E i \in 1 .. 0 : TRUE)
  OBVIOUS
<1>12. Measures(<<>>, 0, 0, Greatest)
  <2>1. Sums([n \in 0 .. 0 |-> 0], <<>>)
    BY <1>11 DEF Sums
  <2>2. [n \in 0 .. 0 |-> 0][0] = 0
    OBVIOUS
  <2>3. QED
    BY <1>11, <2>1, <2>2, Zenon DEF Measures
<1>13. 0 \in 0 .. Second - 1 /\ 0 \in Nat /\ 0 \in 0 .. Greatest /\ Greatest \in 0 .. Greatest
  BY RssiConstants
<1>14. QED
  BY <1>3, <1>5, <1>8, <1>10, <1>11, <1>12, <1>13, Zenon DEF RssiInv

LEMMA RssiStep == ASSUME RssiInv, Q!Next PROVE RssiInv'
  BY RssiSample, RssiLast, Zenon DEF Q!Next

LEMMA RssiSame == ASSUME RssiInv, UNCHANGED rssiVars PROVE RssiInv'
<1>1. UNCHANGED <<m_count, m_accum, m_min, m_max, told, heard>>
  BY Zenon DEF rssiVars
<1>2. QED
  BY <1>1, Zenon DEF RssiInv, Untold, Q!ReportTiles

-----------------------------------------------------------------------------
(***************************************************************************)
(* HostLink: what is read of the frames and what is on the line.  The      *)
(* invariant has the places where the frames begin, whatever bytes they    *)
(* are made of.                                                            *)
(***************************************************************************)

ShortFrames == UNION {H!Frames(size, FALSE) : size \in ShortSizes}
LongFrames == UNION {H!Frames(size, TRUE) : size \in LongSizes}
LinkFrames == ShortFrames \cup LongFrames

\* A frame says how long it is, in its second byte or in its second and third.
IsFrame(f) ==
  /\ f \in Seq(Int) /\ Len(f) >= 3 /\ Len(f) <= BufferLen /\ f[1] \in {H!SHORT_START, H!LONG_START}
  /\ f[1] # H!LONG_START => f[2] = Len(f)
  /\ f[1] = H!LONG_START => Len(f) >= 4 /\ H!LongLength(f[2], f[3]) = Len(f)

\* The stream is these frames, one behind the other: the k-th begins behind off[k] bytes.
Lies(stream, all, off) ==
  /\ off \in [1 .. Len(all) + 1 -> Nat] /\ off[1] = 0 /\ off[Len(all) + 1] = Len(stream)
  /\ \A k \in 1 .. Len(all) :
       /\ off[k + 1] = off[k] + Len(all[k])
       /\ \A i \in 1 .. Len(all[k]) : stream[off[k] + i] = all[k][i]

Stream == m_buffer \o line

\* The first frame not handled, once some of it is read.
LinkReads(f) ==
  /\ m_ptr < Len(f) /\ (m_dblFrame <=> f[1] = H!LONG_START)
  /\ m_ptr = 2 => m_len = f[2]
  /\ m_ptr > 2 => m_len = Len(f)

LinkTypes ==
  /\ unhandled \in Seq(LinkFrames) /\ line \in Seq(Int) /\ m_buffer \in Seq(Int)
  /\ m_ptr \in Nat /\ Len(m_buffer) = m_ptr

LinkPlace ==
  /\ \E off : Lies(Stream, unhandled, off)
  /\ m_ptr > 0 => unhandled # <<>> /\ LinkReads(Head(unhandled))

LinkInv == LinkTypes /\ (inStep => LinkPlace /\ ~overrun)

LEMMA LinkConstants ==
  /\ Base \in Nat \ {0} /\ BufferLen \in Nat /\ Base <= BufferLen /\ Payloads \subseteq 0 .. Base - 1
  /\ ShortSizes \subseteq 3 .. Base - 1 /\ LongSizes \subseteq 4 .. BufferLen
  BY ConstantsFit DEF H!HostLinkAssumption

LEMMA LengthOfTwo ==
  ASSUME NEW base \in Nat \ {0}, NEW size \in Nat
  PROVE  /\ (size \div base) * base + (size % base) = size
         /\ size \div base \in Int /\ size % base \in Int
  OBVIOUS

LEMMA Headed ==
  ASSUME NEW header \in Seq(Int), NEW rest \in Seq(Int)
  PROVE  /\ header \o rest \in Seq(Int) /\ Len(header \o rest) = Len(header) + Len(rest)
         /\ \A i \in 1 .. Len(header) : (header \o rest)[i] = header[i]
<1>1. /\ header \o rest \in Seq(Int) /\ Len(header \o rest) = Len(header) + Len(rest)
      /\ \A i \in 1 .. Len(header) + Len(rest) : (header \o rest)[i] =
           IF i <= Len(header) THEN header[i] ELSE rest[i - Len(header)]
  BY ConcatProperties, Zenon
<1>2. \A i \in 1 .. Len(header) : i \in 1 .. Len(header) + Len(rest) /\ i <= Len(header)
  OBVIOUS
<1>3. QED
  BY <1>1, <1>2, Zenon

LEMMA FrameIs == \A f \in LinkFrames : IsFrame(f)
<1>1. ASSUME NEW size \in ShortSizes, NEW f \in H!Frames(size, FALSE) PROVE IsFrame(f)
  <2>1. /\ size \in Nat /\ size >= 3 /\ size <= BufferLen /\ H!SHORT_START \in Int /\ H!SHORT_START # H!LONG_START
    BY LinkConstants DEF H!SHORT_START, H!LONG_START
  <2> DEFINE header == <<H!SHORT_START, size>>
  <2>2. PICK rest \in [1 .. size - Len(header) -> Payloads] : f = header \o rest
    BY Zenon DEF H!Frames
  <2>3. header \in Seq(Int) /\ Len(header) = 2 /\ header[1] = H!SHORT_START /\ header[2] = size
    BY <2>1
  <2>4. PICK h \in Nat : h = 2
    OBVIOUS
  <2>5. h = Len(header)
    BY <2>3, <2>4
  <2>6. rest \in [1 .. size - h -> Int]
    <3>1. rest \in [1 .. size - h -> Payloads]
      BY <2>2, <2>5, Zenon
    <3>2. \A p \in Payloads : p \in Int
      BY LinkConstants
    <3>3. QED
      BY <3>1, <3>2
  <2> HIDE DEF header
  <2>7. h < size /\ 1 \in 1 .. h /\ 2 \in 1 .. h
    BY <2>1, <2>4
  <2>8. /\ f \in Seq(Int) /\ Len(f) = size
        /\ \A i \in 1 .. h : f[i] = header[i]
    <3>1. rest \in Seq(Int) /\ Len(rest) = size - h /\ h + (size - h) = size
      BY <2>1, <2>6, <2>7
    <3>2. /\ header \o rest \in Seq(Int) /\ Len(header \o rest) = Len(header) + Len(rest)
          /\ \A i \in 1 .. Len(header) : (header \o rest)[i] = header[i]
      BY <3>1, <2>3, Headed, Zenon
    <3>3. QED
      BY <3>1, <3>2, <2>5, <2>2, Zenon
  <2>9. f[1] = H!SHORT_START /\ f[2] = size
    BY <2>3, <2>7, <2>8, Zenon
  <2>10. QED
    BY <2>1, <2>8, <2>9, Zenon DEF IsFrame
<1>2. ASSUME NEW size \in LongSizes, NEW f \in H!Frames(size, TRUE) PROVE IsFrame(f)
  <2>1. /\ size \in Nat /\ size >= 4 /\ size <= BufferLen /\ BufferLen \in Nat /\ H!LONG_START \in Int
        /\ Base \in Nat \ {0} /\ size >= 3
    BY LinkConstants DEF H!LONG_START
  <2>2. PICK msb, lsb : msb = size \div Base /\ lsb = size % Base
    OBVIOUS
  <2>3. msb \in Int /\ lsb \in Int /\ msb * Base + lsb = size
    BY <2>1, <2>2, LengthOfTwo
  <2> DEFINE header == <<H!LONG_START, msb, lsb>>
  <2>4. PICK rest \in [1 .. size - Len(header) -> Payloads] : f = header \o rest
    BY <2>2, Zenon DEF H!Frames
  <2>5. /\ header \in Seq(Int) /\ Len(header) = 3 /\ header[1] = H!LONG_START
        /\ header[2] = msb /\ header[3] = lsb
    BY <2>1, <2>3
  <2>6. PICK h \in Nat : h = 3
    OBVIOUS
  <2>7. h = Len(header)
    BY <2>5, <2>6
  <2>8. rest \in [1 .. size - h -> Int]
    <3>1. rest \in [1 .. size - h -> Payloads]
      BY <2>4, <2>7, Zenon
    <3>2. \A p \in Payloads : p \in Int
      BY LinkConstants
    <3>3. QED
      BY <3>1, <3>2
  <2> HIDE DEF header
  <2>9. h < size /\ 1 \in 1 .. h /\ 2 \in 1 .. h /\ 3 \in 1 .. h
    BY <2>1, <2>6
  <2>10. /\ f \in Seq(Int) /\ Len(f) = size
        /\ \A i \in 1 .. h : f[i] = header[i]
    <3>1. rest \in Seq(Int) /\ Len(rest) = size - h /\ h + (size - h) = size
      BY <2>1, <2>8, <2>9
    <3>2. /\ header \o rest \in Seq(Int) /\ Len(header \o rest) = Len(header) + Len(rest)
          /\ \A i \in 1 .. Len(header) : (header \o rest)[i] = header[i]
      BY <3>1, <2>5, Headed, Zenon
    <3>3. QED
      BY <3>1, <3>2, <2>7, <2>4, Zenon
  <2>11. f[1] = H!LONG_START /\ f[2] = msb /\ f[3] = lsb
    BY <2>5, <2>9, <2>10, Zenon
  <2>12. H!LongLength(msb, lsb) = size
    BY <2>1, <2>3 DEF H!LongLength
  <2>13. QED
    BY <2>1, <2>10, <2>11, <2>12, Zenon DEF IsFrame
<1>3. ASSUME NEW f \in LinkFrames PROVE IsFrame(f)
  <2>1. f \in ShortFrames \/ f \in LongFrames
    BY DEF LinkFrames
  <2>2. f \in ShortFrames => \E size \in ShortSizes : f \in H!Frames(size, FALSE)
    BY Zenon DEF ShortFrames
  <2>3. f \in LongFrames => \E size \in LongSizes : f \in H!Frames(size, TRUE)
    BY Zenon DEF LongFrames
  <2>4. QED
    BY <1>1, <1>2, <2>1, <2>2, <2>3, Zenon
<1>4. QED
  BY <1>3, Zenon

-----------------------------------------------------------------------------
(***************************************************************************)
(* Frames in a stream.                                                     *)
(***************************************************************************)

\* Frames lie in the order they have.
LEMMA OffsetsGrow ==
  ASSUME NEW stream, NEW all \in Seq(LinkFrames), NEW off, Lies(stream, all, off),
         NEW n \in Nat, n = Len(all), NEW l \in 1 .. n + 1, NEW j \in 1 .. l
  PROVE  off[j] \in Nat /\ off[l] \in Nat /\ off[j] <= off[l]
<1>1. \A k \in 1 .. n + 1 : off[k] \in Nat
  BY Zenon DEF Lies
<1>2. ASSUME NEW k \in 1 .. n PROVE off[k] <= off[k + 1]
  <2>1. off[k + 1] = off[k] + Len(all[k])
    BY Zenon DEF Lies
  <2>2. all[k] \in LinkFrames
    OBVIOUS
  <2>3. Len(all[k]) \in Nat
    BY <2>2, FrameIs DEF IsFrame
  <2>4. k \in 1 .. n + 1
    OBVIOUS
  <2>5. QED
    BY <1>1, <2>1, <2>3, <2>4
<1> DEFINE Bad == {d \in 0 .. n : \E k \in 1 .. l : l - k = d /\ ~(off[k] <= off[l])}
<1>3. SUFFICES ASSUME Bad # {} PROVE FALSE
  <2>1. ASSUME ~(off[j] <= off[l]) PROVE Bad # {}
    <3>1. l - j \in 0 .. n
      OBVIOUS
    <3>2. l - j \in Bad
      BY <2>1, <3>1
    <3>3. QED
      BY <3>2
  <2>2. j \in 1 .. n + 1
    OBVIOUS
  <2>3. QED
    BY <1>1, <2>1, <2>2
<1>4. Bad \in SUBSET Nat
  OBVIOUS
<1>5. PICK d \in Bad : \A e \in Bad : d <= e
  BY <1>3, <1>4, CP!LeastOf
<1>6. PICK k \in 1 .. l : l - k = d /\ ~(off[k] <= off[l])
  BY <1>5
<1>7. k # l
  <2>1. off[l] <= off[l]
    BY <1>1
  <2>2. QED
    BY <1>6, <2>1
<1>8. k \in 1 .. n /\ k + 1 \in 1 .. l /\ d - 1 \in 0 .. n /\ l - (k + 1) = d - 1 /\ ~(d <= d - 1)
  BY <1>6, <1>7
<1>9. off[k] <= off[k + 1] /\ off[k] \in Nat /\ off[k + 1] \in Nat /\ off[l] \in Nat
  <2>1. k \in 1 .. n + 1 /\ k + 1 \in 1 .. n + 1
    BY <1>8
  <2>2. QED
    BY <1>1, <1>2, <1>8, <2>1, Zenon
<1>10. ~(off[k + 1] <= off[l])
  BY <1>6, <1>9
<1>11. d - 1 \in Bad
  BY <1>8, <1>10, Zenon
<1>12. QED
  BY <1>5, <1>8, <1>11, Zenon

\* The first frame is where the stream begins.
LEMMA FirstOfStream ==
  ASSUME NEW stream \in Seq(Int), NEW all \in Seq(LinkFrames), NEW off, Lies(stream, all, off)
  PROVE  /\ all = <<>> <=> stream = <<>>
         /\ all # <<>> => /\ IsFrame(Head(all)) /\ Len(Head(all)) <= Len(stream)
                          /\ \A i \in 1 .. Len(Head(all)) : stream[i] = Head(all)[i]
<1>1. PICK n \in Nat : n = Len(all)
  OBVIOUS
<1>2. CASE n = 0
  <2>1. off[1] = 0 /\ off[n + 1] = Len(stream)
    BY <1>1, Zenon DEF Lies
  <2>2. n + 1 = 1
    BY <1>2
  <2>3. all = <<>> /\ Len(stream) = 0
    <3>1. all = <<>>
      BY <1>1, <1>2, EmptySeq, Zenon
    <3>2. QED
      BY <2>1, <2>2, <3>1, Zenon
  <2>4. QED
    BY <2>3
<1>3. CASE n # 0
  <2>1. all # <<>> /\ Head(all) = all[1] /\ 1 \in 1 .. n /\ all[1] \in LinkFrames /\ 1 + 1 = 2
    BY <1>1, <1>3
  <2>2. IsFrame(Head(all))
    BY <2>1, FrameIs, Zenon
  <2>3. PICK f, m : f = all[1] /\ m = Len(f)
    OBVIOUS
  <2>4. m \in Nat /\ m >= 3
    BY <2>1, <2>2, <2>3 DEF IsFrame
  <2>5. off[1] = 0 /\ off[2] = off[1] + m /\ \A i \in 1 .. m : stream[off[1] + i] = f[i]
    BY <1>1, <2>1, <2>3, Zenon DEF Lies
  <2>6. \A i \in 1 .. m : 0 + i = i
    OBVIOUS
  <2>7. \A i \in 1 .. m : stream[i] = f[i]
    BY <2>5, <2>6, Zenon
  <2>8. m <= Len(stream)
    <3>1. n + 1 \in 1 .. n + 1 /\ 2 \in 1 .. n + 1
      BY <1>3
    <3>2. off[2] \in Nat /\ off[2] <= off[n + 1] /\ off[n + 1] = Len(stream)
      <4>1. off[2] \in Nat /\ off[2] <= off[n + 1]
        BY <1>1, <3>1, OffsetsGrow, Zenon
      <4>2. off[n + 1] = Len(stream)
        BY <1>1, Zenon DEF Lies
      <4>3. off[n + 1] \in Nat
        BY <4>2
      <4>4. QED
        BY <4>1, <4>2, <4>3, Zenon
    <3>3. QED
      BY <2>4, <2>5, <3>2
  <2>9. m <= Len(stream) /\ stream # <<>>
    BY <2>4, <2>8
  <2>10. QED
    BY <2>1, <2>2, <2>3, <2>7, <2>9, Zenon
<1>4. QED
  BY <1>2, <1>3

LEMMA NoFrames == \E off : Lies(<<>>, <<>>, off)
<1>1. Lies(<<>>, <<>>, [k \in 1 .. 1 |-> 0])
  BY DEF Lies
<1>2. QED
  BY <1>1, Zenon

\* A frame that is written is put behind the others.
LEMMA LiesMore ==
  ASSUME NEW stream \in Seq(Int), NEW all \in Seq(LinkFrames), NEW f \in LinkFrames,
         NEW off, Lies(stream, all, off)
  PROVE  \E o : Lies(stream \o f, Append(all, f), o)
<1>1. PICK n \in Nat : n = Len(all)
  OBVIOUS
<1>2. PICK s \in Nat : s = Len(stream)
  OBVIOUS
<1>3. IsFrame(f)
  BY FrameIs
<1>4. PICK m \in Nat : m = Len(f)
  BY <1>3 DEF IsFrame
<1>5. /\ stream \o f \in Seq(Int) /\ Len(stream \o f) = s + m
      /\ \A i \in 1 .. s : (stream \o f)[i] = stream[i]
      /\ \A i \in 1 .. m : (stream \o f)[s + i] = f[i]
  <2>1. f \in Seq(Int)
    BY <1>3 DEF IsFrame
  <2>2. QED
    BY <1>2, <1>4, <2>1
<1>6. /\ Len(Append(all, f)) = n + 1 /\ Append(all, f)[n + 1] = f
      /\ \A k \in 1 .. n : Append(all, f)[k] = all[k]
  BY <1>1
<1> DEFINE o == [k \in 1 .. n + 2 |-> IF k = n + 2 THEN s + m ELSE off[k]]
<1>7. /\ off[1] = 0 /\ off[n + 1] = s /\ \A k \in 1 .. n + 1 : off[k] \in Nat
      /\ \A k \in 1 .. n : off[k + 1] = off[k] + Len(all[k])
      /\ \A k \in 1 .. n : \A i \in 1 .. Len(all[k]) : stream[off[k] + i] = all[k][i]
  BY <1>1, <1>2, Zenon DEF Lies
<1>8. o \in [1 .. n + 2 -> Nat] /\ o[1] = 0 /\ o[n + 2] = s + m /\ \A k \in 1 .. n + 1 : o[k] = off[k]
  <2>1. /\ 1 \in 1 .. n + 2 /\ 1 # n + 2 /\ n + 2 \in 1 .. n + 2 /\ s + m \in Nat
        /\ \A k \in 1 .. n + 1 : k \in 1 .. n + 2 /\ k # n + 2
        /\ \A k \in 1 .. n + 2 : k # n + 2 => k \in 1 .. n + 1
    OBVIOUS
  <2>2. QED
    BY <1>7, <2>1, Zenon
<1> HIDE DEF o
<1>9. ASSUME NEW k \in 1 .. n + 1
      PROVE  /\ o[k + 1] = o[k] + Len(Append(all, f)[k])
             /\ \A i \in 1 .. Len(Append(all, f)[k]) : (stream \o f)[o[k] + i] = Append(all, f)[k][i]
  <2>1. CASE k = n + 1
    <3>1. k + 1 = n + 2 /\ n + 1 \in 1 .. n + 1
      BY <2>1
    <3>2. o[k + 1] = s + m /\ o[k] = s /\ Append(all, f)[k] = f
      BY <1>6, <1>7, <1>8, <2>1, <3>1, Zenon
    <3>3. QED
      BY <1>4, <1>5, <3>2, Zenon
  <2>2. CASE k # n + 1
    <3>1. k \in 1 .. n /\ k + 1 \in 1 .. n + 1
      BY <2>2
    <3>2. o[k + 1] = off[k + 1] /\ o[k] = off[k] /\ Append(all, f)[k] = all[k]
      BY <1>6, <1>8, <3>1, Zenon
    <3>3. PICK t : t = Len(all[k])
      OBVIOUS
    <3>4. t \in Nat
      <4>1. all[k] \in LinkFrames
        BY <1>1, <3>1
      <4>2. QED
        BY <3>3, <4>1, FrameIs DEF IsFrame
    <3>5. off[k] + t <= s /\ off[k] \in Nat
      <4>1. n + 1 \in 1 .. n + 1
        BY <3>1
      <4>2. off[k + 1] <= off[n + 1]
        BY <1>1, <3>1, <4>1, OffsetsGrow, Zenon
      <4>3. off[k] \in Nat
        BY <1>7, <3>1
      <4>4. QED
        BY <1>7, <3>1, <3>3, <4>2, <4>3, Zenon
    <3>6. \A i \in 1 .. t : off[k] + i \in 1 .. s
      BY <3>4, <3>5
    <3>7. \A i \in 1 .. t : (stream \o f)[off[k] + i] = all[k][i]
      BY <1>5, <1>7, <3>1, <3>3, <3>6, Zenon
    <3>8. QED
      BY <1>7, <3>1, <3>2, <3>3, <3>7, Zenon
  <2>3. QED
    BY <2>1, <2>2
<1>10. Lies(stream \o f, Append(all, f), o)
  <2>1. (n + 1) + 1 = n + 2
    OBVIOUS
  <2>2. QED
    BY <1>5, <1>6, <1>8, <1>9, <2>1, Zenon DEF Lies
<1>11. QED
  BY <1>10, Zenon

\* Without its first frame a stream is the other frames.
LEMMA LiesLess ==
  ASSUME NEW stream \in Seq(Int), NEW rest \in Seq(Int), NEW all \in Seq(LinkFrames), all # <<>>,
         NEW off, Lies(stream, all, off), Len(rest) = Len(stream) - Len(Head(all)),
         \A i \in 1 .. Len(rest) : rest[i] = stream[Len(Head(all)) + i]
  PROVE  \E o : Lies(rest, Tail(all), o)
<1>1. PICK n \in Nat : n = Len(all)
  OBVIOUS
<1>m. PICK m : m = Len(Head(all))
  OBVIOUS
<1>2. PICK s \in Nat, r \in Nat : s = Len(stream) /\ r = Len(rest)
  OBVIOUS
<1>3. n >= 1 /\ Head(all) = all[1] /\ all[1] \in LinkFrames
  BY <1>1
<1>4. m \in Nat
  BY <1>m, <1>3, FrameIs DEF IsFrame
<1>5. Tail(all) \in Seq(LinkFrames) /\ Len(Tail(all)) = n - 1 /\ \A k \in 1 .. n - 1 : Tail(all)[k] = all[k + 1]
  BY <1>1, <1>3
<1>6. /\ off[1] = 0 /\ off[n + 1] = s /\ \A k \in 1 .. n + 1 : off[k] \in Nat
      /\ \A k \in 1 .. n : off[k + 1] = off[k] + Len(all[k])
      /\ \A k \in 1 .. n : \A i \in 1 .. Len(all[k]) : stream[off[k] + i] = all[k][i]
  BY <1>1, <1>2, Zenon DEF Lies
<1>7. off[2] = m
  <2>1. 1 \in 1 .. n /\ 1 + 1 = 2 /\ 0 + m = m
    BY <1>3, <1>4
  <2>2. QED
    BY <1>m, <1>3, <1>6, <2>1, Zenon
<1>8. ASSUME NEW k \in 1 .. n PROVE off[k + 1] >= m /\ off[k + 1] \in Nat /\ off[k + 1] <= s
  <2>1. 2 \in 1 .. k + 1 /\ k + 1 \in 1 .. n + 1 /\ n + 1 \in 1 .. n + 1 /\ k + 1 \in 1 .. n + 1
    BY <1>3
  <2>2. off[2] <= off[k + 1] /\ off[k + 1] \in Nat
    BY <1>1, <2>1, OffsetsGrow, Zenon
  <2>3. off[k + 1] <= off[n + 1]
    BY <1>1, <2>1, OffsetsGrow, Zenon
  <2>4. QED
    BY <1>4, <1>6, <1>7, <2>2, <2>3
<1> DEFINE o == [k \in 1 .. n |-> off[k + 1] - m]
<1>9. ASSUME NEW k \in 1 .. n PROVE o[k] = off[k + 1] - m /\ o[k] \in Nat
  BY <1>4, <1>8
<1>10. o \in [1 .. n -> Nat]
  BY <1>9
<1> HIDE DEF o
<1>11. o[1] = 0 /\ o[n] = r
  <2>1. 1 \in 1 .. n /\ n \in 1 .. n /\ 1 + 1 = 2
    BY <1>3
  <2>2. o[1] = off[2] - m /\ o[n] = off[n + 1] - m
    BY <1>9, <2>1, Zenon
  <2>3. r = s - m
    BY <1>m, <1>2, Zenon
  <2>4. QED
    BY <1>4, <1>6, <1>7, <2>2, <2>3
<1>12. ASSUME NEW k \in 1 .. n - 1
       PROVE  /\ o[k + 1] = o[k] + Len(Tail(all)[k])
              /\ \A i \in 1 .. Len(Tail(all)[k]) : rest[o[k] + i] = Tail(all)[k][i]
  <2>1. k \in 1 .. n /\ k + 1 \in 1 .. n
    OBVIOUS
  <2>2. PICK t : t = Len(all[k + 1])
    OBVIOUS
  <2>3. t \in Nat
    <3>1. all[k + 1] \in LinkFrames
      BY <1>1, <2>1
    <3>2. QED
      BY <2>2, <3>1, FrameIs DEF IsFrame
  <2>4. /\ off[k + 1 + 1] = off[k + 1] + t /\ \A i \in 1 .. t : stream[off[k + 1] + i] = all[k + 1][i]
    BY <1>6, <2>1, <2>2, Zenon
  <2>5. PICK a, b, c, d : a = o[k] /\ b = o[k + 1] /\ c = off[k + 1] /\ d = off[k + 1 + 1]
    OBVIOUS
  <2>6. /\ a = c - m /\ b = d - m /\ d = c + t /\ c >= m /\ d <= s /\ c \in Nat /\ d \in Nat
    BY <1>8, <1>9, <2>1, <2>4, <2>5, Zenon
  <2>7. b = a + t /\ \A i \in 1 .. t : a + i \in 1 .. r /\ m + (a + i) = c + i
    <3>1. r = s - m
      BY <1>m, <1>2, Zenon
    <3>2. s \in Nat /\ r \in Nat
      OBVIOUS
    <3>3. QED
      BY ONLY <1>4, <2>3, <2>6, <3>1, <3>2
  <2>8. ASSUME NEW i \in 1 .. t PROVE rest[a + i] = all[k + 1][i]
    <3>1. a + i \in 1 .. Len(rest) /\ m + (a + i) = c + i
      BY <1>2, <2>7, Zenon
    <3>2. rest[a + i] = stream[c + i]
      BY <1>m, <3>1, Zenon
    <3>3. QED
      BY <2>4, <2>5, <3>2, Zenon
  <2>9. QED
    BY <1>5, <2>2, <2>5, <2>7, <2>8, Zenon
<1>13. Lies(rest, Tail(all), o)
  <2>1. (n - 1) + 1 = n
    OBVIOUS
  <2>2. QED
    BY <1>2, <1>5, <1>10, <1>11, <1>12, <2>1, Zenon DEF Lies
<1>14. QED
  BY <1>13, Zenon

-----------------------------------------------------------------------------
(***************************************************************************)
(* The stream of the frames is their concatenation.                        *)
(***************************************************************************)

\* The first bytes of a stream.
First(stream, count) == [i \in 1 .. count |-> stream[i]]

LEMMA FirstMore ==
  ASSUME NEW stream \in Seq(Int), NEW f \in Seq(Int), NEW m, m = Len(f),
         NEW count \in Nat, count + m <= Len(stream), \A i \in 1 .. m : stream[count + i] = f[i]
  PROVE  First(stream, count) \o f = First(stream, count + m)
<1>0. PICK s : s = Len(stream)
  OBVIOUS
<1>1. s \in Nat /\ m \in Nat /\ count + m \in Nat /\ count + m <= s
  BY <1>0
<1>2. ASSUME NEW n \in Nat, n <= s
      PROVE  First(stream, n) \in Seq(Int) /\ Len(First(stream, n)) = n /\ \A i \in 1 .. n : First(stream, n)[i] = stream[i]
  <2>1. \A i \in 1 .. n : stream[i] \in Int
    BY <1>0, <1>1, <1>2
  <2>2. QED
    BY <2>1 DEF First
<1>3. count <= s
  BY <1>1
<1> DEFINE a == First(stream, count)
           b == First(stream, count + m)
<1>4. a \in Seq(Int) /\ Len(a) = count /\ \A i \in 1 .. count : a[i] = stream[i]
  BY <1>2, <1>3, Zenon
<1>5. b \in Seq(Int) /\ Len(b) = count + m /\ \A i \in 1 .. count + m : b[i] = stream[i]
  BY <1>1, <1>2, Zenon
<1> HIDE DEF a, b
<1>6. /\ a \o f \in Seq(Int) /\ Len(a \o f) = Len(a) + Len(f)
      /\ \A i \in 1 .. Len(a) + Len(f) : (a \o f)[i] = IF i <= Len(a) THEN a[i] ELSE f[i - Len(a)]
  BY <1>4, ConcatProperties, Zenon
<1>7. a \o f \in Seq(Int) /\ Len(a \o f) = count + m
  BY <1>4, <1>6, Zenon
<1>8. \A i \in 1 .. count + m : (a \o f)[i] = IF i <= count THEN a[i] ELSE f[i - count]
  BY <1>4, <1>6, Zenon
<1>9. ASSUME NEW i \in 1 .. count + m PROVE (a \o f)[i] = b[i]
  <2>1. CASE i <= count
    <3>1. i \in 1 .. count
      BY <2>1
    <3>2. QED
      BY <1>4, <1>5, <1>8, <2>1, <3>1, Zenon
  <2>2. CASE ~(i <= count)
    <3>1. i - count \in 1 .. m /\ count + (i - count) = i
      BY <1>1, <2>2
    <3>2. (a \o f)[i] = f[i - count] /\ stream[count + (i - count)] = f[i - count]
      BY <1>8, <2>2, <3>1, Zenon
    <3>3. QED
      BY <1>5, <3>1, <3>2, Zenon
  <2>3. QED
    BY <2>1, <2>2
<1>10. a \o f = b
  BY <1>5, <1>7, <1>9, SeqEqual, Zenon
<1>11. QED
  BY <1>10 DEF a, b

\* The frames joined, one after the other.
Joins(f, all) == f = [i \in 1 .. Len(all) |-> IF i = 1 THEN all[i] ELSE f[i - 1] \o all[i]]
JoinsTo(f, all, n) == f[1] = all[1] /\ \A i \in 2 .. n : f[i] = f[i - 1] \o all[i]

LEMMA JoinsAre ==
  ASSUME NEW all, NEW n \in Nat \ {0}, n = Len(all), NEW f, Joins(f, all)
  PROVE  JoinsTo(f, all, n)
<1>1. 1 \in 1 .. n /\ \A i \in 2 .. n : i \in 1 .. n /\ i # 1
  OBVIOUS
<1>2. QED
  BY <1>1, Zenon DEF Joins, JoinsTo

LEMMA OneJoin ==
  ASSUME NEW all, NEW n \in Nat \ {0}, NEW f, NEW g, JoinsTo(f, all, n), JoinsTo(g, all, n)
  PROVE  f[n] = g[n]
<1> DEFINE Bad == {i \in 1 .. n : f[i] # g[i]}
<1>1. SUFFICES ASSUME Bad # {} PROVE FALSE
  <2>1. n \in 1 .. n
    OBVIOUS
  <2>2. QED
    BY <2>1, Zenon
<1>2. Bad \in SUBSET Nat
  OBVIOUS
<1>3. PICK i \in Bad : \A k \in Bad : i <= k
  BY <1>1, <1>2, CP!LeastOf
<1>4. i # 1
  BY <1>3, Zenon DEF JoinsTo
<1>5. i \in 2 .. n /\ i - 1 \in 1 .. n /\ ~(i <= i - 1)
  BY <1>3, <1>4
<1>6. f[i - 1] = g[i - 1]
  BY <1>3, <1>5, Zenon
<1>7. f[i] = g[i]
  BY <1>5, <1>6, Zenon DEF JoinsTo
<1>8. QED
  BY <1>3, <1>7

LEMMA FlattenIs ==
  ASSUME NEW stream \in Seq(Int), NEW all \in Seq(LinkFrames), NEW off, Lies(stream, all, off)
  PROVE  H!FlattenSeq(all) = stream
<1>1. PICK n \in Nat, s \in Nat : n = Len(all) /\ s = Len(stream)
  OBVIOUS
<1>2. CASE n = 0
  <2>1. all = <<>>
    BY <1>1, <1>2, EmptySeq, Zenon
  <2>2. stream = <<>>
    BY <2>1, FirstOfStream, Zenon
  <2>3. H!FlattenSeq(all) = all
    BY <1>1, <1>2, Zenon DEF H!FlattenSeq
  <2>4. QED
    BY <2>1, <2>2, <2>3, Zenon
<1>3. CASE n # 0
  <2> DEFINE flatten == CHOOSE f : Joins(f, all)
             upTo == [i \in 1 .. n |-> First(stream, off[i + 1])]
  <2>1. H!FlattenSeq(all) = flatten[n]
    BY <1>1, <1>3, Zenon DEF H!FlattenSeq, Joins
  <2>2. /\ off[1] = 0 /\ off[n + 1] = s
        /\ \A k \in 1 .. n : off[k + 1] = off[k] + Len(all[k])
        /\ \A k \in 1 .. n : \A i \in 1 .. Len(all[k]) : stream[off[k] + i] = all[k][i]
    BY <1>1, Zenon DEF Lies
  <2>3. ASSUME NEW k \in 1 .. n
        PROVE  /\ off[k] \in Nat /\ all[k] \in Seq(Int) /\ First(stream, off[k]) \o all[k] = First(stream, off[k + 1])
    <3>1. k \in 1 .. n + 1 /\ k + 1 \in 1 .. n + 1 /\ n + 1 \in 1 .. n + 1 /\ all[k] \in LinkFrames
      BY <1>1
    <3>2. off[k] \in Nat /\ off[k + 1] <= off[n + 1]
      <4>1. k + 1 \in 1 .. n + 1 /\ k \in 1 .. k + 1
        OBVIOUS
      <4>2. off[k + 1] <= off[n + 1]
        BY <1>1, <3>1, OffsetsGrow, Zenon
      <4>3. off[k] \in Nat
        BY <1>1, <3>1, <4>1, OffsetsGrow, Zenon
      <4>4. QED
        BY <4>2, <4>3
    <3>3. all[k] \in Seq(Int)
      BY <3>1, FrameIs DEF IsFrame
    <3>4. PICK m : m = Len(all[k])
      OBVIOUS
    <3>5. off[k] + m <= s /\ off[k + 1] = off[k] + m /\ \A i \in 1 .. m : stream[off[k] + i] = all[k][i]
      BY <2>2, <3>2, <3>4, Zenon
    <3>6. First(stream, off[k]) \o all[k] = First(stream, off[k] + m)
      <4>1. PICK c, f : c = off[k] /\ f = all[k]
        OBVIOUS
      <4>2. c \in Nat /\ f \in Seq(Int) /\ m = Len(f) /\ c + m <= Len(stream) /\ \A i \in 1 .. m : stream[c + i] = f[i]
        BY <1>1, <3>2, <3>3, <3>4, <3>5, <4>1, Zenon
      <4>3. stream \in Seq(Int)
        OBVIOUS
      <4>4. First(stream, c) \o f = First(stream, c + m)
        BY ONLY <4>2, <4>3, FirstMore
      <4>5. QED
        BY <4>1, <4>4, Zenon
    <3>7. QED
      BY <3>2, <3>3, <3>5, <3>6, Zenon
  <2>4. upTo[1] = all[1]
    <3>1. 1 \in 1 .. n /\ upTo[1] = First(stream, off[1 + 1])
      BY <1>3
    <3>2. First(stream, off[1]) = <<>>
      BY <2>2 DEF First
    <3>3. <<>> \o all[1] = all[1]
      BY <2>3, <3>1, ConcatEmptySeq, Zenon
    <3>4. QED
      BY <2>3, <3>1, <3>2, <3>3, Zenon
  <2>5. ASSUME NEW i \in 2 .. n PROVE upTo[i] = upTo[i - 1] \o all[i]
    <3>1. i \in 1 .. n /\ i - 1 \in 1 .. n /\ i - 1 + 1 = i
      OBVIOUS
    <3>2. upTo[i] = First(stream, off[i + 1]) /\ upTo[i - 1] = First(stream, off[i])
      BY <3>1, Zenon
    <3>3. QED
      BY <2>3, <3>1, <3>2, Zenon
  <2>6. upTo = [i \in 1 .. n |-> upTo[i]]
    BY Zenon
  <2>7. n \in 1 .. n /\ upTo[n] = First(stream, off[n + 1])
    BY <1>3
  <2> HIDE DEF upTo
  <2>8. \A i \in 1 .. n : upTo[i] = IF i = 1 THEN all[i] ELSE upTo[i - 1] \o all[i]
    <3>1. ASSUME NEW i \in 1 .. n PROVE upTo[i] = IF i = 1 THEN all[i] ELSE upTo[i - 1] \o all[i]
      <4>1. CASE i = 1
        BY <2>4, <4>1, Zenon
      <4>2. CASE i # 1
        <5>1. i \in 2 .. n
          BY <4>2
        <5>2. QED
          BY <2>5, <4>2, <5>1, Zenon
      <4>3. QED
        BY <4>1, <4>2
    <3>2. QED
      BY <3>1
  <2>9. Joins(upTo, all)
    BY <1>1, <2>6, <2>8, Zenon DEF Joins
  <2>10. Joins(flatten, all)
    BY <2>9, Zenon
  <2> HIDE DEF flatten
  <2>11. flatten[n] = upTo[n]
    BY <1>1, <1>3, <2>9, <2>10, JoinsAre, OneJoin, Zenon
  <2>12. First(stream, s) = stream
    BY <1>1 DEF First
  <2>13. QED
    BY <2>1, <2>2, <2>7, <2>11, <2>12, Zenon
<1>4. QED
  BY <1>2, <1>3

-----------------------------------------------------------------------------
(***************************************************************************)
(* HostLink, step by step.                                                 *)
(***************************************************************************)

LEMMA LinkInit == ASSUME H!Init PROVE LinkInv
<1>1. /\ line = <<>> /\ m_ptr = 0 /\ m_buffer = <<>> /\ unhandled = <<>> /\ ~overrun
  BY Zenon DEF H!Init
<1>2. <<>> \in Seq(LinkFrames) /\ <<>> \in Seq(Int) /\ 0 \in Nat /\ Len(<<>>) = 0 /\ <<>> \o <<>> = <<>> /\ ~(0 > 0)
  OBVIOUS
<1>3. LinkTypes
  BY <1>1, <1>2, Zenon DEF LinkTypes
<1>4. LinkPlace
  BY <1>1, <1>2, NoFrames, Zenon DEF LinkPlace, Stream
<1>5. QED
  BY <1>1, <1>3, <1>4, Zenon DEF LinkInv

\* What the next byte of line l is, that is put behind those in buffer b.
NextByte(b, l, c, s) ==
  /\ Tail(l) \in Seq(Int) /\ Append(b, c) \in Seq(Int) /\ Len(Append(b, c)) = Len(b) + 1
  /\ Append(b, c) \o Tail(l) = s /\ s[Len(b) + 1] = c
  /\ Len(Tail(l)) = Len(s) - (Len(b) + 1) /\ Len(b) + 1 <= Len(s)
  /\ \A i \in 1 .. Len(Tail(l)) : Tail(l)[i] = s[Len(b) + 1 + i]

LEMMA OneByte ==
  ASSUME NEW b \in Seq(Int), NEW l \in Seq(Int), l # <<>>
  PROVE  NextByte(b, l, Head(l), b \o l)
<1> DEFINE p == Len(b)
<1>p. p = Len(b) /\ p \in Nat
  OBVIOUS
<1> HIDE DEF p
<1>0. PICK n \in Nat : n = Len(l)
  OBVIOUS
<1>1. PICK t, c, a : n = Len(l) /\ t = Tail(l) /\ c = Head(l) /\ a = Append(b, Head(l))
  BY <1>0
<1>2. p \in Nat /\ n >= 1
  BY <1>1, <1>p
<1>3. t \in Seq(Int) /\ Len(t) = n - 1 /\ c = l[1] /\ c \in Int /\ \A i \in 1 .. n - 1 : t[i] = l[i + 1]
  BY <1>1, <1>2
<1>4. a \in Seq(Int) /\ Len(a) = p + 1 /\ a[p + 1] = c /\ \A i \in 1 .. p : a[i] = b[i]
  BY <1>p, <1>1, <1>2, <1>3
<1> DEFINE s == b \o l
           u == a \o t
<1>5. s \in Seq(Int) /\ Len(s) = p + n /\ \A i \in 1 .. p + n : s[i] = IF i <= p THEN b[i] ELSE l[i - p]
  <2>1. /\ b \o l \in Seq(Int) /\ Len(b \o l) = Len(b) + Len(l)
        /\ \A i \in 1 .. Len(b) + Len(l) : (b \o l)[i] = IF i <= Len(b) THEN b[i] ELSE l[i - Len(b)]
    BY ConcatProperties, Zenon
  <2>2. QED
    BY <1>p, <1>1, <2>1, Zenon
<1>6. u \in Seq(Int) /\ Len(u) = (p + 1) + (n - 1)
      /\ \A i \in 1 .. (p + 1) + (n - 1) : u[i] = IF i <= p + 1 THEN a[i] ELSE t[i - (p + 1)]
  <2>1. /\ a \o t \in Seq(Int) /\ Len(a \o t) = Len(a) + Len(t)
        /\ \A i \in 1 .. Len(a) + Len(t) : (a \o t)[i] = IF i <= Len(a) THEN a[i] ELSE t[i - Len(a)]
    BY <1>3, <1>4, ConcatProperties, Zenon
  <2>2. QED
    BY <1>3, <1>4, <2>1, Zenon
<1> HIDE DEF s, u
<1>7. Len(u) = p + n
  BY <1>2, <1>6
<1>8. ASSUME NEW i \in 1 .. p + n PROVE u[i] = s[i]
  <2>0. i \in 1 .. (p + 1) + (n - 1)
    BY <1>2
  <2>1. CASE i <= p
    <3>1. i \in 1 .. p /\ i <= p + 1
      BY <1>2, <2>1
    <3>2. QED
      BY <1>4, <1>5, <1>6, <2>0, <2>1, <3>1, Zenon
  <2>2. CASE i = p + 1
    <3>1. ~(i <= p) /\ i <= p + 1 /\ i - p = 1
      BY <1>2, <2>2
    <3>2. u[i] = c /\ s[i] = l[1]
      BY <1>4, <1>5, <1>6, <2>0, <2>2, <3>1, Zenon
    <3>3. QED
      BY <1>3, <3>2, Zenon
  <2>3. CASE i > p + 1
    <3>1. ~(i <= p) /\ ~(i <= p + 1) /\ i - (p + 1) \in 1 .. n - 1 /\ i - (p + 1) + 1 = i - p
      BY <1>2, <2>3
    <3>2. u[i] = t[i - (p + 1)] /\ s[i] = l[i - p]
      BY <1>5, <1>6, <2>0, <3>1, Zenon
    <3>3. QED
      BY <1>3, <3>1, <3>2, Zenon
  <2>4. QED
    BY <1>2, <2>1, <2>2, <2>3
<1>9. u = s
  BY <1>5, <1>6, <1>7, <1>8, SeqEqual, Zenon
<1>10. s[p + 1] = c
  <2>1. p + 1 \in 1 .. p + n /\ ~(p + 1 <= p) /\ p + 1 - p = 1
    BY <1>2
  <2>2. \A j \in 1 .. p + n : ~(j <= p) => s[j] = l[j - p]
    BY <1>5, Zenon
  <2>3. QED
    BY <1>2, <1>3, <2>1, <2>2
<1>11. ASSUME NEW i \in 1 .. n - 1 PROVE t[i] = s[p + 1 + i]
  <2>1. PICK k : k = p + 1 + i
    OBVIOUS
  <2>2. k \in 1 .. p + n /\ ~(k <= p) /\ k - p = i + 1
    BY <1>2, <2>1
  <2>3. s[k] = l[k - p]
    BY <1>5, <2>2, Zenon
  <2>4. QED
    BY <1>3, <2>1, <2>2, <2>3, Zenon
<1>12. n - 1 = p + n - (p + 1) /\ p + 1 <= p + n
  BY <1>2
<1>13. s = b \o l /\ u = a \o t
  BY DEF s, u
<1>14. /\ t \in Seq(Int) /\ a \in Seq(Int) /\ Len(a) = p + 1 /\ u = s /\ s[p + 1] = c
       /\ Len(t) = Len(s) - (p + 1) /\ p + 1 <= Len(s)
       /\ \A i \in 1 .. Len(t) : t[i] = s[p + 1 + i]
  <2>1. Len(t) = Len(s) - (p + 1) /\ p + 1 <= Len(s)
    <3>1. Len(s) = p + n /\ Len(t) = n - 1
      BY <1>3, <1>5, Zenon
    <3>2. QED
      BY <1>2, <1>12, <3>1
  <2>2. \A i \in 1 .. Len(t) : t[i] = s[p + 1 + i]
    BY <1>3, <1>11, Zenon
  <2>3. QED
    BY <1>3, <1>4, <1>9, <1>10, <2>1, <2>2, Zenon
<1>15. QED
  <2>1. /\ Append(b, Head(l)) \o Tail(l) = u /\ b \o l = s
    BY <1>1, <1>13, Zenon
  <2>2. NextByte(b, l, c, s)
    <3>1. p = Len(b) /\ a = Append(b, c) /\ t = Tail(l) /\ a \o t = s
      BY <1>p, <1>1, <1>13, <1>14, Zenon
    <3>2. QED
      BY <1>14, <3>1, Zenon DEF NextByte
  <2>3. QED
    BY <1>1, <2>1, <2>2, Zenon

LEMMA StreamIs ==
  ASSUME LinkTypes
  PROVE  Stream \in Seq(Int) /\ Len(Stream) = m_ptr + Len(line) /\ \A i \in 1 .. m_ptr : Stream[i] = m_buffer[i]
<1>1. m_buffer \in Seq(Int) /\ line \in Seq(Int) /\ Len(m_buffer) = m_ptr
  BY Zenon DEF LinkTypes
<1>2. QED
  BY <1>1, Headed, Zenon DEF Stream

\* In step, some of a frame is there, and the frame is the first one.
LEMMA FirstFrame ==
  ASSUME LinkTypes, LinkPlace, Stream # <<>>
  PROVE  /\ unhandled # <<>> /\ IsFrame(Head(unhandled))
         /\ Len(Head(unhandled)) <= Len(Stream) /\ \A i \in 1 .. Len(Head(unhandled)) : Stream[i] = Head(unhandled)[i]
<1>1. Stream \in Seq(Int) /\ unhandled \in Seq(LinkFrames)
  BY StreamIs, Zenon DEF LinkTypes
<1>2. PICK off : Lies(Stream, unhandled, off)
  BY Zenon DEF LinkPlace
<1>3. QED
  BY <1>1, <1>2, FirstOfStream, Zenon

LEMMA LinkWrite ==
  ASSUME LinkInv, NEW size, NEW long, H!Write(size, long),
         (size \in ShortSizes /\ long = FALSE) \/ (size \in LongSizes /\ long = TRUE)
  PROVE  LinkInv'
<1>1. PICK f \in H!Frames(size, long) : line' = line \o f /\ unhandled' = Append(unhandled, f)
  BY Zenon DEF H!Write
<1>2. /\ m_ptr' = m_ptr /\ m_len' = m_len /\ m_dblFrame' = m_dblFrame /\ m_buffer' = m_buffer
      /\ inStep' = inStep /\ overrun' = overrun
  BY Zenon DEF H!Write, H!parser
<1>3. f \in LinkFrames
  <2>1. f \in ShortFrames \/ f \in LongFrames
    BY Zenon DEF ShortFrames, LongFrames
  <2>2. QED
    BY <2>1 DEF LinkFrames
<1>4. f \in Seq(Int)
  BY <1>3, FrameIs DEF IsFrame
<1>5. LinkTypes
  BY Zenon DEF LinkInv
<1>6. unhandled \in Seq(LinkFrames) /\ line \in Seq(Int) /\ m_buffer \in Seq(Int)
  BY <1>5, Zenon DEF LinkTypes
<1>7. line \o f \in Seq(Int) /\ Append(unhandled, f) \in Seq(LinkFrames)
  BY <1>3, <1>4, <1>6
<1>8. LinkTypes'
  BY <1>1, <1>2, <1>5, <1>7, Zenon DEF LinkTypes
<1>9. ASSUME LinkPlace PROVE LinkPlace'
  <2>1. PICK off : Lies(Stream, unhandled, off)
    BY <1>9, Zenon DEF LinkPlace
  <2>2. Stream \in Seq(Int)
    BY <1>5, StreamIs, Zenon
  <2>3. \E o : Lies(Stream \o f, Append(unhandled, f), o)
    BY <1>3, <1>6, <2>1, <2>2, LiesMore, Zenon
  <2>4. Stream \o f = m_buffer \o (line \o f)
    <3>1. (m_buffer \o line) \o f = m_buffer \o (line \o f)
      BY <1>4, <1>6, ConcatAssociative
    <3>2. QED
      BY <3>1, Zenon DEF Stream
  <2>5. \E o : Lies(Stream', unhandled', o)
    BY <1>1, <1>2, <2>3, <2>4, Zenon DEF Stream
  <2>6. ASSUME m_ptr > 0 PROVE unhandled' # <<>> /\ LinkReads(Head(unhandled))'
    <3>1. unhandled # <<>> /\ LinkReads(Head(unhandled))
      BY <1>9, <2>6, Zenon DEF LinkPlace
    <3>2. Append(unhandled, f) # <<>> /\ Head(Append(unhandled, f)) = Head(unhandled)
      BY <1>3, <1>6, <3>1
    <3>3. unhandled' # <<>> /\ Head(unhandled') = Head(unhandled)
      BY <1>1, <3>2, Zenon
    <3>4. QED
      BY <1>2, <3>1, <3>3, Zenon DEF LinkReads
  <2>7. QED
    BY <1>2, <2>5, <2>6, Zenon DEF LinkPlace
<1>10. QED
  BY <1>2, <1>8, <1>9, Zenon DEF LinkInv

\* Nothing is left of what was written, and the parser is at rest.
LEMMA LinkEmpty ==
  ASSUME m_ptr' = 0, m_buffer' = <<>>, line' = <<>>, unhandled' = <<>>, inStep' => ~overrun'
  PROVE  LinkInv'
<1>1. <<>> \in Seq(LinkFrames) /\ <<>> \in Seq(Int) /\ 0 \in Nat /\ Len(<<>>) = 0 /\ <<>> \o <<>> = <<>> /\ ~(0 > 0)
  OBVIOUS
<1>2. LinkTypes'
  BY <1>1, Zenon DEF LinkTypes
<1>3. LinkPlace'
  BY <1>1, NoFrames, Zenon DEF LinkPlace, Stream
<1>4. QED
  BY <1>2, <1>3, Zenon DEF LinkInv

LEMMA LinkHostStops == ASSUME LinkInv, H!HostStops PROVE LinkInv'
<1>1. /\ line' = <<>> /\ unhandled' = <<>> /\ m_ptr' = m_ptr /\ m_buffer' = m_buffer
      /\ inStep' = (inStep /\ m_ptr = 0 /\ H!FlattenSeq(unhandled) = line) /\ overrun' = overrun
      /\ inStep => ~overrun
  BY Zenon DEF H!HostStops, H!parser, LinkInv
<1>2. LinkTypes /\ m_buffer \in Seq(Int) /\ m_ptr \in Nat /\ Len(m_buffer) = m_ptr
  BY Zenon DEF LinkInv, LinkTypes
<1>3. LinkTypes'
  <2>1. <<>> \in Seq(LinkFrames) /\ <<>> \in Seq(Int)
    OBVIOUS
  <2>2. QED
    BY <1>1, <1>2, <2>1, Zenon DEF LinkTypes
<1>4. CASE m_ptr = 0
  <2>1. m_buffer = <<>>
    BY <1>2, <1>4, EmptySeq, Zenon
  <2>2. QED
    BY <1>1, <1>4, <2>1, LinkEmpty, Zenon
<1>5. CASE m_ptr # 0
  BY <1>1, <1>3, <1>5, Zenon DEF LinkInv
<1>6. QED
  BY <1>4, <1>5

LEMMA LinkRestart == ASSUME LinkInv, H!Restart PROVE LinkInv'
<1>1. /\ line' = line /\ m_ptr' = 0 /\ m_buffer' = <<>> /\ inStep' = (line = <<>> /\ ~overrun) /\ overrun' = overrun
      /\ unhandled' = IF line = <<>> THEN <<>> ELSE unhandled
  BY Zenon DEF H!Restart
<1>2. unhandled \in Seq(LinkFrames) /\ line \in Seq(Int)
  BY Zenon DEF LinkInv, LinkTypes
<1>3. CASE line = <<>>
  BY <1>1, <1>3, LinkEmpty, Zenon
<1>4. CASE line # <<>>
  <2>1. <<>> \in Seq(Int) /\ Len(<<>>) = 0 /\ 0 \in Nat
    OBVIOUS
  <2>2. LinkTypes'
    BY <1>1, <1>2, <1>4, <2>1, Zenon DEF LinkTypes
  <2>3. QED
    BY <1>1, <1>4, <2>2, Zenon DEF LinkInv
<1>5. QED
  BY <1>3, <1>4

-----------------------------------------------------------------------------
(***************************************************************************)
(* HostLink: SerialPort::process() reads a byte.                           *)
(***************************************************************************)

\* What is taken from the line.
LEMMA Byte ==
  ASSUME LinkTypes, line # <<>>, NEW c, c = Head(line)
  PROVE  /\ Tail(line) \in Seq(Int) /\ Append(m_buffer, c) \in Seq(Int) /\ Len(Append(m_buffer, c)) = m_ptr + 1
         /\ Append(m_buffer, c) \o Tail(line) = Stream /\ Stream[m_ptr + 1] = c /\ Stream # <<>>
         /\ Len(Tail(line)) = Len(Stream) - (m_ptr + 1) /\ m_ptr + 1 <= Len(Stream)
         /\ \A i \in 1 .. Len(Tail(line)) : Tail(line)[i] = Stream[m_ptr + 1 + i]
<1>1. line \in Seq(Int) /\ m_buffer \in Seq(Int) /\ m_ptr \in Nat /\ Len(m_buffer) = m_ptr
  BY Zenon DEF LinkTypes
<1>2. /\ Tail(line) \in Seq(Int) /\ Append(m_buffer, c) \in Seq(Int) /\ Len(Append(m_buffer, c)) = m_ptr + 1
      /\ Append(m_buffer, c) \o Tail(line) = Stream /\ Stream[m_ptr + 1] = c
      /\ Len(Tail(line)) = Len(Stream) - (m_ptr + 1) /\ m_ptr + 1 <= Len(Stream)
      /\ \A i \in 1 .. Len(Tail(line)) : Tail(line)[i] = Stream[m_ptr + 1 + i]
  <2>1. NextByte(m_buffer, line, c, Stream)
    BY <1>1, OneByte, Zenon DEF Stream
  <2>2. QED
    BY <1>1, <2>1, Zenon DEF NextByte
<1>3. Stream # <<>>
  BY <1>1, <1>2
<1>4. QED
  BY <1>2, <1>3, Zenon

\* A byte of the first frame is put into the buffer.
LEMMA LinkTakes ==
  ASSUME LinkInv, line # <<>>, line' = Tail(line), m_ptr' = m_ptr + 1, m_buffer' = Append(m_buffer, Head(line)),
         unhandled' = unhandled, inStep' = inStep, overrun' = overrun,
         /\ LinkPlace /\ IsFrame(Head(unhandled))
         /\ m_ptr + 1 <= Len(Head(unhandled)) /\ Head(line) = Head(unhandled)[m_ptr + 1]
         => LinkReads(Head(unhandled))'
  PROVE  LinkInv'
<1>1. LinkTypes /\ m_ptr \in Nat
  BY Zenon DEF LinkInv, LinkTypes
<1>2. PICK c : c = Head(line)
  OBVIOUS
<1>3. Append(m_buffer, c) \in Seq(Int) /\ Len(Append(m_buffer, c)) = m_ptr + 1 /\ Tail(line) \in Seq(Int)
      /\ Append(m_buffer, c) \o Tail(line) = Stream /\ Stream[m_ptr + 1] = c /\ Stream # <<>>
  BY <1>1, <1>2, Byte, Zenon
<1>4. LinkTypes'
  <2>1. m_ptr + 1 \in Nat
    BY <1>1
  <2>2. QED
    BY <1>1, <1>2, <1>3, <2>1, Zenon DEF LinkTypes
<1>5. ASSUME LinkPlace PROVE LinkPlace'
  <2>1. /\ unhandled # <<>> /\ IsFrame(Head(unhandled)) /\ \A i \in 1 .. Len(Head(unhandled)) : Stream[i] = Head(unhandled)[i]
    BY <1>1, <1>3, <1>5, FirstFrame, Zenon
  <2>2. PICK f : f = Head(unhandled)
    OBVIOUS
  <2>3. Len(f) \in Nat /\ Len(f) >= 3
    BY <2>1, <2>2, LenProperties DEF IsFrame
  <2>4. m_ptr > 0 => m_ptr < Len(f)
    BY <1>5, <2>2, Zenon DEF LinkPlace, LinkReads
  <2>5. m_ptr + 1 \in 1 .. Len(f) /\ m_ptr + 1 <= Len(f)
    BY <1>1, <2>3, <2>4
  <2>6. Head(line) = f[m_ptr + 1]
    BY <1>2, <1>3, <2>1, <2>2, <2>5, Zenon
  <2>7. LinkReads(Head(unhandled))'
    BY <1>5, <2>1, <2>2, <2>5, <2>6, Zenon
  <2>8. Stream' = Stream
    BY <1>2, <1>3, Zenon DEF Stream
  <2>9. \E off : Lies(Stream', unhandled', off)
    BY <1>5, <2>8, Zenon DEF LinkPlace
  <2>10. QED
    BY <2>1, <2>7, <2>9, Zenon DEF LinkPlace
<1>6. QED
  BY <1>4, <1>5, Zenon DEF LinkInv

\* The bytes that are of no frame are passed over, and there are none in step.
LEMMA LinkReadStart == ASSUME LinkInv, line # <<>>, line' = Tail(line), UNCHANGED <<inStep, overrun>>, H!ReadStart(Head(line)) PROVE LinkInv'
<1>1. PICK c, start : c = Head(line) /\ start = (c \in {H!SHORT_START, H!LONG_START})
  OBVIOUS
<1>2. /\ m_ptr = 0 /\ unhandled' = unhandled /\ (m_dblFrame' <=> c = H!LONG_START)
      /\ c \in {H!SHORT_START, H!LONG_START} => m_ptr' = 1 /\ m_buffer' = <<c>>
      /\ c \notin {H!SHORT_START, H!LONG_START} => m_ptr' = 0 /\ m_buffer' = <<>>
  BY <1>1, Zenon DEF H!ReadStart
<1>3. LinkTypes /\ m_buffer \in Seq(Int) /\ Len(m_buffer) = m_ptr
  BY Zenon DEF LinkInv, LinkTypes
<1>4. m_buffer = <<>> /\ 0 + 1 = 1
  <2>1. m_buffer = <<>>
    BY <1>2, <1>3, EmptySeq, Zenon
  <2>2. QED
    BY <2>1
<1>5. CASE c \in {H!SHORT_START, H!LONG_START}
  <2>1. Append(<<>>, c) = <<c>>
    OBVIOUS
  <2>2. m_buffer' = Append(m_buffer, Head(line)) /\ m_ptr' = m_ptr + 1
    BY <1>1, <1>2, <1>4, <1>5, <2>1, Zenon
  <2>3. ASSUME LinkPlace, IsFrame(Head(unhandled)), Head(line) = Head(unhandled)[m_ptr + 1]
        PROVE  LinkReads(Head(unhandled))'
    <3>1. PICK f : f = Head(unhandled)
      OBVIOUS
    <3>2. c = f[1] /\ unhandled' = unhandled
      BY <1>1, <1>2, <1>4, <2>3, <3>1, Zenon
    <3>3. 1 < Len(f)
      BY <2>3, <3>1, LenProperties DEF IsFrame
    <3>4. 1 # 2 /\ ~(1 > 2)
      OBVIOUS
    <3>5. m_ptr' = 1
      BY <1>2, <1>5, Zenon
    <3>6. QED
      BY <1>2, <3>1, <3>2, <3>3, <3>4, <3>5, Zenon DEF LinkReads
  <2>4. QED
    BY <1>2, <2>2, <2>3, LinkTakes, Zenon
<1>6. CASE c \notin {H!SHORT_START, H!LONG_START}
  <2>1. ~LinkPlace
    <3>1. SUFFICES ASSUME LinkPlace PROVE FALSE
      OBVIOUS
    <3>2. Stream # <<>> /\ Stream[m_ptr + 1] = c
      BY <1>1, <1>3, Byte, Zenon
    <3>3. PICK f : f = Head(unhandled)
      OBVIOUS
    <3>4. IsFrame(f) /\ \A i \in 1 .. Len(f) : Stream[i] = f[i]
      BY <1>3, <3>1, <3>2, <3>3, FirstFrame, Zenon
    <3>5. 1 \in 1 .. Len(f) /\ f[1] \in {H!SHORT_START, H!LONG_START}
      BY <3>4, LenProperties DEF IsFrame
    <3>6. Stream[1] = c
      BY <1>2, <1>4, <3>2, Zenon
    <3>7. QED
      BY <1>6, <3>4, <3>5, <3>6, Zenon
  <2>2. <<>> \in Seq(Int) /\ Len(<<>>) = 0 /\ 0 \in Nat
    OBVIOUS
  <2>3. Tail(line) \in Seq(Int)
    BY <1>1, <1>3, Byte, Zenon
  <2>4. LinkTypes'
    BY <1>2, <1>3, <1>6, <2>2, <2>3, Zenon DEF LinkTypes
  <2>5. QED
    BY <2>1, <2>4, Zenon DEF LinkInv
<1>7. QED
  BY <1>5, <1>6

LEMMA LinkReadLength == ASSUME LinkInv, line # <<>>, line' = Tail(line), UNCHANGED <<inStep, overrun>>, H!ReadLength(Head(line)) PROVE LinkInv'
<1>1. /\ m_ptr = 1 /\ m_ptr' = 2 /\ m_len' = Head(line) /\ m_buffer' = Append(m_buffer, Head(line))
      /\ m_dblFrame' = m_dblFrame /\ unhandled' = unhandled
  BY Zenon DEF H!ReadLength
<1>2. 1 + 1 = 2 /\ 1 > 0 /\ ~(2 > 2)
  OBVIOUS
<1>3. ASSUME LinkPlace, IsFrame(Head(unhandled)), Head(line) = Head(unhandled)[m_ptr + 1]
      PROVE  LinkReads(Head(unhandled))'
  <2>1. PICK f : f = Head(unhandled)
    OBVIOUS
  <2>2. m_dblFrame <=> f[1] = H!LONG_START
    BY <1>1, <1>2, <1>3, <2>1, Zenon DEF LinkPlace, LinkReads
  <2>3. m_len' = f[2]
    BY <1>1, <1>2, <1>3, <2>1, Zenon
  <2>4. 2 < Len(f)
    BY <1>3, <2>1, LenProperties DEF IsFrame
  <2>5. QED
    BY <1>1, <1>2, <2>1, <2>2, <2>3, <2>4, Zenon DEF LinkReads
<1>4. m_ptr' = m_ptr + 1
  BY <1>1, <1>2, Zenon
<1>5. QED
  BY <1>1, <1>3, <1>4, LinkTakes, Zenon

LEMMA LinkReadLengthLow ==
  ASSUME LinkInv, line # <<>>, line' = Tail(line), UNCHANGED <<inStep, overrun>>, H!ReadLengthLow(Head(line)) PROVE LinkInv'
<1>1. /\ m_ptr = 2 /\ m_dblFrame /\ m_ptr' = 3 /\ m_len' = H!LongLength(m_len, Head(line))
      /\ m_buffer' = Append(m_buffer, Head(line)) /\ m_dblFrame' = m_dblFrame /\ unhandled' = unhandled
  BY Zenon DEF H!ReadLengthLow
<1>2. 2 + 1 = 3 /\ 2 > 0 /\ 3 # 2
  OBVIOUS
<1>3. ASSUME LinkPlace, IsFrame(Head(unhandled)), Head(line) = Head(unhandled)[m_ptr + 1]
      PROVE  LinkReads(Head(unhandled))'
  <2>1. PICK f : f = Head(unhandled)
    OBVIOUS
  <2>2. f[1] = H!LONG_START /\ m_len = f[2]
    BY <1>1, <1>2, <1>3, <2>1, Zenon DEF LinkPlace, LinkReads
  <2>3. Head(line) = f[3]
    BY <1>1, <1>2, <1>3, <2>1, Zenon
  <2>4. m_len' = Len(f)
    BY <1>1, <1>3, <2>1, <2>2, <2>3, Zenon DEF IsFrame
  <2>5. 3 < Len(f)
    BY <1>3, <2>1, <2>2, LenProperties DEF IsFrame
  <2>6. QED
    BY <1>1, <1>2, <2>1, <2>2, <2>4, <2>5, Zenon DEF LinkReads
<1>4. m_ptr' = m_ptr + 1
  BY <1>1, <1>2, Zenon
<1>5. QED
  BY <1>1, <1>3, <1>4, LinkTakes, Zenon

\* The last byte of a frame is the one its length names.
LEMMA LinkReadBody == ASSUME LinkInv, line # <<>>, line' = Tail(line), UNCHANGED <<inStep, overrun>>, H!ReadBody(Head(line)) PROVE LinkInv'
<1>1. /\ m_ptr > 2 \/ (m_ptr = 2 /\ ~m_dblFrame)
      /\ m_ptr + 1 = m_len => m_ptr' = 0 /\ m_buffer' = <<>> /\ unhandled' = IF unhandled = <<>> THEN <<>> ELSE Tail(unhandled)
      /\ m_ptr + 1 # m_len => /\ m_ptr' = m_ptr + 1 /\ m_buffer' = Append(m_buffer, Head(line)) /\ m_len' = m_len
                              /\ m_dblFrame' = m_dblFrame /\ unhandled' = unhandled
  BY Zenon DEF H!ReadBody, H!InBody
<1>2. LinkTypes /\ m_ptr \in Nat /\ unhandled \in Seq(LinkFrames)
  BY Zenon DEF LinkInv, LinkTypes
<1>3. m_ptr > 0 /\ m_ptr + 1 > 2 /\ m_ptr + 1 # 2
  BY <1>1, <1>2
<1>4. ASSUME LinkPlace
      PROVE  /\ unhandled # <<>> /\ m_len = Len(Head(unhandled)) /\ m_ptr < Len(Head(unhandled))
             /\ IsFrame(Head(unhandled))
  <2>1. unhandled # <<>> /\ LinkReads(Head(unhandled))
    BY <1>3, <1>4, Zenon DEF LinkPlace
  <2>2. IsFrame(Head(unhandled))
    BY <1>2, <1>4, Byte, FirstFrame, Zenon
  <2>3. CASE m_ptr > 2
    BY <2>1, <2>2, <2>3, Zenon DEF LinkReads
  <2>4. CASE m_ptr = 2 /\ ~m_dblFrame
    BY <2>1, <2>2, <2>4, Zenon DEF LinkReads, IsFrame
  <2>5. QED
    BY <1>1, <2>3, <2>4
<1>5. CASE m_ptr + 1 = m_len
  <2>1. <<>> \in Seq(Int) /\ Len(<<>>) = 0 /\ 0 \in Nat /\ <<>> \in Seq(LinkFrames) /\ ~(0 > 0)
    OBVIOUS
  <2>2. unhandled # <<>> => Tail(unhandled) \in Seq(LinkFrames)
    BY <1>2
  <2>3. /\ Tail(line) \in Seq(Int) /\ Len(Tail(line)) = Len(Stream) - (m_ptr + 1)
        /\ \A i \in 1 .. Len(Tail(line)) : Tail(line)[i] = Stream[m_ptr + 1 + i]
    BY <1>2, Byte, Zenon
  <2>4. LinkTypes'
    <3>1. unhandled' \in Seq(LinkFrames)
      BY <1>1, <1>5, <2>1, <2>2, Zenon
    <3>2. QED
      BY <1>1, <1>5, <2>1, <2>3, <3>1, Zenon DEF LinkTypes
  <2>5. ASSUME LinkPlace PROVE LinkPlace'
    <3>1. unhandled # <<>> /\ m_ptr + 1 = Len(Head(unhandled))
      BY <1>4, <1>5, <2>5, Zenon
    <3>2. PICK off : Lies(Stream, unhandled, off)
      BY <2>5, Zenon DEF LinkPlace
    <3>4. Stream \in Seq(Int)
      BY <1>2, StreamIs, Zenon
    <3>5. /\ Len(Tail(line)) = Len(Stream) - Len(Head(unhandled))
          /\ \A i \in 1 .. Len(Tail(line)) : Tail(line)[i] = Stream[Len(Head(unhandled)) + i]
      BY <2>3, <3>1, Zenon
    <3>6. \E o : Lies(Tail(line), Tail(unhandled), o)
      BY <1>2, <2>3, <3>1, <3>2, <3>4, <3>5, LiesLess, Zenon
    <3>7. <<>> \o Tail(line) = Tail(line)
      BY <2>3, ConcatEmptySeq, Zenon
    <3>8. Stream' = Tail(line) /\ unhandled' = Tail(unhandled)
      BY <1>1, <1>5, <3>1, <3>7, Zenon DEF Stream
    <3>9. QED
      BY <1>1, <1>5, <2>1, <3>6, <3>8, Zenon DEF LinkPlace
  <2>6. QED
    BY <2>4, <2>5, Zenon DEF LinkInv
<1>6. CASE m_ptr + 1 # m_len
  <2>1. ASSUME LinkPlace, IsFrame(Head(unhandled)), m_ptr + 1 <= Len(Head(unhandled))
        PROVE  LinkReads(Head(unhandled))'
    <3>1. PICK f : f = Head(unhandled)
      OBVIOUS
    <3>2. m_len = Len(f) /\ (m_dblFrame <=> f[1] = H!LONG_START)
      BY <1>3, <1>4, <2>1, <3>1, Zenon DEF LinkPlace, LinkReads
    <3>3. m_ptr + 1 < Len(f)
      <4>1. PICK l \in Nat : l = Len(f)
        BY <2>1, <3>1, LenProperties DEF IsFrame
      <4>2. m_ptr + 1 # l /\ m_ptr + 1 <= l
        BY <1>6, <2>1, <3>1, <3>2, <4>1, Zenon
      <4>3. m_ptr + 1 < l
        BY <1>2, <4>2
      <4>4. QED
        BY <4>1, <4>3, Zenon
    <3>4. QED
      BY <1>1, <1>3, <1>6, <3>1, <3>2, <3>3, Zenon DEF LinkReads
  <2>2. QED
    BY <1>1, <1>6, <2>1, LinkTakes, Zenon
<1>7. QED
  BY <1>5, <1>6

\* Behind the buffer a parser is out of step: a frame ends before.
LEMMA LinkReadBehind ==
  ASSUME LinkInv, line # <<>>, line' = Tail(line), inStep' = inStep, H!ReadBehind
  PROVE  LinkInv'
<1>1. /\ m_ptr > 2 \/ (m_ptr = 2 /\ ~m_dblFrame)
      /\ m_ptr >= BufferLen /\ m_ptr' \in 0 .. BufferLen /\ m_buffer' = SubSeq(m_buffer, 1, m_ptr')
      /\ unhandled' = unhandled
  BY Zenon DEF H!ReadBehind, H!InBody
<1>2. /\ LinkTypes /\ m_ptr \in Nat /\ m_buffer \in Seq(Int) /\ Len(m_buffer) = m_ptr
      /\ unhandled \in Seq(LinkFrames)
  BY Zenon DEF LinkInv, LinkTypes
<1>3. LinkTypes'
  <2>1. m_ptr' \in Nat /\ m_ptr' <= m_ptr
    BY <1>1, <1>2, LinkConstants
  <2>2. \A n \in Nat : n <= m_ptr => SubSeq(m_buffer, 1, n) \in Seq(Int) /\ Len(SubSeq(m_buffer, 1, n)) = n
    BY <1>2
  <2>3. m_buffer' \in Seq(Int) /\ Len(m_buffer') = m_ptr'
    BY <1>1, <2>1, <2>2, Zenon
  <2>4. Tail(line) \in Seq(Int)
    BY <1>2, Byte, Zenon
  <2>5. QED
    BY <1>1, <1>2, <2>1, <2>3, <2>4, Zenon DEF LinkTypes
<1>4. ~LinkPlace
  <2>1. SUFFICES ASSUME LinkPlace PROVE FALSE
    OBVIOUS
  <2>2. IsFrame(Head(unhandled))
    BY <1>2, <2>1, Byte, FirstFrame, Zenon
  <2>3. m_ptr > 0
    BY <1>1, <1>2
  <2>4. m_ptr < Len(Head(unhandled))
    BY <2>1, <2>3, Zenon DEF LinkPlace, LinkReads
  <2>5. PICK n : n = Len(Head(unhandled))
    OBVIOUS
  <2>6. n \in Nat /\ n <= BufferLen /\ m_ptr < n
    BY <2>2, <2>4, <2>5, LenProperties DEF IsFrame
  <2>7. QED
    BY <1>1, <1>2, <2>6, LinkConstants
<1>5. QED
  BY <1>3, <1>4, Zenon DEF LinkInv

LEMMA LinkStep == ASSUME LinkInv, H!Next PROVE LinkInv'
<1>1. CASE \E size \in ShortSizes : H!Write(size, FALSE)
  BY <1>1, LinkWrite, Zenon
<1>2. CASE \E size \in LongSizes : H!Write(size, TRUE)
  BY <1>2, LinkWrite, Zenon
<1>3. CASE H!HostStops
  BY <1>3, LinkHostStops, Zenon
<1>4. CASE H!Read
  <2>1. line # <<>> /\ line' = Tail(line) /\ inStep' = inStep
    BY <1>4, Zenon DEF H!Read
  <2>2. CASE H!ReadStart(Head(line)) /\ overrun' = overrun
    BY <2>1, <2>2, LinkReadStart, Zenon
  <2>3. CASE H!ReadLength(Head(line)) /\ overrun' = overrun
    BY <2>1, <2>3, LinkReadLength, Zenon
  <2>4. CASE H!ReadLengthLow(Head(line)) /\ overrun' = overrun
    BY <2>1, <2>4, LinkReadLengthLow, Zenon
  <2>5. CASE H!ReadBody(Head(line)) /\ overrun' = overrun
    BY <2>1, <2>5, LinkReadBody, Zenon
  <2>6. CASE H!ReadBehind
    BY <2>1, <2>6, LinkReadBehind, Zenon
  <2>7. QED
    BY <1>4, <2>2, <2>3, <2>4, <2>5, <2>6, Zenon DEF H!Read
<1>5. CASE H!Restart
  BY <1>5, LinkRestart, Zenon
<1>6. QED
  BY <1>1, <1>2, <1>3, <1>4, <1>5, Zenon DEF H!Next

LEMMA LinkSame == ASSUME LinkInv, UNCHANGED linkVars PROVE LinkInv'
  BY Zenon DEF LinkInv, LinkTypes, LinkPlace, LinkReads, Stream, linkVars

LEMMA LinkKeeps == ASSUME LinkInv PROVE H!FramesFound
<1>1. SUFFICES ASSUME inStep PROVE /\ ~overrun /\ m_buffer \o line = H!FlattenSeq(unhandled) /\ Len(m_buffer) = m_ptr
                                   /\ m_ptr > 0 => m_ptr < Len(Head(unhandled))
  BY Zenon DEF H!FramesFound
<1>2. LinkTypes /\ LinkPlace /\ ~overrun /\ unhandled \in Seq(LinkFrames) /\ Len(m_buffer) = m_ptr
  BY <1>1, Zenon DEF LinkInv, LinkTypes
<1>3. PICK off : Lies(Stream, unhandled, off)
  BY <1>2, Zenon DEF LinkPlace
<1>4. Stream \in Seq(Int)
  BY <1>2, StreamIs, Zenon
<1>5. H!FlattenSeq(unhandled) = Stream
  BY <1>2, <1>3, <1>4, FlattenIs, Zenon
<1>6. m_ptr > 0 => m_ptr < Len(Head(unhandled))
  BY <1>2, Zenon DEF LinkPlace, LinkReads
<1>7. QED
  BY <1>2, <1>5, <1>6, Zenon DEF Stream

-----------------------------------------------------------------------------
(***************************************************************************)
(* HostReplies: a command and the byte that names it.  A report the        *)
(* receivers make is never refused, so that the byte is still there when   *)
(* it is answered.                                                         *)
(***************************************************************************)

\* A reply that carries this length, and its bytes, in an array of this room.
Told(field, length, room) ==
  IF length > 256 THEN length = field + 4 /\ length <= room + 4 ELSE length = field /\ length <= room

Found(x) == Told(x.field, x.sent, x.room)
Named(x) == x.asked \notin {A!None, A!LongData} => x.names = x.asked

ReplyInv ==
  /\ pending \notin {A!None, A!LongData} => third = pending
  /\ Found(reply) /\ Named(reply)

\* The commands of the reports.
DmrData == "CMD_DMR_DATA"
NxdnData == "CMD_NXDN_DATA"
RssiData == "CMD_RSSI_DATA"
P25Data == "CMD_P25_DATA"

LEMMA ReplyKeeps ==
  ASSUME NEW f, NEW s, NEW r, NEW n, NEW a, Told(f, s, r), a \in {A!None, A!LongData} \/ n = a
  PROVE  Found(A!Reply(f, s, r, n, a)) /\ Named(A!Reply(f, s, r, n, a))
<1> DEFINE x == A!Reply(f, s, r, n, a)
<1>1. x.field = f /\ x.sent = s /\ x.room = r /\ x.names = n /\ x.asked = a
  BY DEF A!Reply
<1> HIDE DEF x
<1>2. Found(x)
  BY <1>1, Zenon DEF Found
<1>3. Named(x)
  BY <1>1, Zenon DEF Named
<1>4. QED
  BY <1>2, <1>3 DEF x

\* A report of this length is within these bounds, and its length in one byte or in two.
Within(length, framing, limit) == length + framing <= limit
InOne(length, room) == Told((length + 3) % 256, length + 3, room)
InTwo(length, room) == Told(length + 4, length + 8, room)

LEMMA ReportPlaced ==
  /\ \A length \in {34, 36} : Within(length, 3, 40) /\ InOne(length, 40)
  /\ \A length \in {49, 51} : Within(length, 3, 130) /\ InOne(length, 130)
  /\ Within(6, 3, 130) /\ InOne(6, 30)
  /\ \A length \in {19, 46, 55, 100, 217} : Within(length, 4, 520) /\ InOne(length, 520) /\ ~(length >= 252)
  /\ Within(513, 4, 520) /\ InTwo(513, 520) /\ 513 >= 252
  BY DEF Within, InOne, InTwo, Told

LEMMA ReportFits ==
  ASSUME NEW r \in Reports
  PROVE  /\ Within(r[2], A!Framing(r[1]), A!Limit(r[1]))
         /\ IF A!IsLong(r[1], r[2]) THEN InTwo(r[2], A!Room(r[1])) ELSE InOne(r[2], A!Room(r[1]))
<1>1. Reports = ({DmrData} \X {34, 36}) \cup ({NxdnData} \X {49, 51}) \cup {<<RssiData, 6>>}
                \cup ({P25Data} \X {19, 46, 55, 100, 217, 513})
  BY Zenon DEF Reports, DmrData, NxdnData, RssiData, P25Data
<1>2. \/ r[1] = DmrData /\ r[2] \in {34, 36}
      \/ r[1] = NxdnData /\ r[2] \in {49, 51}
      \/ r[1] = RssiData /\ r[2] = 6
      \/ r[1] = P25Data /\ r[2] \in {19, 46, 55, 100, 217}
      \/ r[1] = P25Data /\ r[2] = 513
  BY <1>1
<1>3. /\ A!Limit(DmrData) = 40 /\ A!Limit(NxdnData) = 130 /\ A!Limit(RssiData) = 130 /\ A!Limit(P25Data) = 520
      /\ A!Framing(DmrData) = 3 /\ A!Framing(NxdnData) = 3 /\ A!Framing(RssiData) = 3 /\ A!Framing(P25Data) = 4
      /\ RssiData # DmrData /\ RssiData # NxdnData /\ RssiData # P25Data
      /\ P25Data # DmrData /\ P25Data # NxdnData /\ P25Data # RssiData
  BY Zenon DEF A!Limit, A!Framing, DmrData, NxdnData, RssiData, P25Data
<1>4. A!Room(DmrData) = 40 /\ A!Room(NxdnData) = 130 /\ A!Room(RssiData) = 30 /\ A!Room(P25Data) = 520
  BY <1>3, Zenon DEF A!Room, RssiData
<1>5. /\ \A length : ~A!IsLong(DmrData, length) /\ ~A!IsLong(NxdnData, length) /\ ~A!IsLong(RssiData, length)
      /\ \A length : A!IsLong(P25Data, length) <=> length >= 252
  BY <1>3, Zenon DEF A!IsLong, P25Data
<1>6. CASE r[1] = DmrData /\ r[2] \in {34, 36}
  BY <1>3, <1>4, <1>5, <1>6, ReportPlaced
<1>7. CASE r[1] = NxdnData /\ r[2] \in {49, 51}
  BY <1>3, <1>4, <1>5, <1>7, ReportPlaced
<1>8. CASE r[1] = RssiData /\ r[2] = 6
  BY <1>3, <1>4, <1>5, <1>8, ReportPlaced
<1>9. CASE r[1] = P25Data /\ r[2] \in {19, 46, 55, 100, 217}
  BY <1>3, <1>4, <1>5, <1>9, ReportPlaced
<1>10. CASE r[1] = P25Data /\ r[2] = 513
  BY <1>3, <1>4, <1>5, <1>10, ReportPlaced
<1>11. QED
  BY <1>2, <1>6, <1>7, <1>8, <1>9, <1>10, Zenon

LEMMA ReplyInit == ASSUME A!Init PROVE ReplyInv
<1>1. pending = A!None /\ reply = A!Nothing
  BY Zenon DEF A!Init
<1>2. Found(reply) /\ Named(reply)
  <2>1. Told(0, 0, 0)
    BY DEF Told
  <2>2. QED
    BY <1>1, <2>1, ReplyKeeps, Zenon DEF A!Nothing
<1>3. QED
  BY <1>1, <1>2, Zenon DEF ReplyInv

\* Answers of fixed lengths, the versions, and the debug messages.
LEMMA ReplySizes ==
  /\ Told(4, 4, 4) /\ Told(5, 5, 5) /\ Told(12, 12, 15) /\ Told(3, 3, 3) /\ Told(0, 0, 0)
  /\ \A name \in {0, 75, 83} : /\ Told((21 + name) % A!Byte, (21 + name) % A!Byte, 200)
                              /\ Told((3 + name) % A!Byte, (3 + name) % A!Byte, 130)
  BY DEF A!Byte, Told

LEMMA ReplyHandle == ASSUME ReplyInv, A!Handle PROVE ReplyInv'
<1>1. pending # A!None /\ reply' \in A!Answers /\ pending' = A!None /\ third' = third
  BY Zenon DEF A!Handle
<1>2. CASE pending = A!LongData
  <2>1. reply' = A!Reply(5, 5, 5, third, pending)
    BY <1>1, <1>2, Zenon DEF A!Answers, A!Nak
  <2>2. Found(reply') /\ Named(reply')
    BY <1>2, <2>1, ReplySizes, ReplyKeeps, Zenon
  <2>3. QED
    BY <1>1, <2>2, Zenon DEF ReplyInv, Found, Named
<1>3. CASE pending # A!LongData
  <2>1. third = pending
    BY <1>1, <1>3, Zenon DEF ReplyInv
  <2>2. \/ reply' = A!Reply(4, 4, 4, third, pending) \/ reply' = A!Reply(5, 5, 5, third, pending)
        \/ reply' = A!Status \/ reply' = A!Nothing \/ \E name \in {0, 75, 83} : reply' = A!Version(name)
    BY <1>1, <1>3, Zenon DEF A!Answers, A!Ack, A!Nak
  <2>3. ASSUME reply' = A!Reply(4, 4, 4, third, pending) \/ reply' = A!Reply(5, 5, 5, third, pending)
        PROVE  Found(reply') /\ Named(reply')
    BY <2>1, <2>3, ReplySizes, ReplyKeeps, Zenon
  <2>4. ASSUME reply' = A!Status \/ reply' = A!Nothing PROVE Found(reply') /\ Named(reply')
    BY <2>4, ReplySizes, ReplyKeeps, Zenon DEF A!Status, A!Nothing
  <2>5. ASSUME NEW name \in {0, 75, 83}, reply' = A!Version(name) PROVE Found(reply') /\ Named(reply')
    <3>1. PICK size : size = (21 + name) % A!Byte /\ reply' = A!Reply(size, size, 200, A!None, A!None)
      BY <2>5, Zenon DEF A!Version
    <3>2. PICK room : room = 200
      OBVIOUS
    <3>3. Told(size, size, room)
      BY <3>1, <3>2, ReplySizes
    <3>4. reply' = A!Reply(size, size, room, A!None, A!None)
      BY <3>1, <3>2
    <3>5. QED
      BY <3>3, <3>4, ReplyKeeps, Zenon
  <2>6. Found(reply') /\ Named(reply')
    BY <2>2, <2>3, <2>4, <2>5, Zenon
  <2>7. QED
    BY <1>1, <2>6, Zenon DEF ReplyInv, Found, Named
<1>4. QED
  BY <1>2, <1>3

LEMMA ReplyReport == ASSUME ReplyInv, NEW r \in Reports, A!Report(r[1], r[2]) PROVE ReplyInv'
<1>1. PICK l, c : l = r[2] /\ c = r[1]
  OBVIOUS
<1>2. Within(l, A!Framing(c), A!Limit(c)) /\ IF A!IsLong(c, l) THEN InTwo(l, A!Room(c)) ELSE InOne(l, A!Room(c))
  BY <1>1, ReportFits, Zenon
<1>3. A!Fits(c, l)
  BY <1>2, Zenon DEF A!Fits, Within
<1>4. /\ pending' = pending /\ third' = third
      /\ reply' = IF A!IsLong(c, l) THEN A!Reply(l + 4, l + 8, A!Room(c), A!None, A!None)
                   ELSE A!Reply((l + 3) % A!Byte, l + 3, A!Room(c), A!None, A!None)
  BY <1>1, <1>3, Zenon DEF A!Report
<1>5. CASE A!IsLong(c, l)
  <2>1. Told(l + 4, l + 8, A!Room(c))
    BY <1>2, <1>5, Zenon DEF InTwo
  <2>2. Found(reply') /\ Named(reply')
    BY <1>4, <1>5, <2>1, ReplyKeeps, Zenon
  <2>3. QED
    BY <1>4, <2>2, Zenon DEF ReplyInv, Found, Named
<1>6. CASE ~A!IsLong(c, l)
  <2>1. Told((l + 3) % A!Byte, l + 3, A!Room(c))
    BY <1>2, <1>6, Zenon DEF InOne, A!Byte
  <2>2. Found(reply') /\ Named(reply')
    BY <1>4, <1>6, <2>1, ReplyKeeps, Zenon
  <2>3. QED
    BY <1>4, <2>2, Zenon DEF ReplyInv, Found, Named
<1>7. QED
  BY <1>5, <1>6

LEMMA ReplyStep == ASSUME ReplyInv, A!Next PROVE ReplyInv'
<1>1. CASE \E c \in {"CMD_SET_MODE", "CMD_P25_DATA"} \cup {A!LongData} : A!ReadThird(c)
  <2>1. PICK c : pending' = c /\ third' = (IF c = A!LongData THEN A!LengthLow ELSE c) /\ reply' = A!Nothing
    BY <1>1, Zenon DEF A!ReadThird
  <2>2. Found(reply') /\ Named(reply')
    BY <2>1, ReplySizes, ReplyKeeps, Zenon DEF A!Nothing
  <2>3. QED
    BY <2>1, <2>2, Zenon DEF ReplyInv, Found, Named
<1>2. CASE A!Handle
  BY <1>2, ReplyHandle, Zenon
<1>3. CASE A!Restart
  <2>1. pending' = A!None /\ third' = third /\ reply' = A!Nothing
    BY <1>3, Zenon DEF A!Restart
  <2>2. Found(reply') /\ Named(reply')
    BY <2>1, ReplySizes, ReplyKeeps, Zenon DEF A!Nothing
  <2>3. QED
    BY <2>1, <2>2, Zenon DEF ReplyInv, Found, Named
<1>4. CASE A!Lost
  <2>1. pending' = pending /\ third' = third /\ reply' = A!Reply(3, 3, 3, A!None, A!None)
    BY <1>4, Zenon DEF A!Lost
  <2>2. Found(reply') /\ Named(reply')
    BY <2>1, ReplySizes, ReplyKeeps, Zenon
  <2>3. QED
    BY <2>1, <2>2, Zenon DEF ReplyInv, Found, Named
<1>5. CASE \E r \in Reports : A!Report(r[1], r[2])
  BY <1>5, ReplyReport, Zenon
<1>6. CASE \E text \in {0, 75, 83} : A!Debug(text)
  <2>1. PICK text \in {0, 75, 83} : /\ pending' = pending /\ third' = third
          /\ reply' = A!Reply((3 + text) % A!Byte, (3 + text) % A!Byte, 130, A!None, A!None)
    BY <1>6, Zenon DEF A!Debug
  <2>2. Found(reply') /\ Named(reply')
    <3>1. PICK size, room : size = (3 + text) % A!Byte /\ room = 130
      OBVIOUS
    <3>2. Told(size, size, room)
      BY <3>1, ReplySizes
    <3>3. reply' = A!Reply(size, size, room, A!None, A!None)
      BY <2>1, <3>1
    <3>4. QED
      BY <3>2, <3>3, ReplyKeeps, Zenon
  <2>3. QED
    BY <2>1, <2>2, Zenon DEF ReplyInv, Found, Named
<1>7. QED
  BY <1>1, <1>2, <1>3, <1>4, <1>5, <1>6, Zenon DEF A!Next

LEMMA ReplySame == ASSUME ReplyInv, UNCHANGED replyVars PROVE ReplyInv'
  BY Zenon DEF ReplyInv, Found, Named, replyVars

LEMMA RepliesKeep == ASSUME ReplyInv PROVE A!RepliesFound /\ A!AnswersName
  BY Zenon DEF ReplyInv, Found, Told, Named, A!RepliesFound, A!IsLongReply, A!AnswersName, A!Byte

-----------------------------------------------------------------------------
(***************************************************************************)
(* The three hold in every part, since no other part touches what they are *)
(* about.                                                                  *)
(***************************************************************************)

HostInv == RssiInv /\ LinkInv /\ ReplyInv

LEMMA HostBegins == Init => HostInv
  BY RssiInit, LinkInit, ReplyInit, Zenon DEF Init, HostInv

LEMMA HostGoesOn == ASSUME HostInv, [Next]_vars PROVE HostInv'
<1>1. RssiInv /\ LinkInv /\ ReplyInv
  BY Zenon DEF HostInv
<1>2. CASE NextRssi
  <2>1. Q!Next /\ UNCHANGED linkVars /\ UNCHANGED replyVars
    BY <1>2, Zenon DEF NextRssi, hostVars
  <2>2. QED
    BY <1>1, <2>1, RssiStep, LinkSame, ReplySame, Zenon DEF HostInv
<1>3. CASE NextLink
  <2>1. H!Next /\ UNCHANGED rssiVars /\ UNCHANGED replyVars
    BY <1>3, Zenon DEF NextLink, SignalsStay
  <2>2. QED
    BY <1>1, <2>1, RssiSame, LinkStep, ReplySame, Zenon DEF HostInv
<1>4. CASE NextReplies
  <2>1. A!Next /\ UNCHANGED rssiVars /\ UNCHANGED linkVars
    BY <1>4, Zenon DEF NextReplies, SignalsStay
  <2>2. QED
    BY <1>1, <2>1, RssiSame, LinkSame, ReplyStep, Zenon DEF HostInv
<1>5. CASE UNCHANGED <<rssiVars, hostVars>>
  <2>1. UNCHANGED rssiVars /\ UNCHANGED linkVars /\ UNCHANGED replyVars
    BY <1>5, Zenon DEF hostVars
  <2>2. QED
    BY <1>1, <2>1, RssiSame, LinkSame, ReplySame, Zenon DEF HostInv
<1>6. CASE \/ NextNxdn \/ NextP25 \/ NextDmr \/ NextDmo \/ NextSync \/ NextIdle
           \/ NextChannel \/ NextBudget \/ NextTuning
  <2>1. UNCHANGED <<rssiVars, hostVars>>
    BY <1>6, Zenon DEF NextNxdn, NextP25, NextDmr, NextDmo, NextSync, NextIdle, NextChannel, NextBudget, NextTuning
  <2>2. QED
    BY <1>5, <2>1
<1>7. CASE UNCHANGED vars
  <2>1. UNCHANGED <<rssiVars, hostVars>>
    BY <1>7, Zenon DEF vars
  <2>2. QED
    BY <1>5, <2>1
<1>8. QED
  BY <1>2, <1>3, <1>4, <1>6, <1>7, Zenon DEF Next

\* SerialPort: while process() is in step, what it has read of a frame and what is still on
\* the line are the frames the host wrote, whatever their bytes, and it stays in its buffer;
\* a reply is as long as it says and fits its array, but for a long P25 frame, which is four
\* bytes longer; and an answer names the command it answers.  CalRSSI: a report is of the
\* samples since the one before.
THEOREM FramesAreFound == Spec => []FramesFound
<1>1. Init => HostInv
  BY HostBegins
<1>2. HostInv /\ [Next]_vars => HostInv'
  BY HostGoesOn
<1>3. HostInv => FramesFound
  BY LinkKeeps, RepliesKeep, Zenon DEF HostInv, FramesFound, RssiInv
<1>4. QED
  BY <1>1, <1>2, <1>3, PTL DEF Spec

=============================================================================
