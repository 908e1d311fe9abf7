-------------------------------- MODULE Symbols ----------------------------------
(***************************************************************************)
(* The levels of the symbols: what an engine writes for two bits, and what *)
(* a receiver reads of the samples.  A receiver takes the levels of a sync *)
(* (all of whose symbols are outer ones) or of a whole frame and reads     *)
(* with the average of the last few; P25RX and NXDNRX keep sixteen of      *)
(* frames, DMRSlotRX and DMRDMORX four of syncs, DMRIdleRX the last sync's.*)
(* Filters and interpolation are left out, as are the places of the        *)
(* samples; a sample is the level of a symbol through the channel.         *)
(***************************************************************************)
EXTENDS Integers, FiniteSets, FiniteSetsExt

CONSTANTS
  Averages,   \* of a receiver, the number of levels it keeps: 16 or 4 in the code
  Channels,   \* records of gain, in sixteenths, and offset
  Noises,     \* functions from bit pairs to what is added
  Adjusts     \* pairs: level3Adj and level1Adj, bytes with a sign

SymbolsAssumption ==
  /\ \A m \in DOMAIN Averages : Averages[m] \in Nat \ {0}
  /\ \A c \in Channels : c.gain \in 1..32
  /\ \A a \in Adjusts : a[1] \in -128..127 /\ a[2] \in -128..127

VARIABLES
  mode,          \* the receiver, and with it the engine
  adjust,        \* m_symLevel3Adj and m_symLevel1Adj
  channel,
  locked,
  m_averagePtr,  \* the next of the levels, NOAVEPTR when there are none
  levels,        \* m_centre and m_threshold
  current,       \* m_centreVal and m_thresholdVal
  read,          \* of the last frame: pairs of bits sent and bits read
  stale          \* how many of the levels kept are of another channel

symbolsVars == <<mode, adjust, channel, locked, m_averagePtr, levels, current, read, stale>>

NOAVEPTR == 99
Modes == DOMAIN Averages
ByFrames == {"P25", "NXDN"}

Dibits == {<<1, 1>>, <<1, 0>>, <<0, 0>>, <<0, 1>>}
Outer == {<<1, 1>>, <<0, 1>>}

\* The range check of a byte with a sign: nothing is out of it.
setSymbolLvlAdj(level) == IF level > 128 \/ level < -128 THEN 0 ELSE level

Level(a, b, bits) ==
  LET outer == a + setSymbolLvlAdj(adjust[1])
      inner == b + setSymbolLvlAdj(adjust[2])
  IN CASE bits = <<1, 1>> -> outer [] bits = <<1, 0>> -> inner
       [] bits = <<0, 0>> -> -inner [] bits = <<0, 1>> -> -outer

writeByteDMR(bits)  == Level(1362, 454, bits)
writeByteDMO(bits)  == Level(1362, 454, bits)
writeByteP25(bits)  == Level(1220, 410, bits)
writeByteNXDN(bits) == Level(735, 245, bits)

writeByte(bits) ==
  CASE mode = "DMR" -> writeByteDMR(bits) [] mode \in {"DMO", "idle"} -> writeByteDMO(bits)
    [] mode = "P25" -> writeByteP25(bits) [] mode = "NXDN" -> writeByteNXDN(bits)

\* A level of 128 for the transmitter and for the receiver.
Scaled(sample) == (sample * 128 * 128) \div 2^15

Sample(bits, noise) ==
  Scaled((Scaled(writeByte(bits)) * channel.gain) \div 16 + channel.offset + noise[bits])

-----------------------------------------------------------------------------
Scaling == IF mode \in ByFrames THEN 18750 ELSE 19505

\* The levels of a sync.
correlateSync(samples) ==
  LET centre == (Max(samples) + Min(samples)) \div 2
  IN [centre |-> centre, threshold |-> ((Max(samples) - centre) * Scaling) \div 2^15]

\* The levels of a frame: between the symbols above and between those below.
calculateLevels(samples) ==
  LET above == {x \in samples : x > 0}
      below == {x \in samples : x <= 0}
      posThresh == (Max(above) + Min(above)) \div 2
      negThresh == (Max(below) + Min(below)) \div 2
      centre == (posThresh + negThresh) \div 2
  IN [centre |-> centre, threshold |-> posThresh - centre]

\* Mutant: the first level is put in its own place alone.
KeepFirstAlone(level) == [levels EXCEPT ![1] = level]

\* A level is put in the place of the oldest; the first in all places.
KeepFirst(level) == [i \in DOMAIN levels |-> level]

Keep(level) == [levels EXCEPT ![m_averagePtr + 1] = level]
Following == (m_averagePtr + 1) % Averages[mode]

\* A sum of sixteen bits.
Wrap(n) == ((n + 2^15) % 2^16) - 2^15
Average(kept) ==
  [part \in {"centre", "threshold"} |->
    Wrap(MapThenSumSet(LAMBDA i : kept[i][part], DOMAIN kept)) \div Averages[mode]]

samplesToBits(sample, level) ==
  LET x == sample - level.centre
  IN CASE x < -level.threshold -> <<0, 1>>
       [] x >= -level.threshold /\ x < 0 -> <<0, 0>>
       [] x >= 0 /\ x < level.threshold -> <<1, 0>>
       [] x >= 0 /\ x >= level.threshold -> <<1, 1>>

ReadWith(level, noise) == {<<bits, samplesToBits(Sample(bits, noise), level)>> : bits \in Dibits}

SyncLevels(noise) == correlateSync({Sample(bits, noise) : bits \in Outer})
FrameLevels(noise) == calculateLevels({Sample(bits, noise) : bits \in Dibits})

-----------------------------------------------------------------------------
Init ==
  /\ mode \in Modes
  /\ adjust \in Adjusts
  /\ channel \in Channels
  /\ locked = FALSE
  /\ m_averagePtr = NOAVEPTR
  /\ levels = [i \in 1..Averages[mode] |-> [centre |-> 0, threshold |-> 0]]
  /\ current = [centre |-> 0, threshold |-> 0]
  /\ read = {}
  /\ stale = 0

\* P25RX, NXDNRX: a sync that finds no levels sets those in use.
SyncOfFrames(noise) ==
  /\ mode \in ByFrames
  /\ ~locked
  /\ locked' = TRUE
  /\ current' = SyncLevels(noise)
  /\ stale' = 0
  /\ read' = {}
  /\ UNCHANGED <<channel, m_averagePtr, levels>>

\* A burst of DMRSlotRX or DMRDMORX begins a call, or goes on with it, and is read with the
\* average; DMRIdleRX knows the burst alone.
SyncOfBurst(noise) ==
  LET first == ~locked \/ mode = "idle"
      kept == IF first THEN KeepFirst(SyncLevels(noise)) ELSE Keep(SyncLevels(noise))
  IN /\ mode \notin ByFrames
     /\ locked' = TRUE
     /\ levels' = kept
     /\ m_averagePtr' = IF first THEN 0 ELSE Following
     /\ current' = Average(kept)
     /\ stale' = IF first \/ stale = 0 THEN 0 ELSE stale - 1
     /\ read' = ReadWith(Average(kept), noise)
     /\ UNCHANGED channel

\* A frame of P25RX or NXDNRX whose levels are taken before it is read.
FrameTaken(noise) ==
  LET first == m_averagePtr = NOAVEPTR
      kept == IF first THEN KeepFirst(FrameLevels(noise)) ELSE Keep(FrameLevels(noise))
  IN /\ mode \in ByFrames /\ locked
     /\ levels' = kept
     /\ m_averagePtr' = IF first THEN 0 ELSE Following
     /\ current' = Average(kept)
     /\ stale' = IF first \/ stale = 0 THEN 0 ELSE stale - 1
     /\ read' = ReadWith(Average(kept), noise)
     /\ UNCHANGED <<channel, locked>>

\* A P25 PDU or TSDU, and a late DMR burst, are read with the levels there are.
FrameRead(noise) ==
  /\ mode \in {"P25", "DMR", "DMO"} /\ locked
  /\ read' = ReadWith(current, noise)
  /\ UNCHANGED <<channel, locked, m_averagePtr, levels, current, stale>>

Lose ==
  /\ locked
  /\ locked' = FALSE
  /\ m_averagePtr' = IF mode \in ByFrames THEN NOAVEPTR ELSE m_averagePtr
  /\ read' = {}
  /\ UNCHANGED <<channel, levels, current, stale>>

\* Another station, or the same at another distance.
Change ==
  /\ \E c \in Channels \ {channel} : channel' = c
  /\ stale' = IF locked THEN Averages[mode] ELSE stale
  /\ read' = {}
  /\ UNCHANGED <<locked, m_averagePtr, levels, current>>

Next ==
  /\ \/ \E noise \in Noises :
          SyncOfFrames(noise) \/ SyncOfBurst(noise) \/ FrameTaken(noise) \/ FrameRead(noise)
     \/ Lose
     \/ Change
  /\ UNCHANGED <<mode, adjust>>

Spec == Init /\ [][Next]_symbolsVars

-----------------------------------------------------------------------------
\* Whatever station was heard before, and however loud: once the levels in use are of the
\* one that is heard, a frame is read as it was sent.
ReadsWhatIsSent == stale = 0 => \A pair \in read : pair[1] = pair[2]
=============================================================================
