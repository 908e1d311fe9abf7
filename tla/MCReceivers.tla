---------------------------- MODULE MCReceivers -----------------------------
(***************************************************************************)
(* The receive path and the receivers, each alone: a behaviour is one of   *)
(* RxChannel, from the radio to the blocks fed to a receiver, or one of    *)
(* the NXDN receiver, of the P25 receiver, of the two DMR slots of a       *)
(* repeater, of DMR direct mode, of the sample ring of direct mode or of   *)
(* the idle receiver, or of RxBudget.  The receivers share nothing but     *)
(* Modem::m_dcd, and a modem in a mode feeds only that mode's receiver.    *)
(* A behaviour of Tuning moves the channels of all modems, one of CalRssi  *)
(* measures a signal, and one of HostLink or HostReplies is the frames     *)
(* between host and modem.                                                 *)
(***************************************************************************)
EXTENDS Integers, Sequences, FiniteSets

CONSTANTS
  FrameLen, FswLen, CorrCountdown,        \* NXDN
  LduLen, HduLen, PduLen, SyncLen,        \* P25
  MaxFrames,                              \* NXDN and P25: frames without a sync
  MaxSyncLost, LastOfSuperframe,          \* DMR
  SlotRing, BurstTail,                    \* DmrSync
  Strengths,
  Delay, MaxLag, QueueLen, PopBurst,      \* RxChannel
  RingLen, Block, WorkBursts, MaxSent, MaxCame,
  Modem, Rate, RingSize, MaxBudget, MaxElapsed, MaxBlocks, MaxLate,  \* RxBudget
  Channel, Device, Transmitters, Asked, Licensed, FineStep,          \* Tuning
  AfcStep, AfcUnit, AfcLeast, CenterOffset, MaxAsked, MaxAfc,
  Second, Levels, Greatest,                                          \* CalRssi
  Base, BufferLen, ShortSizes, LongSizes, Payloads, MaxHostFrames    \* HostLink

VARIABLES
  part, m_state, m_dataPtr, m_endPtr, m_pduEndPtr, m_fswPtr, m_syncPtr,
  m_minFSWPtr, m_maxFSWPtr, m_minSyncPtr, m_maxSyncPtr, m_maxCorr, m_lostCount,
  m_countdown, m_lduSyncPos, m_syncCount, m_n, m_type, m_control, m_dcd,
  report, since, fresh, unsynced, seen, carried, noise, foreign,
  rxFreq, delayedControl, rxSampleQueue, rxControlQueue, rxRssiQueue,
  scratch, putRssi, m_rxBuffer, m_rssiBuffer, fed, sent, came, given,
  waiting, late, m_lockout, rxSampleBudget, elapsed, begun, refused,
  rxDevice, txDevice, channelRx, channelTx, hostOffset, afcOffset, afcRange, afcEnable,
  request, source, sink, rxXlate, txRotator, applied, asked, updates,
  m_count, m_accum, m_min, m_max, told, heard,
  line, m_ptr, m_len, m_dblFrame, m_buffer, unhandled, frames, inStep, overrun,
  pending, third, reply

receiverVars == <<m_state, m_dataPtr, m_endPtr, m_pduEndPtr, m_fswPtr, m_syncPtr,
          m_minFSWPtr, m_maxFSWPtr, m_minSyncPtr, m_maxSyncPtr, m_maxCorr, m_lostCount,
          m_countdown, m_lduSyncPos, m_syncCount, m_n, m_type, m_control, m_dcd,
          report, since, fresh, unsynced, seen, carried, noise, foreign>>
channelVars == <<rxFreq, delayedControl, rxSampleQueue, rxControlQueue, rxRssiQueue,
                 scratch, putRssi, m_rxBuffer, m_rssiBuffer, fed, sent, came, given>>
budgetVars == <<waiting, late, m_lockout, rxSampleBudget, elapsed, begun, refused>>
tuningVars == <<rxDevice, txDevice, channelRx, channelTx, hostOffset, afcOffset, afcRange,
                afcEnable, request, source, sink, rxXlate, txRotator, applied, asked, updates>>
rssiVars == <<m_count, m_accum, m_min, m_max, told, heard>>
linkVars == <<line, m_ptr, m_len, m_dblFrame, m_buffer, unhandled, frames, inStep, overrun>>
replyVars == <<pending, third, reply>>
hostVars == <<linkVars, replyVars>>
vars == <<part, receiverVars, channelVars, budgetVars, tuningVars, rssiVars, hostVars>>

\* Two channels on one device, or each on its own.
Bindings == {[c \in Channel |-> 1], [c \in Channel |-> c]}

N == INSTANCE NxdnRx WITH MaxFswFrames <- MaxFrames
P == INSTANCE P25Rx WITH MaxSyncFrames <- MaxFrames, CorrCountdown <- CorrCountdown - 1
R == INSTANCE DmrRx WITH Slots <- {1, 2}
D == INSTANCE DmrRx WITH Slots <- {2}
S == INSTANCE DmrSync WITH HasCalls <- TRUE
I == INSTANCE DmrSync WITH HasCalls <- FALSE, SlotRing <- SlotRing - 1
C == INSTANCE RxChannel
B == INSTANCE RxBudget WITH BlockSize <- Block
Q == INSTANCE CalRssi
H == INSTANCE HostLink WITH MaxFrames <- MaxHostFrames

\* DMR and NXDN frames with their flag and signal strength, P25 frames of all lengths, and
\* the report of CalRSSI.
Reports ==
  {"CMD_DMR_DATA"} \X {34, 36} \cup {"CMD_NXDN_DATA"} \X {49, 51} \cup {<<"CMD_RSSI_DATA", 6>>}
    \cup {"CMD_P25_DATA"} \X {19, 46, 55, 100, 217, 513}

A == INSTANCE HostReplies WITH Commands <- {"CMD_SET_MODE", "CMD_P25_DATA"}, Texts <- {0, 75, 83}
T == INSTANCE Tuning WITH rxFreq <- channelRx, txFreq <- channelTx

ASSUME ConstantsFit ==
  /\ N!NxdnRxAssumption /\ P!P25RxAssumption /\ R!DmrRxAssumption /\ D!DmrRxAssumption
  /\ S!DmrSyncAssumption /\ I!DmrSyncAssumption /\ C!RxChannelAssumption /\ B!RxBudgetAssumption
  /\ T!TuningAssumption /\ Q!CalRssiAssumption
  /\ H!HostLinkAssumption /\ A!HostRepliesAssumption

\* The variables a receiver does not have stay as they are.
OthersOfNxdn == <<m_pduEndPtr, m_syncPtr, m_minSyncPtr, m_maxSyncPtr, m_lduSyncPos,
                  m_syncCount, m_n, m_type, m_control, fresh, noise, foreign>>
OthersOfP25  == <<m_fswPtr, m_minFSWPtr, m_maxFSWPtr, m_syncCount, m_n, m_type,
                  m_control, unsynced, seen, carried, noise, foreign>>
OthersOfDmr  == <<m_dataPtr, m_endPtr, m_pduEndPtr, m_fswPtr, m_syncPtr, m_minFSWPtr,
                  m_maxFSWPtr, m_minSyncPtr, m_maxSyncPtr, m_maxCorr, m_lostCount,
                  m_countdown, m_lduSyncPos, m_control, fresh, unsynced, seen, carried>>
OthersOfSync == <<m_pduEndPtr, m_fswPtr, m_minFSWPtr, m_maxFSWPtr, m_minSyncPtr,
                  m_maxSyncPtr, m_lostCount, m_countdown, m_lduSyncPos, m_syncCount,
                  m_n, m_type, m_dcd, unsynced, seen, carried, noise, foreign>>

Unused == "unused"

\* The variables of the parts that do not run keep a value that is not looked at.
Init ==
  /\ C!Init /\ B!Init /\ T!Init /\ Q!Init /\ H!Init /\ A!Init
  /\ \/ /\ part \in {"NXDN", "channel", "budget", "tuning", "rssi", "link", "replies"} /\ N!Init
        /\ m_pduEndPtr = Unused /\ m_syncPtr = Unused /\ m_minSyncPtr = Unused
        /\ m_maxSyncPtr = Unused /\ m_lduSyncPos = Unused /\ m_syncCount = Unused
        /\ m_n = Unused /\ m_type = Unused /\ m_control = Unused /\ fresh = Unused
        /\ noise = Unused /\ foreign = Unused
     \/ /\ part = "P25" /\ P!Init
        /\ m_fswPtr = Unused /\ m_minFSWPtr = Unused /\ m_maxFSWPtr = Unused
        /\ m_syncCount = Unused /\ m_n = Unused /\ m_type = Unused /\ m_control = Unused
        /\ unsynced = Unused /\ seen = Unused /\ carried = Unused
        /\ noise = Unused /\ foreign = Unused
     \/ /\ \/ part = "DMR" /\ R!Init
           \/ part = "DMO" /\ D!Init
        /\ m_dataPtr = Unused /\ m_endPtr = Unused /\ m_pduEndPtr = Unused
        /\ m_fswPtr = Unused /\ m_syncPtr = Unused /\ m_minFSWPtr = Unused
        /\ m_maxFSWPtr = Unused /\ m_minSyncPtr = Unused /\ m_maxSyncPtr = Unused
        /\ m_maxCorr = Unused /\ m_lostCount = Unused /\ m_countdown = Unused
        /\ m_lduSyncPos = Unused /\ m_control = Unused /\ fresh = Unused
        /\ unsynced = Unused /\ seen = Unused /\ carried = Unused
     \/ /\ \/ part = "DMO ring" /\ S!Init
           \/ part = "idle ring" /\ I!Init
        /\ m_pduEndPtr = Unused /\ m_fswPtr = Unused /\ m_minFSWPtr = Unused
        /\ m_maxFSWPtr = Unused /\ m_minSyncPtr = Unused /\ m_maxSyncPtr = Unused
        /\ m_lostCount = Unused /\ m_countdown = Unused /\ m_lduSyncPos = Unused
        /\ m_syncCount = Unused /\ m_n = Unused /\ m_type = Unused /\ m_dcd = Unused
        /\ unsynced = Unused /\ seen = Unused /\ carried = Unused
        /\ noise = Unused /\ foreign = Unused
  /\ part # "tuning" => rxDevice[2] = 1 /\ txDevice[2] = 1

NextNxdn == part = "NXDN" /\ N!Next /\ UNCHANGED <<part, channelVars, budgetVars, tuningVars, rssiVars, hostVars, OthersOfNxdn>>
NextP25  == part = "P25"  /\ P!Next /\ UNCHANGED <<part, channelVars, budgetVars, tuningVars, rssiVars, hostVars, OthersOfP25>>
NextDmr  == part = "DMR"  /\ R!Next /\ UNCHANGED <<part, channelVars, budgetVars, tuningVars, rssiVars, hostVars, OthersOfDmr>>
NextDmo  == part = "DMO"  /\ D!Next /\ UNCHANGED <<part, channelVars, budgetVars, tuningVars, rssiVars, hostVars, OthersOfDmr>>
NextSync == part = "DMO ring"  /\ S!Next /\ UNCHANGED <<part, channelVars, budgetVars, tuningVars, rssiVars, hostVars, OthersOfSync>>
NextIdle == part = "idle ring" /\ I!Next /\ UNCHANGED <<part, channelVars, budgetVars, tuningVars, rssiVars, hostVars, OthersOfSync>>
NextChannel == part = "channel" /\ C!Next /\ UNCHANGED <<part, receiverVars, budgetVars, tuningVars, rssiVars, hostVars>>
NextBudget  == part = "budget"  /\ B!Next /\ UNCHANGED <<part, receiverVars, channelVars, tuningVars, rssiVars, hostVars>>
NextTuning  == part = "tuning" /\ T!Next /\ UNCHANGED <<part, receiverVars, channelVars, budgetVars, rssiVars, hostVars>>
NextRssi    == part = "rssi" /\ Q!Next /\ UNCHANGED <<part, receiverVars, channelVars, budgetVars, tuningVars, hostVars>>

SignalsStay == UNCHANGED <<part, receiverVars, channelVars, budgetVars, tuningVars, rssiVars>>
NextLink    == part = "link" /\ H!Next /\ SignalsStay /\ UNCHANGED replyVars
NextReplies == part = "replies" /\ A!Next /\ SignalsStay /\ UNCHANGED linkVars

Next ==
  \/ NextNxdn \/ NextP25 \/ NextDmr \/ NextDmo \/ NextSync \/ NextIdle
  \/ NextChannel \/ NextBudget \/ NextTuning \/ NextRssi \/ NextLink \/ NextReplies

Spec == Init /\ [][Next]_vars

\* Types.
TypeOK ==
  /\ part = "NXDN" => N!TypeOK
  /\ part = "P25" => P!TypeOK
  /\ part = "DMR" => R!TypeOK
  /\ part = "DMO" => D!TypeOK
  /\ part = "DMO ring" => S!TypeOK
  /\ part = "idle ring" => I!TypeOK
  /\ C!TypeOK /\ T!TypeOK

\* RadioManager to IO::process(): whatever was lost at the queues' limits, a receiver
\* gets a sample with the mark it was given, samples in order and once, and an RSSI
\* that is not of a later sample; marks are given late enough, in order, each once; and a
\* modem drains what it receives.
FedTogether ==
  [][(part = "channel" => C!BlockTogether) /\ C!MarksInTime' /\ B!KeepsUp']_vars

\* What is reported of a transmission has its place in it.  NXDNRX, P25RX: frames are
\* taken a frame apart, none twice and none passed by; DMRDMORX and DMRIdleRX take a
\* burst where its sync says, or a round after the last.  DMR: what is told of a call
\* lies between its beginning and its end, and a late voice burst is told by its place in
\* the superframe.
CallsInPlace ==
  [][/\ part = "NXDN" => N!FrameTiles
     /\ part = "P25" => P!LduTiles
     /\ part = "DMR" => R!CallBegins /\ R!VoiceInPlace'
     /\ part = "DMO" => D!CallBegins /\ D!VoiceInPlace'
     /\ part = "DMO ring" => S!BurstTiles
     /\ part = "idle ring" => I!BurstTiles]_vars

\* A lock has its carrier, in the way of each receiver, and an end to wait for with it,
\* and a loss to come.  When the signal goes, the sync flag of an NXDN report is true, and
\* it takes the frames it should to lose the lock; few DMR bursts that were not there are
\* told.
LocksAreLive ==
  /\ part = "NXDN" => N!LockIsLive /\ N!CarrierIsLock /\ N!FlagsAreTrue
  /\ part = "P25" => P!LockIsLive /\ P!LockIsCarrier
  /\ part = "DMR" => R!CarrierIsCall /\ R!NoiseIsBounded
  /\ part = "DMO" => D!CarrierIsCall /\ D!NoiseIsBounded

\* RadioManager: whoever moves, every channel stays tuned.
TunedTogether == T!TunedTogether

\* SerialPort: a parser that is in step finds the host's frames where they are, and puts
\* nothing behind its buffer (one that is out of step may); a reply of the modem is as
\* long as it says and fits its array, but for a long P25 frame, which is
\* four bytes longer than it says; and an answer is that to the command it names.  CalRSSI:
\* a report of strengths is of the samples since the one before.
FramesFound ==
  /\ part = "link" => H!FramesFound
  /\ part = "replies" => A!RepliesFound /\ A!AnswersName
  /\ part = "rssi" => Q!ReportTiles

\* SerialPort::writeDMRData: "@param slot DMR slot number."
SlotIsTold == part = "DMR" => R!SlotIsTold

\* configs/config-sdr.example.yml: "multi-carrier operation".  A modem drains what it
\* receives, of two as well.
NoneRefused == B!NoneRefused
=============================================================================
