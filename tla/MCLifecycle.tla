----------------------------- MODULE MCLifecycle ------------------------------
(***************************************************************************)
(* The program and its modem as a host has them, each part alone: a        *)
(* behaviour is one of Lifecycle, of Control, of Settings, or of Port.     *)
(***************************************************************************)
EXTENDS Lifecycle, Integers

CONSTANTS
  WatchdogLimit, RingLen, PortLen,                                 \* Control
  TtyLen, FrameSizes, MaxBytes,                                    \* Port
  ColorCodes, MaxColorCode, Values                                 \* Settings

VARIABLES
  part,
  host, m_modemState, m_duplex, m_tx, rotation, m_transmit, left, ring, quiet, m_watchdog, turn, unread, held,
  m_isOpen, m_fd, link, createdModem, inbound, m_readBuffer, parsed, outbound, rest, frames, told,
  modem, aside, channel, answer

C == INSTANCE Control

\* The second pair is in the bands, the third is not.
Pairs == {<<1, 1>>, <<1, 2>>, <<9, 9>>}

P == INSTANCE Port WITH modem <- createdModem
S == INSTANCE Settings WITH Frequencies <- Pairs, Licensed <- Pairs \ {<<9, 9>>}, Default <- <<1, 1>>
ASSUME ConstantsFit ==
  C!ControlAssumption /\ P!PortAssumption /\ S!SettingsAssumption

controlVars == <<host, m_modemState, m_duplex, m_tx, rotation, m_transmit, left, ring, quiet,
                 m_watchdog, turn, unread, held>>
portVars == <<m_isOpen, m_fd, link, createdModem, inbound, m_readBuffer, parsed, outbound, rest, frames, told>>
settingVars == <<modem, aside, channel, answer>>
allVars == <<part, vars, controlVars, portVars, settingVars>>

\* What a part does not use keeps its first value.
AllInit ==
  /\ part \in {"lifecycle", "control", "port", "settings"}
  /\ Init /\ C!Init /\ P!Init /\ S!Init
  /\ part # "control" => ~m_duplex

ProcessStays == UNCHANGED <<part, controlVars, portVars, settingVars>>
ModemStays == UNCHANGED <<part, vars, portVars, settingVars>>
PortStays == UNCHANGED <<part, vars, controlVars, settingVars>>

AllNext ==
  \/ part = "lifecycle" /\ Next /\ ProcessStays
  \/ part = "control" /\ C!Next /\ ModemStays
  \/ part = "port" /\ P!Next /\ PortStays
  \/ part = "settings" /\ S!Next /\ UNCHANGED <<part, vars, controlVars, portVars>>

\* The fairness of each part; of Lifecycle's, what the properties need: work and clock
\* threads may be overtaken for ever.
AllSpec ==
  /\ AllInit /\ [][AllNext]_allVars
  /\ SF_vars(part = "lifecycle" /\ MainStep)
  /\ SF_vars(part = "lifecycle" /\ StatusStep)
  /\ \A w \in Work : WF_vars(part = "lifecycle" /\ WorkStep(w))
  /\ \A r \in Runs : WF_vars(part = "lifecycle" /\ ClockStep(r))
  /\ WF_controlVars(part = "control" /\ C!ClockRuns)
  /\ WF_controlVars(part = "control" /\ C!Interrupt)
  /\ WF_portVars(part = "port" /\ P!WriteStep)
  /\ WF_portVars(part = "port" /\ P!HostReads)

-----------------------------------------------------------------------------
\* Types, of each part.
TypesOK == TypeOK /\ C!TypeOK /\ P!TypeOK /\ S!TypeOK

\* SerialPort: no receiver but the base station's two, in IDLE and DMR, goes on from where
\* it was before others were fed.  A command that is refused changes nothing but what is
\* set before the last of its values is checked: the debugging, or the AFC, the bandwidths
\* and the power.  And a modem and its channel agree on polarity and frequencies.
CommandsWhole ==
  [][/\ part = "control" => C!FreshStart
     /\ part = "settings" => S!RefusedStays /\ S!ChannelAgrees']_allVars

\* IO, UARTPort: a host that is gone leaves no transmitter on, but for a thread that waits
\* for the port; which waits for nothing else.
LeftAlone ==
  /\ <>[](part = "control" => C!GoneIsSilent)
  /\ P!WritesEnd

\* IO.cpp, process(): "Two seconds timeout".
TimesOut == <>[](part = "control" => C!Silent)

\* UARTPort, SerialPort: bytes come and go in order, and frames in one piece.
BytesInOrder == P!BytesInOrder
=============================================================================
