------------------------------ MODULE Settings --------------------------------
(***************************************************************************)
(* What a host sets of a modem, by the commands of SerialPort, and where   *)
(* it goes: the modem, its engines and receivers, IO, and the channel that *)
(* RadioManager keeps for it.  One command checks many values and hands    *)
(* them on one by one, some before the last is checked, so that a command  *)
(* that is refused, or one that comes in another order, could leave the    *)
(* parts with different settings.                                          *)
(*                                                                         *)
(* What the parts do with the settings is in their modules, and tuning in  *)
(* Tuning.                                                                 *)
(***************************************************************************)
EXTENDS Integers

CONSTANTS
  ColorCodes, MaxColorCode,  \* those asked for, and 15
  Frequencies, Licensed,     \* pairs, and those setRFParams() accepts
  Default,                   \* the pair of DEFAULT_FREQUENCY
  Values                     \* of levels, powers, bandwidths and sizes; 0 is the default

SettingsAssumption ==
  /\ ColorCodes \subseteq Nat /\ MaxColorCode \in Nat
  /\ Licensed \subseteq Frequencies /\ 0 \in Values

Engines == {"dmrTX", "dmrDMOTX", "p25TX", "nxdnTX"}
Colored == {"dmrTX", "dmrRX", "dmrDMORX", "dmrIdleRX"}
Modes == {"IDLE", "DMR"}
Asked == Modes \cup {"no such mode"}

VARIABLES
  modem,    \* what it works with; polarity is m_rxInvert and m_txInvert, frequencies
            \* m_rxFrequency and m_txFrequency
  aside,    \* what is set before a command is known to be good: m_debug, m_rfPower and
            \* the bandwidths of IO
  channel,  \* ChannelState; frequencies <<>>: none yet
  answer    \* to the last command: "ACK" or "NAK"

vars == <<modem, aside, channel, answer>>

Init ==
  /\ modem = [mode |-> "IDLE", colorCode |-> [p \in Colored |-> 0],
              symbols |-> [e \in Engines |-> 0], buffer |-> [e \in Engines |-> 0],
              rxLevel |-> 0, polarity |-> FALSE, frequencies |-> Default]
  /\ aside = [debug |-> FALSE, power |-> 0, bandwidth |-> 0]
  /\ channel = [polarity |-> FALSE, frequencies |-> <<>>, power |-> 0, afc |-> FALSE]
  /\ answer = "ACK"

\* modemStateCheck(): a mode there is.
ModeIsValid(mode) == mode \in Modes

-----------------------------------------------------------------------------
(* The commands *)

\* One that is too short, and those for the flash, which is not there.
Refuse == answer' = "NAK" /\ UNCHANGED <<modem, aside, channel>>

\* setConfig(); the enables, the duplex flag and the delays are left out.
Configured(mode, code, inverted, level) ==
  [modem EXCEPT !.mode = mode, !.colorCode = [p \in Colored |-> code], !.rxLevel = level,
                !.polarity = inverted]

\* Mutant: the mode is stored before the colour code is looked at.
SetConfigAsRead(mode, code, inverted, level, debug) ==
  /\ aside' = [aside EXCEPT !.debug = debug]
  /\ IF ModeIsValid(mode) /\ code <= MaxColorCode
     THEN /\ modem' = Configured(mode, code, inverted, level)
          /\ channel' = [channel EXCEPT !.polarity = inverted] /\ answer' = "ACK"
     ELSE /\ modem' = [modem EXCEPT !.mode = IF ModeIsValid(mode) THEN mode ELSE @]
          /\ UNCHANGED channel /\ answer' = "NAK"

\* It returns at the first value it does not like; debugging is set by then.  The
\* polarity goes on to the channel with IO::setParameters().
SetConfig(mode, code, inverted, level, debug) ==
  /\ aside' = [aside EXCEPT !.debug = debug]
  /\ IF ModeIsValid(mode) /\ code <= MaxColorCode
     THEN /\ modem' = Configured(mode, code, inverted, level)
          /\ channel' = [channel EXCEPT !.polarity = inverted] /\ answer' = "ACK"
     ELSE UNCHANGED <<modem, channel>> /\ answer' = "NAK"

SetMode(mode) ==
  /\ ModeIsValid(mode) /\ answer' = "ACK"
  /\ modem' = [modem EXCEPT !.mode = mode]
  /\ UNCHANGED <<aside, channel>>

\* A level in a byte is never out of range.
SetSymbolLvlAdj(level) ==
  /\ modem' = [modem EXCEPT !.symbols = [e \in Engines |-> level]] /\ answer' = "ACK"
  /\ UNCHANGED <<aside, channel>>

SetRXLevel(level) ==
  /\ modem' = [modem EXCEPT !.rxLevel = level] /\ answer' = "ACK"
  /\ UNCHANGED <<aside, channel>>

SetBuffers(size) ==
  /\ modem.mode = "IDLE" /\ answer' = "ACK"
  /\ modem' = [modem EXCEPT !.buffer = [e \in Engines |-> size]]
  /\ UNCHANGED <<aside, channel>>

\* setChannelAFC(): a range is enough for the channel, and the default has one.
SetAfc(enable, ranged) == [channel EXCEPT !.afc = enable \/ ranged]

\* setRFParams(): the AFC, the bandwidths and the power, and then the frequencies if they
\* are accepted, which go to the channel with the power and the polarity.
SetRFParams(asked, power, width, enable, ranged) ==
  /\ aside' = [aside EXCEPT !.power = power, !.bandwidth = width]
  /\ IF asked \in Licensed
     THEN /\ modem' = [modem EXCEPT !.frequencies = asked] /\ answer' = "ACK"
          /\ channel' = [SetAfc(enable, ranged) EXCEPT !.polarity = modem.polarity,
                                                       !.frequencies = asked, !.power = power]
     ELSE modem' = modem /\ channel' = SetAfc(enable, ranged) /\ answer' = "NAK"

Next ==
  \/ Refuse
  \/ \E mode \in Asked, code \in ColorCodes, level \in Values :
       \E inverted \in BOOLEAN, debug \in BOOLEAN :
         SetConfig(mode, code, inverted, level, debug)
  \/ \E mode \in Asked : SetMode(mode)
  \/ \E value \in Values : SetSymbolLvlAdj(value) \/ SetRXLevel(value) \/ SetBuffers(value)
  \/ \E asked \in Frequencies, power \in Values, width \in Values :
       \E enable \in BOOLEAN, ranged \in BOOLEAN :
         SetRFParams(asked, power, width, enable, ranged)

Spec == Init /\ [][Next]_vars

-----------------------------------------------------------------------------
(* Properties *)

\* Types; a colour code that is too great is in no part.
TypeOK ==
  /\ modem \in [mode : Modes, colorCode : [Colored -> 0 .. MaxColorCode],
               symbols : [Engines -> Values], buffer : [Engines -> Values],
               rxLevel : Values, polarity : BOOLEAN, frequencies : Frequencies]
  /\ aside \in [debug : BOOLEAN, power : Values, bandwidth : Values]
  /\ channel \in [polarity : BOOLEAN, frequencies : Frequencies \cup {<<>>}, power : Values,
                 afc : BOOLEAN]
  /\ answer \in {"ACK", "NAK"}

\* SerialPort: of a command that is answered with a NAK no more stays than what is set
\* before the last value is checked.  That is the debugging of SET_CONFIG, and the AFC, the
\* bandwidths and the power of SET_RFPARAMS, of which only the AFC reaches the channel.
RefusedStays ==
  answer' = "NAK" =>
    /\ modem' = modem /\ channel' = [channel EXCEPT !.afc = channel'.afc]
    /\ aside'.debug # aside.debug =>
         channel' = channel /\ aside' = [aside EXCEPT !.debug = aside'.debug]

\* IO and RadioManager: a modem and its channel agree, whatever came in which order, on
\* the polarity, and once there are frequencies on those.
ChannelAgrees ==
  channel.polarity = modem.polarity /\ channel.frequencies \in {<<>>, modem.frequencies}
=============================================================================
