------------------------------- MODULE CalRssi --------------------------------
(***************************************************************************)
(* CalRSSI: in STATE_RSSI_CAL a modem adds up signal strengths, and tells  *)
(* the host the greatest, the least and the mean of a number of them.      *)
(* Another mode in between stops the samples and resets nothing.           *)
(***************************************************************************)
EXTENDS Integers, Sequences, FiniteSetsExt, SequencesExt

CONSTANTS
  Second,    \* samples of a report, 24 000
  Levels,    \* signal strengths
  Greatest   \* 0xFFFF

CalRssiAssumption ==
  /\ Second \in Nat \ {0} /\ Greatest \in Nat /\ Levels \subseteq 0 .. Greatest /\ Levels # {}

VARIABLES
  m_count, m_accum, m_min, m_max,
  told,      \* the last report, or none
  heard      \* bookkeeping: the samples since the last report, or those of it

vars == <<m_count, m_accum, m_min, m_max, told, heard>>

Untold == [max |-> -1, min |-> -1, ave |-> -1]

Init ==
  /\ m_count = 0 /\ m_accum = 0 /\ m_min = Greatest /\ m_max = 0
  /\ told = Untold /\ heard = <<>>

Greater(a, b) == IF a > b THEN a ELSE b
Lesser(a, b) == IF a < b THEN a ELSE b

Heard(ss) == Append(IF told = Untold THEN heard ELSE <<>>, ss)

\* A sample that is not the last of a report.
Sample(ss) ==
  /\ m_count + 1 < Second
  /\ m_count' = m_count + 1 /\ m_accum' = m_accum + ss
  /\ m_max' = Greater(m_max, ss) /\ m_min' = Lesser(m_min, ss)
  /\ told' = Untold /\ heard' = Heard(ss)

\* Mutant: the greatest stays.
LastSampleKeepingMax(ss) ==
  /\ m_count + 1 >= Second
  /\ told' = [max |-> Greater(m_max, ss), min |-> Lesser(m_min, ss),
              ave |-> (m_accum + ss) \div (m_count + 1)]
  /\ m_count' = 0 /\ m_accum' = 0 /\ m_min' = Greatest /\ m_max' = Greater(m_max, ss)
  /\ heard' = Heard(ss)

\* The last: the report is written, and everything begins again.
LastSample(ss) ==
  /\ m_count + 1 >= Second
  /\ told' = [max |-> Greater(m_max, ss), min |-> Lesser(m_min, ss),
              ave |-> (m_accum + ss) \div (m_count + 1)]
  /\ m_count' = 0 /\ m_accum' = 0 /\ m_min' = Greatest /\ m_max' = 0
  /\ heard' = Heard(ss)

Next == \E ss \in Levels : Sample(ss) \/ LastSample(ss)

Spec == Init /\ [][Next]_vars

-----------------------------------------------------------------------------
(* Property *)

\* The strengths of these samples together.
Total(samples) ==
  LET upTo[n \in 0 .. Len(samples)] == IF n = 0 THEN 0 ELSE upTo[n - 1] + samples[n]
  IN  upTo[Len(samples)]

\* A report is of the samples since the one before: each is told of once, and none of
\* another report.
ReportTiles ==
  told # Untold =>
    /\ Len(heard) = Second
    /\ told.max = Max(ToSet(heard)) /\ told.min = Min(ToSet(heard))
    /\ told.ave = Total(heard) \div Second
=============================================================================
