---------------------------------- MODULE Timer ---------------------------------
(***************************************************************************)
(* Timer: ticks are counted from 1, so that 0 says stopped; the timeout is *)
(* one more than the ticks it lasts, so that 0 says none.                  *)
(***************************************************************************)
EXTENDS Naturals

CONSTANTS TicksPerSec, Secs, Msecs, Ticks, MaxElapsed   \* bound: ticks since start()

TimerAssumption == TicksPerSec \subseteq Nat \ {0} /\ Secs \cup Msecs \cup Ticks \subseteq Nat

VARIABLES
  m_ticksPerSec, m_timeout, m_timer, m_paused,
  asked,     \* the time asked for, in milliseconds
  elapsed    \* ticks since start(), the paused ones left out

timerVars == <<m_ticksPerSec, m_timeout, m_timer, m_paused, asked, elapsed>>

\* Mutant: the timeout is the ticks themselves, while the timer counts from 1.
TimeoutOneLess(tps, secs, msecs) ==
  IF secs > 0 \/ msecs > 0 THEN ((secs * 1000 + msecs) * tps) \div 1000 ELSE 0

Timeout(tps, secs, msecs) ==
  IF secs > 0 \/ msecs > 0 THEN ((secs * 1000 + msecs) * tps) \div 1000 + 1 ELSE 0

Init ==
  /\ m_ticksPerSec \in TicksPerSec /\ m_timer = 0 /\ m_paused = FALSE /\ elapsed = 0
  /\ \E secs \in Secs, msecs \in Msecs :
       m_timeout = Timeout(m_ticksPerSec, secs, msecs) /\ asked = secs * 1000 + msecs

setTimeout(secs, msecs) ==
  /\ m_timeout' = Timeout(m_ticksPerSec, secs, msecs) /\ asked' = secs * 1000 + msecs
  /\ m_timer' = (IF m_timeout' = 0 THEN 0 ELSE m_timer)
  /\ UNCHANGED <<m_ticksPerSec, m_paused, elapsed>>

start ==
  /\ m_timer' = (IF m_timeout > 0 THEN 1 ELSE m_timer) /\ m_paused' = FALSE /\ elapsed' = 0
  /\ UNCHANGED <<m_ticksPerSec, m_timeout, asked>>

startWith(secs, msecs) ==
  /\ m_timeout' = Timeout(m_ticksPerSec, secs, msecs) /\ asked' = secs * 1000 + msecs
  /\ m_timer' = (IF m_timeout' > 0 THEN 1 ELSE 0) /\ m_paused' = FALSE /\ elapsed' = 0
  /\ UNCHANGED m_ticksPerSec

stop ==
  /\ m_timer' = 0 /\ m_paused' = FALSE /\ UNCHANGED <<m_ticksPerSec, m_timeout, asked, elapsed>>

pause == m_paused' = TRUE /\ UNCHANGED <<m_ticksPerSec, m_timeout, m_timer, asked, elapsed>>
resume == m_paused' = FALSE /\ UNCHANGED <<m_ticksPerSec, m_timeout, m_timer, asked, elapsed>>

clock(ticks) ==
  /\ elapsed + ticks <= MaxElapsed
  /\ IF ~m_paused /\ m_timer > 0 /\ m_timeout > 0
     THEN m_timer' = m_timer + ticks /\ elapsed' = elapsed + ticks
     ELSE UNCHANGED <<m_timer, elapsed>>
  /\ UNCHANGED <<m_ticksPerSec, m_timeout, m_paused, asked>>

isRunning == m_timer > 0
hasExpired == m_timeout > 0 /\ m_timer > 0 /\ m_timer >= m_timeout
getTimeout == IF m_timeout = 0 THEN 0 ELSE (m_timeout - 1) \div m_ticksPerSec
getTimer == IF m_timer = 0 THEN 0 ELSE (m_timer - 1) \div m_ticksPerSec
getRemaining ==
  IF m_timeout = 0 \/ m_timer = 0 \/ m_timer >= m_timeout THEN 0
  ELSE (m_timeout - m_timer) \div m_ticksPerSec

Next ==
  \/ \E secs \in Secs, msecs \in Msecs : setTimeout(secs, msecs) \/ startWith(secs, msecs)
  \/ start \/ stop \/ pause \/ resume
  \/ \E ticks \in Ticks : clock(ticks)

Spec == Init /\ [][Next]_timerVars

-----------------------------------------------------------------------------
\* A timer that runs has expired exactly when the whole ticks of the time asked for have
\* passed unpaused, whatever was changed meanwhile, and never while it has time left.
ExpiresInTime ==
  isRunning =>
    /\ hasExpired <=> elapsed >= (asked * m_ticksPerSec) \div 1000
    /\ getTimer = elapsed \div m_ticksPerSec
    /\ getRemaining > 0 => ~hasExpired
    /\ getTimeout * 1000 <= asked
=============================================================================
