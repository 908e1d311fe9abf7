------------------------------ MODULE Lifecycle -------------------------------
(***************************************************************************)
(* Starting, restarting and stopping the program: main() with its SIGHUP   *)
(* loop, SDR::run(), RadioManager::initialize() and shutdown(), and the    *)
(* threads that live beside them: the GNU Radio work threads of every      *)
(* device's flowgraph, the radio status publisher, and the clock thread of *)
(* each run's modem.  RadioManager has one mutex, m_lock, which all of     *)
(* them take.                                                              *)
(*                                                                         *)
(* A work thread checks for the end of its flowgraph and then calls work() *)
(* (GNU Radio's scheduler); work() takes m_lock for each call it makes to  *)
(* the manager.  One modem is modelled, and its rx and tx threads, which   *)
(* nobody here waits for, are left out.  A thread's calls are taken one at *)
(* a time; what they do under the lock is in TxPath.                       *)
(***************************************************************************)
EXTENDS Naturals, FiniteSets

CONSTANTS
  Device,      \* indices of m_devices
  MaxRuns,     \* bound: passes of main()'s loop
  MaxSignals   \* bound: signals delivered

ASSUME RunsAssumption == MaxRuns \in Nat \ {0} /\ MaxSignals \in Nat

\* Two work threads that call the manager for each device: RX sink, TX source.
Work == Device \X {"rx", "tx"}
Runs == 1 .. MaxRuns

\* Holders of m_lock; NoOne is not a thread.
NoOne == <<"no one">>
MainThread == <<"main">>
StatusThread == <<"status">>
WorkThread(w) == <<"work", w>>
ClockThread(r) == <<"clock", r>>

VARIABLES
  main,          \* where main() is
  run,           \* passes of main()'s loop begun
  g_killed, g_signal,
  m_lock,        \* who holds RadioManager::m_lock
  dev,           \* flowgraph of a device: "none", "running" or "stopping"
  work,          \* work thread: "gone", "idle", "want" (m_lock), "in"
  status,        \* publisher: "gone", "top", "want" (m_lock), "in", "send"
  m_statusThreadStop,
  socket,        \* m_zmqPubSocket: "none", "open" or "closed"
  clock,         \* clock thread of a run: "none", "top", "read", "want", "in", "ended"
  port,          \* is the port of a run's modem open?
  signals        \* delivered so far

vars == <<main, run, g_killed, g_signal, m_lock, dev, work, status, m_statusThreadStop,
          socket, clock, port, signals>>
threads == <<dev, work, status, m_statusThreadStop, socket, clock, port>>
control == <<run, g_killed, g_signal, signals>>

Init ==
  /\ main = "boot" /\ run = 0 /\ g_killed = FALSE /\ g_signal = "none"
  /\ m_lock = NoOne
  /\ dev = [d \in Device |-> "none"] /\ work = [w \in Work |-> "gone"]
  /\ status = "gone" /\ m_statusThreadStop = TRUE /\ socket = "none"
  /\ clock = [r \in Runs |-> "none"] /\ port = [r \in Runs |-> FALSE]
  /\ signals = 0

Alive == main # "exited"

-----------------------------------------------------------------------------
(* The main thread. *)

\* main(): the flags are cleared, and initialize() finds nothing to shut down.
Boot ==
  /\ main = "boot" /\ main' = "init"
  /\ run' = run + 1 /\ g_signal' = "none" /\ g_killed' = FALSE
  /\ UNCHANGED <<signals, m_lock, threads>>

\* initialize(), under the lock: the flowgraphs in up start (a start that throws
\* is logged), and the publisher, with a socket if there is an address to bind.
Initialize ==
  /\ main = "init" /\ main' = "create"
  /\ m_lock = NoOne
  /\ \E up \in SUBSET Device :
       /\ dev' = [d \in Device |-> IF d \in up THEN "running" ELSE "none"]
       /\ work' = [w \in Work |-> IF w[1] \in up THEN "idle" ELSE "gone"]
  /\ status' = "top" /\ m_statusThreadStop' = FALSE
  /\ socket' \in {"none", "open"}
  /\ UNCHANGED <<m_lock, clock, port, control>>

\* initialize() cannot parse the configuration, and run() returns at once.
ConfigRefused ==
  /\ main = "init" /\ main' = "ended"
  /\ m_lock = NoOne
  /\ UNCHANGED <<m_lock, threads, control>>

\* createModems(): the port is opened and then the clock thread started.
CreateModems ==
  /\ main = "create" /\ main' = "loop"
  /\ \/ /\ port' = [port EXCEPT ![run] = TRUE]
        /\ clock' = [clock EXCEPT ![run] = "top"]
     \/ UNCHANGED <<port, clock>>
  /\ UNCHANGED <<m_lock, dev, work, status, m_statusThreadStop, socket, control>>

LeaveLoop ==
  /\ main = "loop" /\ g_killed /\ main' = "close"
  /\ UNCHANGED <<m_lock, threads, control>>

\* Modem::close(): nothing waits for the clock thread, which may be reading.
CloseModems ==
  /\ main = "close" /\ main' = "shutdown"
  /\ port' = [port EXCEPT ![run] = FALSE]
  /\ UNCHANGED <<m_lock, dev, work, status, m_statusThreadStop, socket, clock, control>>

\* Mutant: shutdown() takes the lock before it stops the publisher.
StopPublisherLocked ==
  /\ main = "shutdown" /\ main' = "join"
  /\ m_lock = NoOne /\ m_lock' = MainThread
  /\ m_statusThreadStop' = TRUE
  /\ UNCHANGED <<dev, work, status, socket, clock, port, control>>

\* stopRadioStatusPublisher(), called before the lock is taken.
StopPublisher ==
  /\ main = "shutdown" /\ main' = "join"
  /\ m_statusThreadStop' = TRUE
  /\ UNCHANGED <<m_lock, dev, work, status, socket, clock, port, control>>

\* Mutant: the publisher is told to stop and not waited for.
JoinPublisherNot ==
  /\ main = "join" /\ main' = "lock"
  /\ socket' = IF socket = "open" THEN "closed" ELSE socket
  /\ UNCHANGED <<m_lock, dev, work, status, m_statusThreadStop, clock, port, control>>

\* The publisher is joined, and the socket closed.
JoinPublisher ==
  /\ main = "join" /\ main' = "lock"
  /\ status = "gone"
  /\ socket' = IF socket = "open" THEN "closed" ELSE socket
  /\ UNCHANGED <<m_lock, dev, work, status, m_statusThreadStop, clock, port, control>>

LockManager ==
  /\ main = "lock" /\ main' = "stop"
  /\ m_lock = NoOne /\ m_lock' = MainThread
  /\ UNCHANGED <<threads, control>>

\* stopRadios(): tb->stop() on the next device that runs ...
StopDevice ==
  /\ main = "stop" /\ main' = "wait"
  /\ \E d \in Device : /\ dev[d] = "running"
                       /\ dev' = [dev EXCEPT ![d] = "stopping"]
  /\ UNCHANGED <<m_lock, work, status, m_statusThreadStop, socket, clock, port, control>>

\* Mutant: the blocks are released without waiting for the threads.
WaitDeviceNot ==
  /\ main = "wait" /\ main' = "stop"
  /\ dev' = [d \in Device |-> IF dev[d] = "stopping" THEN "none" ELSE dev[d]]
  /\ UNCHANGED <<m_lock, work, status, m_statusThreadStop, socket, clock, port, control>>

\* ... and tb->wait(), which returns when its threads have ended; then the
\* blocks are released.
WaitDevice ==
  /\ main = "wait" /\ main' = "stop"
  /\ \E d \in Device : /\ dev[d] = "stopping"
                       /\ \A w \in Work : w[1] = d => work[w] = "gone"
                       /\ dev' = [dev EXCEPT ![d] = "none"]
  /\ UNCHANGED <<m_lock, work, status, m_statusThreadStop, socket, clock, port, control>>

\* No flowgraph is left: the maps are cleared and the lock is released.
Cleared ==
  /\ main = "stop" /\ main' = "ended"
  /\ \A d \in Device : dev[d] = "none"
  /\ m_lock' = NoOne
  /\ UNCHANGED <<threads, control>>

\* Mutant: the loop goes on after any signal.
EndedAlways == main = "ended" /\ main' = "boot" /\ UNCHANGED <<m_lock, threads, control>>

\* The end of main()'s loop: again after a SIGHUP.
Ended ==
  /\ main = "ended"
  /\ main' = IF g_signal = "HUP" THEN "boot" ELSE "exited"
  /\ UNCHANGED <<m_lock, threads, control>>

MainStep ==
  \/ Boot \/ Initialize \/ ConfigRefused \/ CreateModems \/ LeaveLoop \/ CloseModems
  \/ StopPublisher \/ JoinPublisher \/ LockManager \/ StopDevice \/ WaitDevice \/ Cleared \/ Ended

\* sigHandler(), at any time; the last signal is the one remembered.
Deliver(sig) ==
  /\ Alive /\ signals < MaxSignals
  /\ sig = "HUP" => run < MaxRuns
  /\ g_signal' = sig /\ g_killed' = TRUE /\ signals' = signals + 1
  /\ UNCHANGED <<main, run, m_lock, threads>>

-----------------------------------------------------------------------------
(* A work thread of a flowgraph. *)

WorkStays == UNCHANGED <<main, dev, status, m_statusThreadStop, socket, clock, port, control>>

\* The flowgraph goes on: the scheduler calls work().
WorkCall(w) ==
  /\ Alive /\ work[w] = "idle" /\ dev[w[1]] = "running"
  /\ work' = [work EXCEPT ![w] = "want"]
  /\ m_lock' = m_lock /\ WorkStays

WorkLock(w) ==
  /\ Alive /\ work[w] = "want" /\ m_lock = NoOne
  /\ work' = [work EXCEPT ![w] = "in"]
  /\ m_lock' = WorkThread(w) /\ WorkStays

WorkReturn(w) ==
  /\ Alive /\ work[w] = "in"
  /\ work' = [work EXCEPT ![w] = "idle"]
  /\ m_lock' = NoOne /\ WorkStays

\* The flowgraph was stopped: the thread ends before its next call.
WorkEnd(w) ==
  /\ Alive /\ work[w] = "idle" /\ dev[w[1]] = "stopping"
  /\ work' = [work EXCEPT ![w] = "gone"]
  /\ m_lock' = m_lock /\ WorkStays

WorkStep(w) == WorkCall(w) \/ WorkLock(w) \/ WorkReturn(w) \/ WorkEnd(w)

-----------------------------------------------------------------------------
(* The radio status publisher. *)

StatusStays == UNCHANGED <<main, dev, work, m_statusThreadStop, socket, clock, port, control>>

StatusTop ==
  /\ Alive /\ status = "top"
  /\ status' = IF m_statusThreadStop THEN "gone" ELSE "want"
  /\ m_lock' = m_lock /\ StatusStays

StatusLock ==
  /\ Alive /\ status = "want" /\ m_lock = NoOne
  /\ status' = "in" /\ m_lock' = StatusThread /\ StatusStays

StatusBuilt ==
  /\ Alive /\ status = "in"
  /\ status' = "send" /\ m_lock' = NoOne /\ StatusStays

\* zmq_send(), without the lock, and the pause.
StatusSend ==
  /\ Alive /\ status = "send"
  /\ status' = "top" /\ m_lock' = m_lock /\ StatusStays

StatusStep == StatusTop \/ StatusLock \/ StatusBuilt \/ StatusSend

-----------------------------------------------------------------------------
(* The clock thread of a run's modem. *)

ClockStays == UNCHANGED <<main, dev, work, status, m_statusThreadStop, socket, port, control>>

ClockTop(r) ==
  /\ Alive /\ clock[r] = "top"
  /\ clock' = [clock EXCEPT ![r] = IF g_killed THEN "ended" ELSE "read"]
  /\ m_lock' = m_lock /\ ClockStays

\* SerialPort::process() reads the port; IO::process() goes on to the manager
\* (setModemTxActive) once the host has started it and TX is off or goes off.
ClockRead(r) ==
  /\ Alive /\ clock[r] = "read"
  /\ \E next \in {"top", "want"} : clock' = [clock EXCEPT ![r] = next]
  /\ m_lock' = m_lock /\ ClockStays

ClockLock(r) ==
  /\ Alive /\ clock[r] = "want" /\ m_lock = NoOne
  /\ clock' = [clock EXCEPT ![r] = "in"]
  /\ m_lock' = ClockThread(r) /\ ClockStays

ClockReturn(r) ==
  /\ Alive /\ clock[r] = "in"
  /\ clock' = [clock EXCEPT ![r] = "top"]
  /\ m_lock' = NoOne /\ ClockStays

ClockStep(r) == ClockTop(r) \/ ClockRead(r) \/ ClockLock(r) \/ ClockReturn(r)

-----------------------------------------------------------------------------

Next ==
  \/ MainStep
  \/ \E sig \in {"HUP", "TERM"} : Deliver(sig)
  \/ \E w \in Work : WorkStep(w)
  \/ StatusStep
  \/ \E r \in Runs : ClockStep(r)

\* Every thread is scheduled.  A thread that wants m_lock may be overtaken, but
\* each holder keeps it for one call and then returns to its pacing (the sample
\* rate, a pause), so one that keeps asking gets it.
Spec ==
  /\ Init /\ [][Next]_vars
  /\ SF_vars(MainStep) /\ SF_vars(StatusStep)
  /\ \A w \in Work : SF_vars(WorkStep(w))
  /\ \A r \in Runs : SF_vars(ClockStep(r))

-----------------------------------------------------------------------------
(***************************************************************************)
(* Properties                                                              *)
(***************************************************************************)

MainPlaces == {"boot", "init", "create", "loop", "close", "shutdown", "join", "lock", "stop",
               "wait", "ended", "exited"}

\* The shape of the state.
TypeOK ==
  /\ main \in MainPlaces /\ run \in 0 .. MaxRuns
  /\ g_killed \in BOOLEAN /\ g_signal \in {"none", "HUP", "TERM"} /\ signals \in 0 .. MaxSignals
  /\ m_lock \in {NoOne, MainThread, StatusThread} \cup {WorkThread(w) : w \in Work}
                \cup {ClockThread(r) : r \in Runs}
  /\ dev \in [Device -> {"none", "running", "stopping"}]
  /\ work \in [Work -> {"gone", "idle", "want", "in"}]
  /\ status \in {"gone", "top", "want", "in", "send"}
  /\ m_statusThreadStop \in BOOLEAN /\ socket \in {"none", "open", "closed"}
  /\ clock \in [Runs -> {"none", "top", "read", "want", "in", "ended"}]
  /\ port \in [Runs -> BOOLEAN]

\* shutdown() releases nothing a thread still uses, restarts included: a
\* flowgraph's blocks outlive its work threads, and the publisher never sends on
\* a socket that was closed.
ReleasedIsUnused ==
  /\ \A w \in Work : work[w] # "gone" => dev[w[1]] # "none"
  /\ status = "send" => socket # "closed"

\* A restart finds nothing of the last run: initialize() assigns m_statusThread,
\* which ends the program if a publisher is still there, and starts the work
\* threads of new flowgraphs.
FreshStart ==
  main \in {"boot", "init"} => status = "gone" /\ \A w \in Work : work[w] = "gone"

\* stopRadioStatusPublisher() returns: the publisher it waits for can always get
\* the lock, because shutdown() does not hold it yet.
PublisherJoined == []<>(main # "join")

-----------------------------------------------------------------------------
(* What a comment of the code says and the code does not do. *)

\* RadioManager.h, shutdown(): "to ensure a clean shutdown and resource release".
\* It waits for work threads while it holds the lock they take: one that has
\* called work() waits for shutdown(), which waits for it.
ShutdownCompletes == (main = "close") ~> (main = "ended")
=============================================================================
