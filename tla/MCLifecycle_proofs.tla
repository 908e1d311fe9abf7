------------------------- MODULE MCLifecycle_proofs --------------------------
(***************************************************************************)
(* Proofs about the program and its modem.  First Lifecycle, for every set *)
(* of devices and every number of restarts and signals; then Control,      *)
(* Settings and Port as MCLifecycle puts them beside it, for every size of *)
(* the ring, the terminal and the frames, every watchdog limit and every   *)
(* set of values a host may set.  Each part has an invariant of its own,   *)
(* and no part changes another's variables.                                *)
(***************************************************************************)
EXTENDS MCLifecycle, Sequences, SequenceTheorems, TLAPS

-----------------------------------------------------------------------------
(* Lifecycle: who holds m_lock, and what is left of a run at each place of *)
(* the main thread                                                         *)

\* m_lock is held by exactly the thread that is inside.
LockInv ==
  /\ m_lock = MainThread <=> main \in {"stop", "wait"}
  /\ m_lock = StatusThread <=> status = "in"
  /\ \A w \in Work : m_lock = WorkThread(w) <=> work[w] = "in"
  /\ \A r \in Runs : m_lock = ClockThread(r) <=> clock[r] = "in"

\* What is left of a run, and what of the next one there is already.
StageInv ==
  /\ main \in {"lock", "stop", "wait", "ended", "boot", "init"} => status = "gone"
  /\ main \in {"ended", "boot", "init"} => \A d \in Device : dev[d] = "none"
  /\ \A w \in Work : work[w] # "gone" => dev[w[1]] # "none"
  /\ socket = "closed" => status = "gone"

\* A restart is only due while the bound on runs allows it, and a run has no
\* clock thread before its modem is created.
RunInv ==
  /\ g_signal = "HUP" => run < MaxRuns
  /\ main = "boot" => run < MaxRuns
  /\ main # "boot" => run \in Runs
  /\ \A r \in Runs : r > run => clock[r] = "none"
  /\ main \in {"init", "create"} => clock[run] = "none"

IInv == TypeOK /\ LockInv /\ StageInv /\ RunInv

-----------------------------------------------------------------------------

\* The holders of the lock are told apart.
LEMMA Holders ==
  /\ NoOne # MainThread /\ NoOne # StatusThread /\ MainThread # StatusThread
  /\ \A w : WorkThread(w) \notin {NoOne, MainThread, StatusThread}
  /\ \A r : ClockThread(r) \notin {NoOne, MainThread, StatusThread}
  /\ \A w, r : WorkThread(w) # ClockThread(r)
  /\ \A v, w : WorkThread(v) = WorkThread(w) => v = w
  /\ \A q, r : ClockThread(q) = ClockThread(r) => q = r
BY DEF NoOne, MainThread, StatusThread, WorkThread, ClockThread

\* The first component of a work thread is its device.
LEMMA WorkDevice == \A w \in Work : w[1] \in Device
BY DEF Work

\* The program starts with nothing of an earlier run.
LEMMA InitInv == Init => IInv
<1> SUFFICES ASSUME Init PROVE IInv
  OBVIOUS
<1> USE DEF Init
<1>1. TypeOK
  <2>1. run \in 0 .. MaxRuns /\ signals \in 0 .. MaxSignals
    BY RunsAssumption
  <2>2. /\ dev \in [Device -> {"none", "running", "stopping"}]
        /\ work \in [Work -> {"gone", "idle", "want", "in"}]
    OBVIOUS
  <2>3. /\ clock \in [Runs -> {"none", "top", "read", "want", "in", "ended"}]
        /\ port \in [Runs -> BOOLEAN]
    OBVIOUS
  <2>4. main \in MainPlaces
    BY DEF MainPlaces
  <2> QED
    BY <2>1, <2>2, <2>3, <2>4 DEF TypeOK
<1>2. LockInv
  BY Holders DEF LockInv
<1>3. StageInv
  BY DEF StageInv
<1>4. RunInv
  BY RunsAssumption DEF RunInv, Runs
<1> QED
  BY <1>1, <1>2, <1>3, <1>4 DEF IInv

\* main() begins a run.
LEMMA BootKeeps == ASSUME IInv, Boot PROVE IInv'
<1> USE DEF IInv, Boot, threads, control
<1>1. TypeOK'
  <2>1. run' \in 0 .. MaxRuns
    BY RunsAssumption DEF TypeOK, RunInv
  <2> QED
    BY <2>1 DEF TypeOK, MainPlaces
<1>2. LockInv'
  BY Holders DEF LockInv, TypeOK
<1>3. StageInv'
  BY WorkDevice DEF StageInv, TypeOK
<1>4. RunInv'
  BY RunsAssumption DEF RunInv, TypeOK, MainPlaces, Runs
<1> QED
  BY <1>1, <1>2, <1>3, <1>4

\* initialize() starts flowgraphs and publisher.
LEMMA InitializeKeeps == ASSUME IInv, Initialize PROVE IInv'
<1> USE DEF IInv, Initialize, threads, control
<1>1. TypeOK'
  <2>1. /\ dev' \in [Device -> {"none", "running", "stopping"}]
        /\ work' \in [Work -> {"gone", "idle", "want", "in"}]
    OBVIOUS
  <2> QED
    BY <2>1 DEF TypeOK, MainPlaces
<1>2. LockInv'
  <2>1. \A w \in Work : work'[w] # "in"
    OBVIOUS
  <2>2. \A r \in Runs : clock[r] # "in"
    BY Holders DEF LockInv
  <2>3. /\ m_lock' = NoOne /\ clock' = clock /\ main' = "create" /\ status' = "top"
    OBVIOUS
  <2> HIDE DEF Initialize, IInv
  <2> QED
    BY <2>1, <2>2, <2>3, Holders DEF LockInv
<1>3. StageInv'
  BY WorkDevice DEF StageInv, TypeOK
<1>4. RunInv'
  BY RunsAssumption DEF RunInv, TypeOK, MainPlaces, Runs
<1> QED
  BY <1>1, <1>2, <1>3, <1>4

\* initialize() refuses the configuration.
LEMMA ConfigRefusedKeeps == ASSUME IInv, ConfigRefused PROVE IInv'
<1> USE DEF IInv, ConfigRefused, threads, control
<1>1. TypeOK'
  BY RunsAssumption, Holders DEF TypeOK, MainPlaces, RunInv, Alive
<1>2. LockInv'
  BY Holders DEF LockInv, TypeOK
<1>3. StageInv'
  BY WorkDevice DEF StageInv, TypeOK
<1>4. RunInv'
  BY RunsAssumption DEF RunInv, TypeOK, MainPlaces, Runs
<1> QED
  BY <1>1, <1>2, <1>3, <1>4

\* createModems() opens the port and starts the clock thread.
LEMMA CreateModemsKeeps == ASSUME IInv, CreateModems PROVE IInv'
<1> USE DEF IInv, CreateModems, threads, control
<1>1. TypeOK'
  <2>1. run \in Runs
    BY DEF RunInv
  <2>2. clock' \in [Runs -> {"none", "top", "read", "want", "in", "ended"}] /\ port' \in [Runs -> BOOLEAN]
    BY <2>1 DEF TypeOK
  <2>3. main' \in MainPlaces
    BY DEF MainPlaces
  <2>4. QED
    BY <2>2, <2>3 DEF TypeOK
<1>2. LockInv'
  <2>1. clock[run] # "in" /\ run \in Runs
    BY DEF RunInv
  <2>2. \A r \in Runs : clock'[r] = "in" <=> clock[r] = "in"
    BY <2>1 DEF TypeOK
  <2> QED
    BY <2>2 DEF LockInv
<1>3. StageInv'
  BY WorkDevice DEF StageInv, TypeOK
<1>4. RunInv'
  BY RunsAssumption DEF RunInv, TypeOK, MainPlaces, Runs
<1> QED
  BY <1>1, <1>2, <1>3, <1>4

\* run() leaves its loop.
LEMMA LeaveLoopKeeps == ASSUME IInv, LeaveLoop PROVE IInv'
<1> USE DEF IInv, LeaveLoop, threads, control
<1>1. TypeOK'
  BY RunsAssumption, Holders DEF TypeOK, MainPlaces, RunInv, Alive
<1>2. LockInv'
  BY Holders DEF LockInv, TypeOK
<1>3. StageInv'
  BY WorkDevice DEF StageInv, TypeOK
<1>4. RunInv'
  BY RunsAssumption DEF RunInv, TypeOK, MainPlaces, Runs
<1> QED
  BY <1>1, <1>2, <1>3, <1>4

\* run() closes the modem.
LEMMA CloseModemsKeeps == ASSUME IInv, CloseModems PROVE IInv'
<1> USE DEF IInv, CloseModems, threads, control
<1>1. TypeOK'
  BY RunsAssumption, Holders DEF TypeOK, MainPlaces, RunInv, Alive
<1>2. LockInv'
  BY Holders DEF LockInv, TypeOK
<1>3. StageInv'
  BY WorkDevice DEF StageInv, TypeOK
<1>4. RunInv'
  BY RunsAssumption DEF RunInv, TypeOK, MainPlaces, Runs
<1> QED
  BY <1>1, <1>2, <1>3, <1>4

\* shutdown() tells the publisher to stop.
LEMMA StopPublisherKeeps == ASSUME IInv, StopPublisher PROVE IInv'
<1> USE DEF IInv, StopPublisher, threads, control
<1>1. TypeOK'
  BY RunsAssumption, Holders DEF TypeOK, MainPlaces, RunInv, Alive
<1>2. LockInv'
  BY Holders DEF LockInv, TypeOK
<1>3. StageInv'
  BY WorkDevice DEF StageInv, TypeOK
<1>4. RunInv'
  BY RunsAssumption DEF RunInv, TypeOK, MainPlaces, Runs
<1> QED
  BY <1>1, <1>2, <1>3, <1>4

\* shutdown() joins the publisher.
LEMMA JoinPublisherKeeps == ASSUME IInv, JoinPublisher PROVE IInv'
<1> USE DEF IInv, JoinPublisher, threads, control
<1>1. TypeOK'
  BY RunsAssumption, Holders DEF TypeOK, MainPlaces, RunInv, Alive
<1>2. LockInv'
  BY Holders DEF LockInv, TypeOK
<1>3. StageInv'
  BY WorkDevice DEF StageInv, TypeOK
<1>4. RunInv'
  BY RunsAssumption DEF RunInv, TypeOK, MainPlaces, Runs
<1> QED
  BY <1>1, <1>2, <1>3, <1>4

\* shutdown() takes the lock.
LEMMA LockManagerKeeps == ASSUME IInv, LockManager PROVE IInv'
<1> USE DEF IInv, LockManager, threads, control
<1>1. TypeOK'
  BY RunsAssumption, Holders DEF TypeOK, MainPlaces, RunInv, Alive
<1>2. LockInv'
  BY Holders DEF LockInv, TypeOK
<1>3. StageInv'
  BY WorkDevice DEF StageInv, TypeOK
<1>4. RunInv'
  BY RunsAssumption DEF RunInv, TypeOK, MainPlaces, Runs
<1> QED
  BY <1>1, <1>2, <1>3, <1>4

\* stopRadios() stops a flowgraph.
LEMMA StopDeviceKeeps == ASSUME IInv, StopDevice PROVE IInv'
<1> USE DEF IInv, StopDevice, threads, control
<1>1. TypeOK'
  BY RunsAssumption, Holders DEF TypeOK, MainPlaces, RunInv, Alive
<1>2. LockInv'
  BY Holders DEF LockInv, TypeOK
<1>3. StageInv'
  BY WorkDevice DEF StageInv, TypeOK
<1>4. RunInv'
  BY RunsAssumption DEF RunInv, TypeOK, MainPlaces, Runs
<1> QED
  BY <1>1, <1>2, <1>3, <1>4

\* stopRadios() waits for a flowgraph.
LEMMA WaitDeviceKeeps == ASSUME IInv, WaitDevice PROVE IInv'
<1> USE DEF IInv, WaitDevice, threads, control
<1>1. TypeOK'
  BY RunsAssumption, Holders DEF TypeOK, MainPlaces, RunInv, Alive
<1>2. LockInv'
  BY Holders DEF LockInv, TypeOK
<1>3. StageInv'
  BY WorkDevice DEF StageInv, TypeOK
<1>4. RunInv'
  BY RunsAssumption DEF RunInv, TypeOK, MainPlaces, Runs
<1> QED
  BY <1>1, <1>2, <1>3, <1>4

\* shutdown() clears the maps and releases the lock.
LEMMA ClearedKeeps == ASSUME IInv, Cleared PROVE IInv'
<1> USE DEF IInv, Cleared, threads, control
<1>1. TypeOK'
  BY RunsAssumption, Holders DEF TypeOK, MainPlaces, RunInv, Alive
<1>2. LockInv'
  BY Holders DEF LockInv, TypeOK
<1>3. StageInv'
  BY WorkDevice DEF StageInv, TypeOK
<1>4. RunInv'
  BY RunsAssumption DEF RunInv, TypeOK, MainPlaces, Runs
<1> QED
  BY <1>1, <1>2, <1>3, <1>4

\* main() decides about a restart.
LEMMA EndedKeeps == ASSUME IInv, Ended PROVE IInv'
<1> USE DEF IInv, Ended, threads, control
<1>1. TypeOK'
  BY RunsAssumption, Holders DEF TypeOK, MainPlaces, RunInv, Alive
<1>2. LockInv'
  BY Holders DEF LockInv, TypeOK
<1>3. StageInv'
  BY WorkDevice DEF StageInv, TypeOK
<1>4. RunInv'
  BY RunsAssumption DEF RunInv, TypeOK, MainPlaces, Runs
<1> QED
  BY <1>1, <1>2, <1>3, <1>4

\* A signal arrives.
LEMMA DeliverKeeps == ASSUME IInv, NEW sig \in {"HUP", "TERM"}, Deliver(sig) PROVE IInv'
<1> USE DEF IInv, Deliver, threads
<1>1. TypeOK'
  BY RunsAssumption, Holders DEF TypeOK, MainPlaces, RunInv, Alive
<1>2. LockInv'
  BY Holders DEF LockInv, TypeOK
<1>3. StageInv'
  BY WorkDevice DEF StageInv, TypeOK
<1>4. RunInv'
  BY RunsAssumption DEF RunInv, TypeOK, MainPlaces, Runs
<1> QED
  BY <1>1, <1>2, <1>3, <1>4

\* A work thread calls work().
LEMMA WorkCallKeeps == ASSUME IInv, NEW v \in Work, WorkCall(v) PROVE IInv'
<1> USE DEF IInv, WorkCall, WorkStays, control
<1>1. TypeOK'
  BY RunsAssumption, Holders DEF TypeOK, MainPlaces, RunInv, Alive
<1>2. LockInv'
  BY Holders DEF LockInv, TypeOK
<1>3. StageInv'
  BY WorkDevice DEF StageInv, TypeOK
<1>4. RunInv'
  BY RunsAssumption DEF RunInv, TypeOK, MainPlaces, Runs
<1> QED
  BY <1>1, <1>2, <1>3, <1>4

\* A work thread gets the lock.
LEMMA WorkLockKeeps == ASSUME IInv, NEW v \in Work, WorkLock(v) PROVE IInv'
<1> USE DEF IInv, WorkLock, WorkStays, control
<1>1. TypeOK'
  BY RunsAssumption, Holders DEF TypeOK, MainPlaces, RunInv, Alive
<1>2. LockInv'
  BY Holders DEF LockInv, TypeOK
<1>3. StageInv'
  BY WorkDevice DEF StageInv, TypeOK
<1>4. RunInv'
  BY RunsAssumption DEF RunInv, TypeOK, MainPlaces, Runs
<1> QED
  BY <1>1, <1>2, <1>3, <1>4

\* A work thread returns.
LEMMA WorkReturnKeeps == ASSUME IInv, NEW v \in Work, WorkReturn(v) PROVE IInv'
<1> USE DEF IInv, WorkReturn, WorkStays, control
<1>1. TypeOK'
  BY RunsAssumption, Holders DEF TypeOK, MainPlaces, RunInv, Alive
<1>2. LockInv'
  BY Holders DEF LockInv, TypeOK
<1>3. StageInv'
  BY WorkDevice DEF StageInv, TypeOK
<1>4. RunInv'
  BY RunsAssumption DEF RunInv, TypeOK, MainPlaces, Runs
<1> QED
  BY <1>1, <1>2, <1>3, <1>4

\* A work thread ends.
LEMMA WorkEndKeeps == ASSUME IInv, NEW v \in Work, WorkEnd(v) PROVE IInv'
<1> USE DEF IInv, WorkEnd, WorkStays, control
<1>1. TypeOK'
  BY RunsAssumption, Holders DEF TypeOK, MainPlaces, RunInv, Alive
<1>2. LockInv'
  BY Holders DEF LockInv, TypeOK
<1>3. StageInv'
  BY WorkDevice DEF StageInv, TypeOK
<1>4. RunInv'
  BY RunsAssumption DEF RunInv, TypeOK, MainPlaces, Runs
<1> QED
  BY <1>1, <1>2, <1>3, <1>4

\* The publisher looks at its stop flag.
LEMMA StatusTopKeeps == ASSUME IInv, StatusTop PROVE IInv'
<1> USE DEF IInv, StatusTop, StatusStays, control
<1>1. TypeOK'
  BY RunsAssumption, Holders DEF TypeOK, MainPlaces, RunInv, Alive
<1>2. LockInv'
  BY Holders DEF LockInv, TypeOK
<1>3. StageInv'
  BY WorkDevice DEF StageInv, TypeOK
<1>4. RunInv'
  BY RunsAssumption DEF RunInv, TypeOK, MainPlaces, Runs
<1> QED
  BY <1>1, <1>2, <1>3, <1>4

\* The publisher gets the lock.
LEMMA StatusLockKeeps == ASSUME IInv, StatusLock PROVE IInv'
<1> USE DEF IInv, StatusLock, StatusStays, control
<1>1. TypeOK'
  BY RunsAssumption, Holders DEF TypeOK, MainPlaces, RunInv, Alive
<1>2. LockInv'
  BY Holders DEF LockInv, TypeOK
<1>3. StageInv'
  BY WorkDevice DEF StageInv, TypeOK
<1>4. RunInv'
  BY RunsAssumption DEF RunInv, TypeOK, MainPlaces, Runs
<1> QED
  BY <1>1, <1>2, <1>3, <1>4

\* The publisher releases the lock.
LEMMA StatusBuiltKeeps == ASSUME IInv, StatusBuilt PROVE IInv'
<1> USE DEF IInv, StatusBuilt, StatusStays, control
<1>1. TypeOK'
  BY RunsAssumption, Holders DEF TypeOK, MainPlaces, RunInv, Alive
<1>2. LockInv'
  BY Holders DEF LockInv, TypeOK
<1>3. StageInv'
  BY WorkDevice DEF StageInv, TypeOK
<1>4. RunInv'
  BY RunsAssumption DEF RunInv, TypeOK, MainPlaces, Runs
<1> QED
  BY <1>1, <1>2, <1>3, <1>4

\* The publisher sends.
LEMMA StatusSendKeeps == ASSUME IInv, StatusSend PROVE IInv'
<1> USE DEF IInv, StatusSend, StatusStays, control
<1>1. TypeOK'
  BY RunsAssumption, Holders DEF TypeOK, MainPlaces, RunInv, Alive
<1>2. LockInv'
  BY Holders DEF LockInv, TypeOK
<1>3. StageInv'
  BY WorkDevice DEF StageInv, TypeOK
<1>4. RunInv'
  BY RunsAssumption DEF RunInv, TypeOK, MainPlaces, Runs
<1> QED
  BY <1>1, <1>2, <1>3, <1>4

\* A clock thread looks at g_killed.
LEMMA ClockTopKeeps == ASSUME IInv, NEW q \in Runs, ClockTop(q) PROVE IInv'
<1> USE DEF IInv, ClockTop, ClockStays, control
<1>1. TypeOK'
  BY RunsAssumption, Holders DEF TypeOK, MainPlaces, RunInv, Alive
<1>2. LockInv'
  BY Holders DEF LockInv, TypeOK
<1>3. StageInv'
  BY WorkDevice DEF StageInv, TypeOK
<1>4. RunInv'
  BY RunsAssumption DEF RunInv, TypeOK, MainPlaces, Runs
<1> QED
  BY <1>1, <1>2, <1>3, <1>4

\* A clock thread reads the port.
LEMMA ClockReadKeeps == ASSUME IInv, NEW q \in Runs, ClockRead(q) PROVE IInv'
<1> USE DEF IInv, ClockRead, ClockStays, control
<1>1. TypeOK'
  BY RunsAssumption, Holders DEF TypeOK, MainPlaces, RunInv, Alive
<1>2. LockInv'
  BY Holders DEF LockInv, TypeOK
<1>3. StageInv'
  BY WorkDevice DEF StageInv, TypeOK
<1>4. RunInv'
  BY RunsAssumption DEF RunInv, TypeOK, MainPlaces, Runs
<1> QED
  BY <1>1, <1>2, <1>3, <1>4

\* A clock thread gets the lock.
LEMMA ClockLockKeeps == ASSUME IInv, NEW q \in Runs, ClockLock(q) PROVE IInv'
<1> USE DEF IInv, ClockLock, ClockStays, control
<1>1. TypeOK'
  BY RunsAssumption, Holders DEF TypeOK, MainPlaces, RunInv, Alive
<1>2. LockInv'
  BY Holders DEF LockInv, TypeOK
<1>3. StageInv'
  BY WorkDevice DEF StageInv, TypeOK
<1>4. RunInv'
  BY RunsAssumption DEF RunInv, TypeOK, MainPlaces, Runs
<1> QED
  BY <1>1, <1>2, <1>3, <1>4

\* A clock thread returns.
LEMMA ClockReturnKeeps == ASSUME IInv, NEW q \in Runs, ClockReturn(q) PROVE IInv'
<1> USE DEF IInv, ClockReturn, ClockStays, control
<1>1. TypeOK'
  BY RunsAssumption, Holders DEF TypeOK, MainPlaces, RunInv, Alive
<1>2. LockInv'
  BY Holders DEF LockInv, TypeOK
<1>3. StageInv'
  BY WorkDevice DEF StageInv, TypeOK
<1>4. RunInv'
  BY RunsAssumption DEF RunInv, TypeOK, MainPlaces, Runs
<1> QED
  BY <1>1, <1>2, <1>3, <1>4

\* No step of any thread breaks the invariant.
LEMMA NextInv == IInv /\ [Next]_vars => IInv'
<1> SUFFICES ASSUME IInv, [Next]_vars PROVE IInv'
  OBVIOUS
<1>1. CASE MainStep
  BY <1>1, BootKeeps, InitializeKeeps, ConfigRefusedKeeps,
     CreateModemsKeeps, LeaveLoopKeeps, CloseModemsKeeps, StopPublisherKeeps, JoinPublisherKeeps, LockManagerKeeps, StopDeviceKeeps, WaitDeviceKeeps, ClearedKeeps, EndedKeeps DEF MainStep
<1>2. CASE \E sig \in {"HUP", "TERM"} : Deliver(sig)
  BY <1>2, DeliverKeeps
<1>3. CASE \E w \in Work : WorkStep(w)
  BY <1>3, WorkCallKeeps, WorkLockKeeps, WorkReturnKeeps, WorkEndKeeps DEF WorkStep
<1>4. CASE StatusStep
  BY <1>4, StatusTopKeeps, StatusLockKeeps, StatusBuiltKeeps, StatusSendKeeps DEF StatusStep
<1>5. CASE \E r \in Runs : ClockStep(r)
  BY <1>5, ClockTopKeeps, ClockReadKeeps, ClockLockKeeps, ClockReturnKeeps DEF ClockStep
<1>6. CASE UNCHANGED vars
  BY <1>6 DEF vars, IInv, TypeOK, LockInv, StageInv, RunInv
<1> QED
  BY <1>1, <1>2, <1>3, <1>4, <1>5, <1>6 DEF Next

-----------------------------------------------------------------------------

\* The inductive invariant holds throughout.
THEOREM LifecycleInvariant == Spec => []IInv
<1>1. Init => IInv
  BY InitInv
<1>2. IInv /\ [Next]_vars => IInv'
  BY NextInv
<1> QED
  BY <1>1, <1>2, PTL DEF Spec

\* Places, flags and the lock keep their types through every restart.
THEOREM LifecycleTypes == Spec => []TypeOK
<1>1. IInv => TypeOK
  BY DEF IInv
<1> QED
  BY <1>1, LifecycleInvariant, PTL

\* shutdown() releases no block and closes no socket that a thread still uses.
THEOREM NothingReleasedInUse == Spec => []ReleasedIsUnused
<1>1. IInv => ReleasedIsUnused
  BY DEF IInv, StageInv, ReleasedIsUnused
<1> QED
  BY <1>1, LifecycleInvariant, PTL

\* A restart finds neither a publisher nor a work thread of the last run.
THEOREM RestartIsFresh == Spec => []FreshStart
<1>1. IInv => FreshStart
  BY WorkDevice DEF IInv, StageInv, FreshStart
<1> QED
  BY <1>1, LifecycleInvariant, PTL

\* While shutdown() waits for a flowgraph it holds the lock: a work thread that
\* asks for it takes no step.  This is why the wait need not end.
THEOREM WaitsUnderLock ==
  Spec => [][main = "wait" => \A w \in Work : work[w] = "want" => work'[w] = "want"]_vars
<1>1. IInv /\ [Next]_vars =>
        [main = "wait" => \A w \in Work : work[w] = "want" => work'[w] = "want"]_vars
  <2> SUFFICES ASSUME IInv, Next, main = "wait", NEW w \in Work, work[w] = "want"
               PROVE  work'[w] = "want"
    BY DEF vars
  <2> USE DEF IInv, TypeOK, threads, control
  <2>1. m_lock = MainThread
    BY DEF LockInv
  <2>2. CASE MainStep
    BY <2>2 DEF MainStep, Boot, Initialize, ConfigRefused, CreateModems, LeaveLoop, CloseModems, StopPublisher,
      JoinPublisher, LockManager, StopDevice, WaitDevice, Cleared, Ended
  <2>3. CASE \E sig \in {"HUP", "TERM"} : Deliver(sig)
    BY <2>3 DEF Deliver
  <2>4. CASE \E v \in Work : WorkStep(v)
    BY <2>1, <2>4, Holders DEF WorkStep, WorkCall, WorkLock, WorkReturn, WorkEnd, WorkStays
  <2>5. CASE StatusStep
    BY <2>5 DEF StatusStep, StatusTop, StatusLock, StatusBuilt, StatusSend, StatusStays
  <2>6. CASE \E r \in Runs : ClockStep(r)
    BY <2>6 DEF ClockStep, ClockTop, ClockRead, ClockLock, ClockReturn, ClockStays
  <2> QED
    BY <2>2, <2>3, <2>4, <2>5, <2>6 DEF Next
<1> QED
  BY <1>1, LifecycleInvariant, PTL DEF Spec

-----------------------------------------------------------------------------
(* Control: the receivers and the identifier at a change of mode *)

\* The receivers a block is fed to in a mode, but for the base station's.
FedIn(mode) ==
  CASE mode = "IDLE" -> {"p25RX", "nxdnRX"} \cup (IF m_duplex THEN {} ELSE {"dmrDMORX"})
    [] mode = "DMR"  -> IF m_duplex THEN {} ELSE {"dmrDMORX"}
    [] mode = "P25"  -> {"p25RX"}
    [] mode = "NXDN" -> {"nxdnRX"}
    [] OTHER         -> {}

InDmr(mode) == mode \in {"IDLE", "DMR"}

\* A receiver that is live is one the mode feeds, so that none is ever paused; but the base
\* station's two, which are clear where they are not fed at all.
ReceiverInv ==
  /\ \A r \in C!Receivers \ C!BaseStation :
       held[r] \in {"clear", "live"} /\ (held[r] = "live" => r \in FedIn(m_modemState))
  /\ \A r \in C!BaseStation :
       held[r] # "stale" /\ (held[r] # "clear" => InDmr(m_modemState))

\* Something is left of an identifier only in the mode that sends it.
IdentifierInv == left["CW"] > 0 => m_modemState = "IDLE"

ControlInv == C!TypeOK /\ ReceiverInv /\ IdentifierInv

\* What each mode feeds, and what it does not feed it resets; from a voice mode the
\* watchdog leads to one that feeds all the same receivers.
LEMMA ModesFeed ==
  ASSUME NEW mode \in C!Modes, m_duplex \in BOOLEAN
  PROVE  /\ FedIn(mode) \subseteq FedIn("IDLE")
         /\ mode # "IDLE" =>
              C!Receivers \ C!ResetBy(mode) \subseteq {"p25RX", "dmrDMORX"} \cup C!BaseStation
         /\ "p25RX" \notin C!ResetBy(mode) => mode \in {"IDLE", "P25"}
         /\ "dmrDMORX" \notin C!ResetBy(mode) => mode \in {"IDLE", "DMR"}
         /\ "nxdnRX" \notin C!ResetBy(mode) => mode = "IDLE"
         /\ "cwIdTX" \notin C!ResetBy(mode) => mode = "IDLE"
         /\ ~InDmr(mode) => C!BaseStation \subseteq C!ResetBy(mode)
  BY DEF FedIn, InDmr, C!Modes, C!VoiceModes, C!CalModes, C!Receivers, C!BaseStation, C!ResetBy

LEMMA ControlStarts == C!Init => ControlInv
<1> SUFFICES ASSUME C!Init PROVE ControlInv
  OBVIOUS
<1>1. C!TypeOK
  <2>1. 0 \in 0 .. RingLen /\ 0 \in 0 .. WatchdogLimit /\ 0 \in 0 .. PortLen
    BY ConstantsFit DEF C!ControlAssumption
  <2>2. /\ [e \in C!Engines |-> 0] \in [C!Engines -> 0 .. 1]
        /\ [r \in C!Receivers |-> "clear"] \in [C!Receivers -> {"clear", "live", "paused", "stale"}]
    OBVIOUS
  <2>3. QED
    BY <2>1, <2>2 DEF C!Init, C!TypeOK, C!Modes
<1>2. ReceiverInv /\ IdentifierInv
  BY DEF C!Init, ReceiverInv, IdentifierInv, C!Engines, C!Receivers, C!BaseStation
<1>3. QED
  BY <1>1, <1>2 DEF ControlInv

\* A change of mode by a command leaves live what the new mode feeds.
LEMMA EnteringKeeps ==
  ASSUME ControlInv, NEW mode \in C!Modes, C!EnterMode(mode), m_duplex' = m_duplex
  PROVE  /\ m_modemState' \in C!Modes
         /\ held' \in [C!Receivers -> {"clear", "live", "paused", "stale"}]
         /\ ReceiverInv'
<1>1. /\ m_modemState' = mode /\ m_duplex \in BOOLEAN /\ m_modemState \in C!Modes
      /\ held \in [C!Receivers -> {"clear", "live", "paused", "stale"}]
      /\ held' = [r \in C!Receivers |-> IF r \in C!ResetBy(mode) THEN "clear" ELSE held[r]]
  BY DEF ControlInv, C!TypeOK, C!EnterMode
<1>2. ASSUME NEW r \in C!Receivers \ C!BaseStation, held'[r] = "live"
      PROVE  r \in FedIn(mode)
  <2>1. r \notin C!ResetBy(mode) /\ held[r] = "live"
    BY <1>1, <1>2
  <2>2. r \in FedIn(m_modemState)
    BY <2>1 DEF ControlInv, ReceiverInv
  <2>3. CASE mode = "IDLE"
    BY <1>1, <2>2, <2>3, ModesFeed
  <2>4. CASE mode # "IDLE"
    <3>1. r \in {"p25RX", "dmrDMORX"} /\ (r = "p25RX" => mode = "P25") /\ (r = "dmrDMORX" => mode = "DMR")
      BY <1>1, <2>1, <2>4, ModesFeed
    <3>2. r = "dmrDMORX" => ~m_duplex
      BY <2>2 DEF FedIn
    <3>3. QED
      BY <1>1, <3>1, <3>2 DEF FedIn
  <2>5. QED
    BY <2>3, <2>4
<1>3. \A r \in C!Receivers \ C!BaseStation : held'[r] \in {"clear", "live"}
  BY <1>1 DEF ControlInv, ReceiverInv
<1>4. \A r \in C!BaseStation : held'[r] # "stale" /\ (held'[r] # "clear" => InDmr(mode))
  <2>1. C!BaseStation \subseteq C!Receivers
    BY DEF C!Receivers
  <2>2. QED
    BY <1>1, <2>1, ModesFeed DEF ControlInv, ReceiverInv
<1>5. FedIn(mode)' = FedIn(mode)
  BY DEF FedIn
<1>6. QED
  BY <1>1, <1>2, <1>3, <1>4, <1>5 DEF ReceiverInv, FedIn

\* A block makes live what the mode feeds, and pauses one of the base station's two at
\* most; the watchdog leads from a voice mode to IDLE.
LEMMA FeedingKeeps ==
  ASSUME ControlInv
  PROVE  /\ C!ModeNow \in C!Modes
         /\ [r \in C!Receivers |-> C!HeldAfter(r)] \in [C!Receivers -> {"clear", "live", "paused", "stale"}]
         /\ \A r \in C!Receivers \ C!BaseStation :
              /\ held[r] = "live" => r \in FedIn(C!ModeNow)
              /\ C!HeldAfter(r) \in {"clear", "live"}
              /\ C!HeldAfter(r) = "live" => r \in FedIn(C!ModeNow)
         /\ \A r \in C!BaseStation :
              /\ held[r] # "clear" => InDmr(C!ModeNow)
              /\ C!HeldAfter(r) # "stale" /\ (C!HeldAfter(r) # "clear" => InDmr(C!ModeNow))
<1>1. m_modemState \in C!Modes /\ m_duplex \in BOOLEAN /\ held \in [C!Receivers -> {"clear", "live", "paused", "stale"}]
      /\ C!BaseStation \subseteq C!Receivers
  BY DEF ControlInv, C!TypeOK, C!Receivers
<1>2. C!ModeNow \in C!Modes /\ (C!ModeNow = "IDLE" \/ C!ModeNow = m_modemState)
  BY <1>1 DEF C!ModeNow, C!Modes
<1>3. /\ \A r \in C!Receivers \ C!BaseStation : r \in C!Fed <=> r \in FedIn(C!ModeNow)
      /\ \A r \in C!BaseStation : r \in C!Fed => InDmr(C!ModeNow)
  BY DEF C!Fed, C!Dmr, FedIn, InDmr, C!Receivers, C!BaseStation
<1>4. \A r \in C!Receivers \ C!BaseStation : held[r] = "live" => r \in FedIn(C!ModeNow)
  BY <1>1, <1>2, ModesFeed DEF ControlInv, ReceiverInv
<1>5. \A r \in C!BaseStation : held[r] # "clear" => InDmr(C!ModeNow)
  BY <1>1, <1>2 DEF ControlInv, ReceiverInv, InDmr
<1>6. \A r \in C!Receivers : C!HeldAfter(r) \in {"clear", "live", "paused", "stale"}
  BY <1>1 DEF C!HeldAfter
<1>7. \A r \in C!Receivers \ C!BaseStation :
        /\ C!HeldAfter(r) \in {"clear", "live"}
        /\ C!HeldAfter(r) = "live" => r \in FedIn(C!ModeNow)
  <2>1. \A r \in C!Receivers \ C!BaseStation : held[r] \in {"clear", "live"}
    BY DEF ControlInv, ReceiverInv
  <2>2. QED
    BY <1>3, <1>4, <2>1 DEF C!HeldAfter
<1>8. \A r \in C!BaseStation :
        C!HeldAfter(r) # "stale" /\ (C!HeldAfter(r) # "clear" => InDmr(C!ModeNow))
  <2>1. \A r \in C!BaseStation : held[r] # "stale" /\ held[r] \in {"clear", "live", "paused", "stale"}
    BY <1>1 DEF ControlInv, ReceiverInv
  <2>2. QED
    BY <1>3, <1>5, <2>1 DEF C!HeldAfter, InDmr
<1>9. QED
  BY <1>2, <1>4, <1>5, <1>6, <1>7, <1>8

\* An engine keeps its counts, and the identifier's in IDLE.
LEMMA EngineKeeps ==
  ASSUME ControlInv, NEW mode \in C!Modes, mode \in {m_modemState, "IDLE"},
         NEW rotates \in BOOLEAN, NEW tx \in BOOLEAN, C!Engine(mode, rotates, tx)
  PROVE  /\ rotation' \in BOOLEAN /\ m_tx' \in BOOLEAN /\ ring' \in 0 .. RingLen
         /\ quiet' \in BOOLEAN /\ left' \in [C!Engines -> 0 .. 1]
         /\ left'["CW"] > 0 => mode = "IDLE"
<1> DEFINE sends == C!Sends(mode, rotates)
           writes == sends /\ ring < RingLen
           counts == writes /\ mode \in {"IDLE"} \cup C!VoiceModes /\ ~(mode = "DMR" /\ m_duplex)
<1>1. /\ m_duplex \in BOOLEAN /\ m_transmit \in BOOLEAN /\ ring \in 0 .. RingLen
      /\ left \in [C!Engines -> 0 .. 1] /\ RingLen \in Nat \ {0}
  BY ConstantsFit DEF ControlInv, C!TypeOK, C!ControlAssumption
<1>3. /\ rotation' = (IF mode = "DMR_CAL" THEN m_transmit ELSE rotates)
      /\ m_tx' = (tx \/ sends)
      /\ ring' = (IF writes THEN RingLen ELSE ring)
      /\ quiet' = ~writes
      /\ left' = (IF counts THEN [left EXCEPT ![C!Counted(mode)] = @ - 1] ELSE left)
  BY DEF C!Engine
<1>4. rotation' \in BOOLEAN /\ m_tx' \in BOOLEAN /\ ring' \in 0 .. RingLen /\ quiet' \in BOOLEAN
  <2>1. rotation' \in BOOLEAN /\ ring' \in 0 .. RingLen
    BY <1>1, <1>3
  <2>2. m_tx' \in BOOLEAN /\ quiet' \in BOOLEAN
    BY <1>3
  <2>3. QED
    BY <2>1, <2>2
<1>5. CASE counts
  <2>1. C!Counted(mode) \in C!Engines /\ left[C!Counted(mode)] = 1
    BY <1>1, <1>5 DEF C!Sends, C!Counted, C!EngineOf, C!Engines, C!VoiceModes
  <2>2. left' = [left EXCEPT ![C!Counted(mode)] = @ - 1]
    BY <1>3, <1>5
  <2>3. left' \in [C!Engines -> 0 .. 1]
    BY <1>1, <2>1, <2>2
  <2>4. left'["CW"] > 0 => left["CW"] > 0
    BY <1>1, <2>1, <2>2 DEF C!Engines
  <2>5. QED
    BY <1>4, <2>3, <2>4 DEF ControlInv, IdentifierInv
<1>6. CASE ~counts
  BY <1>1, <1>3, <1>4, <1>6 DEF ControlInv, IdentifierInv
<1>7. QED
  BY <1>5, <1>6

LEMMA ControlHolds == ControlInv /\ [C!Next]_controlVars => ControlInv'
<1> SUFFICES ASSUME ControlInv, [C!Next]_controlVars PROVE ControlInv'
  OBVIOUS
<1> USE DEF C!portVars, C!txVars
<1>0. /\ host \in {"up", "gone"} /\ m_modemState \in C!Modes /\ m_duplex \in BOOLEAN
      /\ m_tx \in BOOLEAN /\ rotation \in BOOLEAN /\ m_transmit \in BOOLEAN
      /\ left \in [C!Engines -> 0 .. 1] /\ ring \in 0 .. RingLen /\ quiet \in BOOLEAN
      /\ m_watchdog \in 0 .. WatchdogLimit /\ turn \in {"begin", "report"}
      /\ unread \in 0 .. PortLen /\ held \in [C!Receivers -> {"clear", "live", "paused", "stale"}]
      /\ WatchdogLimit \in Nat \ {0} /\ RingLen \in Nat \ {0} /\ PortLen \in Nat \ {0}
      /\ ReceiverInv /\ IdentifierInv
  BY ConstantsFit DEF ControlInv, C!TypeOK, C!ControlAssumption
<1>1. ASSUME NEW mode \in C!Modes, C!SetMode(mode) PROVE ControlInv'
  <2>1. /\ C!EnterMode(mode) /\ left' = C!LeftIn(mode, left)
        /\ UNCHANGED <<host, m_duplex, m_tx, rotation, m_transmit, ring, quiet, m_watchdog,
                       turn, unread>>
    BY <1>1 DEF C!SetMode
  <2>2. left' \in [C!Engines -> 0 .. 1]
    <3>1. CASE "cwIdTX" \in C!ResetBy(mode)
      <4>1. left' = [left EXCEPT !["CW"] = 0]
        BY <2>1, <3>1 DEF C!LeftIn
      <4>2. QED
        BY <1>0, <4>1 DEF C!Engines
    <3>2. CASE "cwIdTX" \notin C!ResetBy(mode)
      <4>1. left' = [left EXCEPT !["CW"] = left["CW"]]
        BY <2>1, <3>2 DEF C!LeftIn
      <4>2. QED
        BY <1>0, <4>1 DEF C!Engines
    <3>3. QED
      BY <3>1, <3>2
  <2>3. IdentifierInv'
    BY <1>0, <2>1, ModesFeed DEF C!LeftIn, IdentifierInv, C!EnterMode, C!Engines
  <2>4. QED
    BY <1>0, <2>1, <2>2, <2>3, EnteringKeeps DEF ControlInv, C!TypeOK
<1>2. ASSUME NEW mode \in C!VoiceModes, C!Data(mode) PROVE ControlInv'
  <2> DEFINE then == IF mode = "DMR" /\ m_duplex THEN left ELSE [left EXCEPT ![C!EngineOf(mode)] = 1]
  <2>1. /\ m_modemState \in {"IDLE", mode} /\ mode \in C!Modes /\ mode # "IDLE"
        /\ left' = IF m_modemState = "IDLE" THEN C!LeftIn(mode, then) ELSE then
        /\ rotation' = (rotation \/ (mode = "DMR" /\ m_duplex /\ ~m_tx))
        /\ UNCHANGED <<host, m_duplex, m_tx, m_transmit, ring, quiet, m_watchdog, turn, unread>>
    BY <1>2 DEF C!Data, C!Modes, C!VoiceModes
  <2>2. /\ then \in [C!Engines -> 0 .. 1] /\ then["CW"] = left["CW"]
        /\ "CW" \in C!Engines
    BY <1>0 DEF C!EngineOf, C!Engines
  <2>3. left' \in [C!Engines -> 0 .. 1] /\ rotation' \in BOOLEAN
    <3>1. C!LeftIn(mode, then) \in [C!Engines -> 0 .. 1]
      BY <2>2 DEF C!LeftIn
    <3>2. left' \in {C!LeftIn(mode, then), then}
      BY <2>1
    <3>3. rotation' \in BOOLEAN
      BY <1>0, <2>1
    <3>4. QED
      BY <2>2, <3>1, <3>2, <3>3
  <2>4. CASE m_modemState = "IDLE"
    <3>1. C!EnterMode(mode)
      BY <1>2, <2>4 DEF C!Data
    <3>2. left'["CW"] = 0
      BY <2>1, <2>2, <2>4, ModesFeed, <1>0 DEF C!LeftIn
    <3>3. QED
      <4>1. /\ m_modemState' \in C!Modes /\ ReceiverInv'
            /\ held' \in [C!Receivers -> {"clear", "live", "paused", "stale"}]
        BY <2>1, <3>1, EnteringKeeps
      <4>2. IdentifierInv'
        BY <3>2 DEF IdentifierInv
      <4>3. QED
        BY <1>0, <2>1, <2>3, <4>1, <4>2 DEF ControlInv, C!TypeOK
  <2>5. CASE m_modemState # "IDLE"
    <3>1. UNCHANGED <<m_modemState, held>>
      BY <1>2, <2>5 DEF C!Data
    <3>2. QED
      BY <1>0, <2>1, <2>2, <2>3, <2>5, <3>1
      DEF ControlInv, C!TypeOK, IdentifierInv, ReceiverInv, FedIn
  <2>6. QED
    BY <2>4, <2>5
<1>3. CASE C!LongData \/ C!SendCwId
  <2>1. /\ left' \in [C!Engines -> 0 .. 1] /\ IdentifierInv'
        /\ UNCHANGED <<host, m_modemState, m_duplex, m_tx, rotation, m_transmit, ring, quiet,
                       m_watchdog, turn, unread, held>>
    BY <1>0, <1>3 DEF C!LongData, C!SendCwId, C!Engines, IdentifierInv
  <2>2. QED
    BY <1>0, <2>1 DEF ControlInv, C!TypeOK, ReceiverInv, FedIn
<1>4. CASE \E on \in BOOLEAN : C!DmrStart(on) \/ C!CalData(on)
  BY <1>0, <1>4 DEF C!DmrStart, C!CalData, ControlInv, C!TypeOK, ReceiverInv, FedIn, IdentifierInv
<1>5. CASE C!GetStatus \/ C!HostGone \/ C!HostReads
  BY <1>0, <1>5
  DEF C!GetStatus, C!HostGone, C!HostReads, ControlInv, C!TypeOK, ReceiverInv, FedIn, IdentifierInv
<1>6. ASSUME C!Begin, turn' \in {"begin", "report"}, unread' \in 0 .. PortLen,
             left' \in [C!Engines -> 0 .. 1], left'["CW"] > 0 => m_modemState' = "IDLE",
             ring' \in 0 .. RingLen, quiet' \in BOOLEAN, rotation' \in BOOLEAN, m_tx' \in BOOLEAN,
             held' = held \/ held' = [r \in C!Receivers |-> C!HeldAfter(r)]
      PROVE  ControlInv'
  <2>1. /\ m_modemState' = C!ModeNow /\ UNCHANGED <<host, m_duplex, m_transmit>>
        /\ m_watchdog' \in 0 .. WatchdogLimit
    BY <1>0, <1>6 DEF C!Begin
  <2>2. C!ModeNow \in C!Modes /\ FedIn(m_modemState)' = FedIn(C!ModeNow)
    BY <2>1, FeedingKeeps DEF FedIn
  <2>3. held' \in [C!Receivers -> {"clear", "live", "paused", "stale"}]
    BY <1>0, <1>6, FeedingKeeps
  <2>5. /\ \A r \in C!Receivers \ C!BaseStation :
             held'[r] \in {"clear", "live"} /\ (held'[r] = "live" => r \in FedIn(C!ModeNow))
        /\ \A r \in C!BaseStation :
             held'[r] # "stale" /\ (held'[r] # "clear" => InDmr(C!ModeNow))
    <3>1. CASE held' = held
      BY <1>0, <3>1, FeedingKeeps DEF ReceiverInv
    <3>2. CASE held' = [r \in C!Receivers |-> C!HeldAfter(r)]
      BY <3>2, FeedingKeeps DEF C!Receivers
    <3>3. QED
      BY <1>6, <3>1, <3>2
  <2>4. QED
    BY <1>0, <1>6, <2>1, <2>2, <2>3, <2>5 DEF ControlInv, C!TypeOK, ReceiverInv, IdentifierInv, InDmr
<1>7. C!RotationNow \in BOOLEAN /\ C!TxNow \in BOOLEAN /\ C!ModeNow \in {m_modemState, "IDLE"}
  BY <1>0 DEF C!RotationNow, C!TxNow, C!ModeNow
<1>8. CASE C!Turn
  <2>1. C!Begin /\ turn' = "begin" /\ C!Engine(C!ModeNow, C!RotationNow, C!TxNow)
    BY <1>8 DEF C!Turn
  <2>2. unread' \in 0 .. PortLen /\ (held' = held \/ held' = [r \in C!Receivers |-> C!HeldAfter(r)])
    BY <1>0, <1>8 DEF C!Turn
  <2>3. m_modemState' = C!ModeNow /\ C!ModeNow \in C!Modes
    BY <2>1, FeedingKeeps DEF C!Begin
  <2>4. QED
    BY <1>6, <1>7, <2>1, <2>2, <2>3, EngineKeeps
<1>9. CASE C!TurnBlocks
  <2>1. /\ C!Begin /\ turn' = "report" /\ UNCHANGED <<left, ring, quiet, unread>>
        /\ held' = [r \in C!Receivers |-> C!HeldAfter(r)]
        /\ rotation' = C!RotationNow /\ m_tx' = C!TxNow
    BY <1>9 DEF C!TurnBlocks
  <2>2. left'["CW"] > 0 => m_modemState' = "IDLE"
    BY <1>0, <1>7, <2>1 DEF IdentifierInv, C!Begin
  <2>3. QED
    BY <1>0, <1>6, <1>7, <2>1, <2>2
<1>10. CASE C!TurnGoesOn
  <2>1. /\ turn' = "begin" /\ unread' = unread + 1 /\ unread < PortLen
        /\ C!Engine(m_modemState, rotation, m_tx)
        /\ UNCHANGED <<host, m_modemState, m_duplex, m_transmit, m_watchdog, held>>
    BY <1>10 DEF C!TurnGoesOn
  <2>2. QED
    BY <1>0, <2>1, EngineKeeps DEF ControlInv, C!TypeOK, ReceiverInv, FedIn, IdentifierInv
<1>11. CASE C!Interrupt
  BY <1>0, <1>11 DEF C!Interrupt, ControlInv, C!TypeOK, ReceiverInv, FedIn, IdentifierInv
<1>12. CASE UNCHANGED controlVars
  BY <1>0, <1>12 DEF controlVars, ControlInv, C!TypeOK, ReceiverInv, FedIn, IdentifierInv
<1>13. QED
  BY <1>1, <1>2, <1>3, <1>4, <1>5, <1>8, <1>9, <1>10, <1>11, <1>12 DEF C!Next, C!Host, C!Clock

-----------------------------------------------------------------------------
(* Settings: the modem and its channel *)

ModemFields ==
  [mode : S!Modes, colorCode : [S!Colored -> 0 .. MaxColorCode], symbols : [S!Engines -> Values],
   buffer : [S!Engines -> Values], rxLevel : Values, polarity : BOOLEAN, frequencies : Pairs]

AsideFields == [debug : BOOLEAN, power : Values, bandwidth : Values]

ChannelFields ==
  [polarity : BOOLEAN, frequencies : Pairs \cup {<<>>}, power : Values, afc : BOOLEAN]

SettingsInv ==
  /\ modem \in ModemFields /\ aside \in AsideFields /\ channel \in ChannelFields
  /\ answer \in {"ACK", "NAK"} /\ S!ChannelAgrees

\* SettingsInv has the types.
LEMMA SettingsTyped == SettingsInv => S!TypeOK
  BY DEF S!TypeOK, SettingsInv, ModemFields, ChannelFields, AsideFields

LEMMA SettingsStart == S!Init => SettingsInv
<1> SUFFICES ASSUME S!Init PROVE SettingsInv
  OBVIOUS
<1>1. 0 \in Values /\ <<1, 1>> \in Pairs /\ 0 \in 0 .. MaxColorCode
  BY ConstantsFit DEF S!SettingsAssumption, Pairs
<1>2. modem \in ModemFields
  BY <1>1 DEF S!Init, ModemFields, S!Modes
<1>3. channel \in ChannelFields /\ S!ChannelAgrees
  BY <1>1 DEF S!Init, ChannelFields, S!ChannelAgrees
<1>4. aside \in AsideFields /\ answer \in {"ACK", "NAK"}
  BY <1>1 DEF S!Init, AsideFields
<1>5. QED
  BY <1>2, <1>3, <1>4 DEF SettingsInv

\* What one command may do: a refusal leaves all but what is set before the last value is
\* checked, and what is set is set in the modem and in its channel.
LEMMA SettingsHold ==
  ASSUME SettingsInv, [S!Next]_settingVars
  PROVE  SettingsInv' /\ (S!Next => S!RefusedStays)
<1> USE DEF ModemFields, AsideFields, ChannelFields, S!ChannelAgrees
<1>0. /\ modem \in ModemFields /\ aside \in AsideFields /\ channel \in ChannelFields
      /\ S!ChannelAgrees /\ answer \in {"ACK", "NAK"}
      /\ ColorCodes \subseteq Nat /\ MaxColorCode \in Nat /\ Pairs \ {<<9, 9>>} \subseteq Pairs
  BY ConstantsFit DEF SettingsInv, S!SettingsAssumption
<1>1. /\ channel = [channel EXCEPT !.afc = channel.afc]
      /\ aside = [aside EXCEPT !.debug = aside.debug]
  BY <1>0
<1>2. CASE S!Refuse \/ UNCHANGED settingVars
  <2>1. UNCHANGED <<modem, aside, channel>> /\ answer' \in {"ACK", "NAK"}
    BY <1>0, <1>2 DEF S!Refuse, settingVars
  <2>2. S!RefusedStays
    BY <1>1, <2>1 DEF S!RefusedStays
  <2>3. QED
    BY <1>0, <2>1, <2>2 DEF SettingsInv
<1>3. ASSUME NEW mode \in S!Asked, NEW code \in ColorCodes, NEW level \in Values,
             NEW inverted \in BOOLEAN, NEW debug \in BOOLEAN,
             S!SetConfig(mode, code, inverted, level, debug)
      PROVE  SettingsInv' /\ S!RefusedStays
  <2>0. aside' = [aside EXCEPT !.debug = debug] /\ aside' \in AsideFields /\ aside'.debug = debug
    BY <1>0, <1>3 DEF S!SetConfig
  <2>1. CASE S!ModeIsValid(mode) /\ code <= MaxColorCode
    <3>1. /\ modem' = S!Configured(mode, code, inverted, level)
          /\ channel' = [channel EXCEPT !.polarity = inverted] /\ answer' = "ACK"
      BY <1>3, <2>1 DEF S!SetConfig
    <3>2. modem' \in ModemFields /\ modem'.polarity = inverted
                                 /\ modem'.frequencies = modem.frequencies
      <4>1. code \in 0 .. MaxColorCode
        BY <1>0, <2>1
      <4>2. QED
        BY <1>0, <2>1, <3>1, <4>1 DEF S!Configured, S!ModeIsValid
    <3>3. channel' \in ChannelFields /\ S!ChannelAgrees'
      BY <1>0, <3>1, <3>2
    <3>4. QED
      BY <2>0, <3>1, <3>2, <3>3 DEF SettingsInv, S!RefusedStays
  <2>2. CASE ~(S!ModeIsValid(mode) /\ code <= MaxColorCode)
    <3>1. UNCHANGED <<modem, channel>> /\ answer' = "NAK"
      BY <1>3, <2>2 DEF S!SetConfig
    <3>2. S!RefusedStays
      BY <1>1, <2>0, <3>1 DEF S!RefusedStays
    <3>3. QED
      BY <1>0, <2>0, <3>1, <3>2 DEF SettingsInv
  <2>3. QED
    BY <2>1, <2>2
<1>4. ASSUME NEW mode \in S!Asked, S!SetMode(mode)
      PROVE  SettingsInv' /\ S!RefusedStays
  BY <1>0, <1>4 DEF S!SetMode, S!ModeIsValid, SettingsInv, S!RefusedStays
<1>5. ASSUME NEW value \in Values,
             S!SetSymbolLvlAdj(value) \/ S!SetRXLevel(value) \/ S!SetBuffers(value)
      PROVE  SettingsInv' /\ S!RefusedStays
  <2>1. /\ UNCHANGED <<aside, channel>> /\ answer' = "ACK"
        /\ \/ modem' = [modem EXCEPT !.symbols = [e \in S!Engines |-> value]]
           \/ modem' = [modem EXCEPT !.rxLevel = value]
           \/ modem' = [modem EXCEPT !.buffer = [e \in S!Engines |-> value]]
    BY <1>5 DEF S!SetSymbolLvlAdj, S!SetRXLevel, S!SetBuffers
  <2>2. [e \in S!Engines |-> value] \in [S!Engines -> Values]
    OBVIOUS
  <2>3. modem' \in ModemFields /\ modem'.polarity = modem.polarity
                               /\ modem'.frequencies = modem.frequencies
    BY <1>0, <2>1, <2>2
  <2>4. QED
    BY <1>0, <2>1, <2>3 DEF SettingsInv, S!RefusedStays
<1>6. ASSUME NEW asked \in Pairs, NEW power \in Values, NEW width \in Values,
             NEW enable \in BOOLEAN, NEW ranged \in BOOLEAN,
             S!SetRFParams(asked, power, width, enable, ranged)
      PROVE  SettingsInv' /\ S!RefusedStays
  <2>0. aside' = [aside EXCEPT !.power = power, !.bandwidth = width]
        /\ aside' \in AsideFields /\ aside'.debug = aside.debug
    BY <1>0, <1>6 DEF S!SetRFParams
  <2>1. S!SetAfc(enable, ranged) = [channel EXCEPT !.afc = (enable \/ ranged)]
    BY DEF S!SetAfc
  <2>2. CASE asked \in Pairs \ {<<9, 9>>}
    <3>1. /\ modem' = [modem EXCEPT !.frequencies = asked] /\ answer' = "ACK"
          /\ channel' = [S!SetAfc(enable, ranged) EXCEPT !.polarity = modem.polarity,
                                                         !.frequencies = asked, !.power = power]
      BY <1>6, <2>2 DEF S!SetRFParams
    <3>2. modem' \in ModemFields /\ channel' \in ChannelFields
      BY <1>0, <2>1, <3>1
    <3>3. S!ChannelAgrees'
      BY <1>0, <2>1, <3>1
    <3>4. QED
      BY <2>0, <3>1, <3>2, <3>3 DEF SettingsInv, S!RefusedStays
  <2>3. CASE asked \notin Pairs \ {<<9, 9>>}
    <3>1. modem' = modem /\ channel' = S!SetAfc(enable, ranged) /\ answer' = "NAK"
      BY <1>6, <2>3 DEF S!SetRFParams
    <3>2. channel' \in ChannelFields /\ S!ChannelAgrees'
      BY <1>0, <2>1, <3>1
    <3>3. channel' = [channel EXCEPT !.afc = channel'.afc]
      BY <1>0, <2>1, <3>1
    <3>4. S!RefusedStays
      BY <2>0, <3>1, <3>3 DEF S!RefusedStays
    <3>5. QED
      BY <1>0, <2>0, <3>1, <3>2, <3>4 DEF SettingsInv
  <2>4. QED
    BY <2>2, <2>3
<1>7. QED
  BY <1>2, <1>3, <1>4, <1>5, <1>6 DEF S!Next, S!Refuse

-----------------------------------------------------------------------------
(* Port: bytes in a row *)

\* It does not matter where a sequence of three parts is put together first.
LEMMA JoinsEitherWay ==
  ASSUME NEW s \in Seq(Nat), NEW t \in Seq(Nat), NEW u \in Seq(Nat)
  PROVE  (s \o t) \o u = s \o (t \o u)
  BY ConcatAssociative, SMTT(30)

\* A sequence that is cut has both parts in it; and its first is the first of it.
LEMMA CutJoins ==
  ASSUME NEW s \in Seq(Nat), NEW n \in 0 .. Len(s)
  PROVE  /\ SubSeq(s, 1, n) \in Seq(Nat) /\ SubSeq(s, n + 1, Len(s)) \in Seq(Nat)
         /\ Len(SubSeq(s, 1, n)) = n /\ Len(SubSeq(s, n + 1, Len(s))) = Len(s) - n
         /\ SubSeq(s, 1, n) \o SubSeq(s, n + 1, Len(s)) = s
<1>1. Len(s) \in Nat /\ \A i \in 1 .. Len(s) : s[i] \in Nat
  BY LenProperties, ElementOfSeq
<1>2. /\ SubSeq(s, 1, n) \in Seq(Nat) /\ SubSeq(s, n + 1, Len(s)) \in Seq(Nat)
      /\ Len(SubSeq(s, 1, n)) = n /\ Len(SubSeq(s, n + 1, Len(s))) = Len(s) - n
  <2>1. /\ \A i \in 1 .. n : s[i] \in Nat
        /\ \A i \in n + 1 .. Len(s) : s[i] \in Nat
    BY <1>1
  <2>2. /\ SubSeq(s, 1, n) \in Seq(Nat)
        /\ Len(SubSeq(s, 1, n)) = IF 1 <= n THEN n - 1 + 1 ELSE 0
    BY <1>1, <2>1, SubSeqProperties
  <2>3. /\ SubSeq(s, n + 1, Len(s)) \in Seq(Nat)
        /\ Len(SubSeq(s, n + 1, Len(s))) = IF n + 1 <= Len(s) THEN Len(s) - (n + 1) + 1 ELSE 0
    BY <1>1, <2>1, SubSeqProperties
  <2>4. QED
    BY <1>1, <2>2, <2>3
<1>3. SubSeq(s, 1, n) \o SubSeq(s, n + 1, Len(s)) = SubSeq(s, 1, Len(s))
  <2>1. 1 \in 1 .. Len(s) + 1 /\ n \in 1 - 1 .. Len(s) /\ Len(s) \in n .. Len(s)
    BY <1>1
  <2>2. QED
    BY <2>1, ConcatAdjacentSubSeq
<1>4. QED
  BY <1>2, <1>3, SubSeqFull

LEMMA FirstJoins ==
  ASSUME NEW s \in Seq(Nat), s # <<>>
  PROVE  /\ <<Head(s)>> \in Seq(Nat) /\ Tail(s) \in Seq(Nat) /\ Len(Tail(s)) < Len(s)
         /\ <<Head(s)>> \o Tail(s) = s
<1>1. /\ Len(s) \in Nat \ {0} /\ Head(s) \in Nat /\ Tail(s) \in Seq(Nat)
      /\ Len(Tail(s)) = Len(s) - 1
  BY EmptySeq, HeadTailProperties
<1>2. SubSeq(s, 1, Len(s)) = <<s[1]>> \o SubSeq(s, 1 + 1, Len(s))
  <2>1. 1 \in 1 .. Len(s) /\ Len(s) \in 1 .. Len(s)
    BY <1>1
  <2>2. QED
    BY <2>1, SubSeqRecursiveFirst
<1>3. SubSeq(s, 1, Len(s)) = s /\ Tail(s) = SubSeq(s, 2, Len(s)) /\ 1 + 1 = 2
  BY SubSeqFull, TailIsSubSeq
<1>4. Head(s) = s[1]
  OBVIOUS
<1>5. QED
  BY <1>1, <1>2, <1>3, <1>4

\* What follows a count on and what precedes it in one are counts.
LEMMA CountGoesOn ==
  ASSUME NEW s \in Seq(Nat), NEW t \in Seq(Nat)
  PROVE  /\ P!IsCount(s) /\ (\A i \in 1 .. Len(t) : t[i] = Len(s) + i) => P!IsCount(s \o t)
         /\ P!IsCount(s \o t) => P!IsCount(s)
<1>1. /\ s \o t \in Seq(Nat) /\ Len(s \o t) = Len(s) + Len(t)
      /\ Len(s) \in Nat /\ Len(t) \in Nat
      /\ \A i \in 1 .. Len(s) + Len(t) : (s \o t)[i] = IF i <= Len(s) THEN s[i] ELSE t[i - Len(s)]
  BY ConcatProperties, LenProperties
<1>2. DOMAIN s = 1 .. Len(s) /\ DOMAIN (s \o t) = 1 .. Len(s) + Len(t)
  BY <1>1, LenProperties
<1>3. ASSUME P!IsCount(s), \A i \in 1 .. Len(t) : t[i] = Len(s) + i,
             NEW i \in 1 .. Len(s) + Len(t)
      PROVE  (s \o t)[i] = i
  <2>1. CASE i <= Len(s)
    <3>1. i \in 1 .. Len(s) /\ (s \o t)[i] = s[i]
      BY <1>1, <1>3, <2>1
    <3>2. s[i] = i
      BY <1>2, <1>3, <3>1 DEF P!IsCount
    <3>3. QED
      BY <3>1, <3>2
  <2>2. CASE ~(i <= Len(s))
    <3>1. i - Len(s) \in 1 .. Len(t)
      BY <1>1, <2>2
    <3>2. t[i - Len(s)] = Len(s) + (i - Len(s))
      BY <1>3, <3>1
    <3>3. QED
      BY <1>1, <2>2, <3>2
  <2>3. QED
    BY <2>1, <2>2
<1>4. ASSUME P!IsCount(s \o t), NEW i \in 1 .. Len(s) PROVE s[i] = i
  <2>1. i \in 1 .. Len(s) + Len(t) /\ i <= Len(s)
    BY <1>1, <1>4
  <2>2. (s \o t)[i] = i
    BY <1>2, <1>4, <2>1 DEF P!IsCount
  <2>3. QED
    BY <1>1, <2>1, <2>2
<1>5. QED
  BY <1>2, <1>3, <1>4 DEF P!IsCount

\* The next number goes on with a count.
LEMMA CountTakesNext ==
  ASSUME NEW s \in Seq(Nat), NEW t \in Seq(Nat), NEW n \in Nat,
         n = Len(s) + Len(t) + 1, P!IsCount(s \o t)
  PROVE  /\ Append(t, n) \in Seq(Nat) /\ Len(Append(t, n)) = Len(t) + 1
         /\ P!IsCount(s \o Append(t, n))
<1>1. /\ s \o t \in Seq(Nat) /\ Len(s \o t) = Len(s) + Len(t)
      /\ Len(s) \in Nat /\ Len(t) \in Nat
  BY ConcatProperties, LenProperties
<1>2. PICK u \in Seq(Nat) : u = <<n>>
  <2>1. <<n>> \in Seq(Nat)
    OBVIOUS
  <2>2. QED
    BY <2>1
<1>3. Len(u) = 1 /\ u[1] = n /\ Append(t, n) = t \o u
  BY <1>2, AppendIsConcat
<1>4. s \o (t \o u) = (s \o t) \o u
  BY JoinsEitherWay
<1>5. P!IsCount((s \o t) \o u)
  <2>1. \A i \in 1 .. Len(u) : u[i] = Len(s \o t) + i
    BY <1>1, <1>3
  <2>2. QED
    BY <1>1, <2>1, CountGoesOn
<1>6. t \o u \in Seq(Nat) /\ Len(t \o u) = Len(t) + 1
  BY <1>3, ConcatProperties
<1>7. QED
  BY <1>3, <1>4, <1>5, <1>6

BytesTyped ==
  /\ inbound \in Seq(Nat) /\ parsed \in Seq(Nat)
  /\ outbound \in Seq(Nat) /\ rest \in Seq(Nat) /\ told \in Seq(Nat)

\* A port that is not open is not opened again but by a modem that has sent nothing, and
\* while it is open every byte of the frames begun is with the host, on its way or waiting.
PortInv ==
  /\ P!TypeOK /\ BytesTyped /\ P!BytesInOrder
  /\ m_isOpen <=> m_fd = "open"
  /\ createdModem = "none" =>
       ~m_isOpen /\ frames = 0 /\ told = <<>> /\ outbound = <<>> /\ rest = <<>>
  /\ createdModem # "runs" => m_fd # "open"

LEMMA PortStarts == P!Init => PortInv
<1> SUFFICES ASSUME P!Init PROVE PortInv
  OBVIOUS
<1>1. /\ <<>> \in Seq(Nat) /\ Len(<<>>) = 0 /\ <<>> \o <<>> = <<>> /\ P!IsCount(<<>>)
      /\ <<>> \o <<>> \o <<>> = <<>>
  BY DEF P!IsCount
<1>2. 0 \in 0 .. MaxBytes /\ TtyLen \in Nat
  BY ConstantsFit DEF P!PortAssumption
<1>3. QED
  <2> 0 <= TtyLen
    BY <1>2
  <2>1. P!TypeOK /\ BytesTyped
    BY <1>1, <1>2 DEF P!Init, P!TypeOK, BytesTyped, P!PortAssumption
  <2>2. P!BytesInOrder
    BY <1>1 DEF P!Init, P!BytesInOrder
  <2>3. QED
    BY <2>1, <2>2 DEF P!Init, PortInv

\* Bytes that go to the host, or from it to the modem, leave their stream as it was.
LEMMA MovingKeeps ==
  ASSUME NEW s \in Seq(Nat), NEW t \in Seq(Nat), NEW n \in 1 .. Len(t)
  PROVE  /\ s \o SubSeq(t, 1, n) \in Seq(Nat)
         /\ (s \o SubSeq(t, 1, n)) \o SubSeq(t, n + 1, Len(t)) = s \o t
<1>1. /\ SubSeq(t, 1, n) \in Seq(Nat) /\ SubSeq(t, n + 1, Len(t)) \in Seq(Nat)
      /\ SubSeq(t, 1, n) \o SubSeq(t, n + 1, Len(t)) = t
  <2>1. n \in 0 .. Len(t)
    BY LenProperties
  <2>2. QED
    BY <2>1, CutJoins
<1>2. s \o SubSeq(t, 1, n) \in Seq(Nat)
  BY <1>1, ConcatProperties
<1>3. (s \o SubSeq(t, 1, n)) \o SubSeq(t, n + 1, Len(t))
        = s \o (SubSeq(t, 1, n) \o SubSeq(t, n + 1, Len(t)))
  BY <1>1, JoinsEitherWay
<1>4. QED
  BY <1>1, <1>2, <1>3

LEMMA PortHolds == PortInv /\ [P!Next]_portVars => PortInv'
<1> SUFFICES ASSUME PortInv, [P!Next]_portVars PROVE PortInv'
  OBVIOUS
<1> USE DEF P!ends, P!reading, P!writing
<1> DEFINE in  == parsed \o inbound
           out == (told \o outbound) \o rest
<1>0. /\ P!TypeOK /\ BytesTyped /\ TtyLen \in Nat /\ MaxBytes \in Nat
      /\ P!IsCount(in) /\ P!IsCount(out)
      /\ m_isOpen => m_fd = "open" /\ link
      /\ m_fd = "open" => Len(out) = frames
      /\ m_isOpen <=> m_fd = "open"
      /\ createdModem = "none" =>
           ~m_isOpen /\ frames = 0 /\ told = <<>> /\ outbound = <<>> /\ rest = <<>>
      /\ createdModem # "runs" => m_fd # "open"
      /\ FrameSizes \subseteq Nat \ {0}
  BY ConstantsFit DEF PortInv, P!BytesInOrder, P!PortAssumption
<1>1. ASSUME in' = in, out' = out, BytesTyped', P!TypeOK',
             UNCHANGED <<m_isOpen, m_fd, link, createdModem, frames>>,
             createdModem # "none"
      PROVE  PortInv'
  BY <1>0, <1>1 DEF PortInv, P!BytesInOrder
<1>2. in \in Seq(Nat) /\ out \in Seq(Nat) /\ told \o outbound \in Seq(Nat)
  BY <1>0, ConcatProperties DEF BytesTyped
<1>3. CASE P!Open
  <2>1. UNCHANGED <<inbound, m_readBuffer, parsed, outbound, rest, frames, told>>
    BY <1>3 DEF P!Open
  <2>2. /\ createdModem = "none" /\ createdModem' = (IF m_isOpen' THEN "runs" ELSE "deleted")
        /\ \/ UNCHANGED <<m_isOpen, m_fd, link>>
           \/ m_isOpen' = TRUE /\ m_fd' = "open" /\ link' = TRUE
           \/ m_isOpen' = FALSE /\ m_fd' = "stale" /\ link' = TRUE
    BY <1>3 DEF P!Open, P!OpenPort, P!SetTermios
  <2>3. Len(out') = 0 /\ frames' = 0
    BY <1>0, <2>1, <2>2
  <2>4. P!TypeOK' /\ BytesTyped'
    BY <1>0, <2>1, <2>2 DEF P!TypeOK, BytesTyped
  <2>5. P!BytesInOrder'
    BY <1>0, <2>1, <2>2, <2>3 DEF P!BytesInOrder
  <2>6. QED
    BY <1>0, <2>2, <2>4, <2>5 DEF PortInv
<1>4. CASE P!Close
  <2>1. /\ UNCHANGED <<createdModem, inbound, m_readBuffer, parsed, outbound, rest, frames, told>>
        /\ m_isOpen' = FALSE /\ m_fd' = "none" /\ link' = FALSE /\ createdModem = "runs"
    BY <1>4 DEF P!Close
  <2>2. QED
    BY <1>0, <2>1 DEF PortInv, P!TypeOK, BytesTyped, P!BytesInOrder
<1>5. CASE P!HostWrites
  <2>0. PICK n \in Nat : n = Len(parsed) + Len(inbound) + 1
    BY <1>0, LenProperties DEF BytesTyped
  <2>1. /\ inbound' = Append(inbound, n) /\ Len(inbound) < TtyLen /\ m_fd = "open"
        /\ UNCHANGED <<m_isOpen, m_fd, link, createdModem, m_readBuffer, parsed,
                       outbound, rest, frames, told>>
    BY <1>5, <2>0 DEF P!HostWrites
  <2>2. /\ inbound' \in Seq(Nat) /\ Len(inbound') = Len(inbound) + 1
        /\ P!IsCount(parsed \o inbound')
    BY <1>0, <2>0, <2>1, CountTakesNext DEF BytesTyped
  <2>3. Len(inbound') <= TtyLen
    BY <1>0, <2>1, <2>2, LenProperties DEF BytesTyped
  <2>4. QED
    BY <1>0, <2>1, <2>2, <2>3 DEF PortInv, P!TypeOK, BytesTyped, P!BytesInOrder
<1>6. CASE P!Take
  <2>1. /\ inbound # <<>> /\ inbound' = Tail(inbound) /\ parsed' = Append(parsed, Head(inbound))
        /\ UNCHANGED <<m_isOpen, m_fd, link, createdModem, outbound, rest, frames, told>>
        /\ createdModem = "runs"
    BY <1>6 DEF P!Take
  <2>2. /\ <<Head(inbound)>> \in Seq(Nat) /\ inbound' \in Seq(Nat) /\ Len(inbound') < Len(inbound)
        /\ <<Head(inbound)>> \o inbound' = inbound
    BY <1>0, <2>1, FirstJoins DEF BytesTyped
  <2>3. parsed' = parsed \o <<Head(inbound)>> /\ parsed' \in Seq(Nat)
    BY <1>0, <2>1, <2>2, AppendIsConcat, ConcatProperties, HeadTailProperties DEF BytesTyped
  <2>4. in' = in
    <3>1. in' = (parsed \o <<Head(inbound)>>) \o inbound'
      BY <2>3
    <3>2. (parsed \o <<Head(inbound)>>) \o inbound' = parsed \o (<<Head(inbound)>> \o inbound')
      <4>1. parsed \in Seq(Nat)
        BY <1>0 DEF BytesTyped
      <4>2. QED
        BY <4>1, <2>2, JoinsEitherWay, Zenon
    <3>3. QED
      BY <2>2, <3>1, <3>2
  <2>5. Len(inbound') <= TtyLen
    BY <1>0, <2>2, LenProperties DEF P!TypeOK, BytesTyped
  <2>6. QED
    BY <1>0, <1>1, <2>1, <2>2, <2>3, <2>4, <2>5 DEF P!TypeOK, BytesTyped
<1>7. CASE P!HostReads
  <2>1. PICK n \in 1 .. Len(outbound) :
           told' = told \o SubSeq(outbound, 1, n) /\ outbound' = SubSeq(outbound, n + 1, Len(outbound))
    BY <1>7 DEF P!HostReads
  <2>2. /\ UNCHANGED <<m_isOpen, m_fd, link, createdModem, inbound, parsed, rest, frames>>
        /\ outbound # <<>>
    BY <1>7 DEF P!HostReads
  <2>3. told' \in Seq(Nat) /\ told' \o outbound' = told \o outbound
    BY <1>0, <2>1, MovingKeeps DEF BytesTyped
  <2>4. outbound' \in Seq(Nat) /\ Len(outbound') <= TtyLen
    <3>1. outbound \in Seq(Nat) /\ Len(outbound) \in Nat /\ Len(outbound) <= TtyLen
      BY <1>0, LenProperties DEF P!TypeOK, BytesTyped
    <3>2. n \in 0 .. Len(outbound) /\ n > 0
      BY <3>1
    <3>3. SubSeq(outbound, n + 1, Len(outbound)) \in Seq(Nat)
      BY <3>1, <3>2, CutJoins
    <3>4. Len(SubSeq(outbound, n + 1, Len(outbound))) = Len(outbound) - n
      BY <3>1, <3>2, CutJoins
    <3>5. outbound' = SubSeq(outbound, n + 1, Len(outbound)) /\ TtyLen \in Nat
      BY <1>0, <2>1
    <3>6. Len(outbound') <= TtyLen
      BY <3>1, <3>2, <3>4, <3>5
    <3>7. QED
      BY <3>3, <3>5, <3>6
  <2>5. QED
    BY <1>0, <1>1, <2>2, <2>3, <2>4 DEF P!TypeOK, BytesTyped
<1>8. CASE P!WriteFrame
  <2>1. PICK n \in FrameSizes :
          frames + n <= MaxBytes /\ frames' = frames + n /\ rest' = [i \in 1 .. n |-> frames + i]
    BY <1>8 DEF P!WriteFrame
  <2>2. /\ rest = <<>> /\ createdModem = "runs" /\ m_fd = "open"
        /\ UNCHANGED <<m_isOpen, m_fd, link, createdModem, inbound, m_readBuffer, parsed,
                       outbound, told>>
    BY <1>8 DEF P!WriteFrame, P!Writing
  <2>3. n \in Nat \ {0} /\ frames \in Nat
    BY <1>0 DEF P!TypeOK
  <2>4. rest' \in Seq(Nat) /\ Len(rest') = n /\ \A i \in 1 .. n : rest'[i] = frames + i
    <3>1. \A i \in 1 .. n : frames + i \in Nat
      BY <2>3
    <3>2. rest' \in [1 .. n -> Nat]
      BY <2>1, <3>1
    <3>3. QED
      BY <2>1, <2>3, <3>2
  <2>5. out = told \o outbound
    BY <1>2, <2>2, ConcatEmptySeq
  <2>6. Len(told \o outbound) = frames /\ P!IsCount(told \o outbound)
    BY <1>0, <2>2, <2>5
  <2>7. /\ P!IsCount((told \o outbound) \o rest')
        /\ Len((told \o outbound) \o rest') = frames + n
    BY <1>2, <2>4, <2>6, CountGoesOn, ConcatProperties
  <2>8. frames' \in 0 .. MaxBytes
    BY <1>0, <2>1, <2>3
  <2>9. QED
    BY <1>0, <2>1, <2>2, <2>4, <2>7, <2>8 DEF PortInv, P!TypeOK, BytesTyped, P!BytesInOrder
<1>9. CASE P!WriteSome
  <2>1. PICK n \in 1 .. Len(rest) :
          /\ Len(outbound) + n <= TtyLen /\ outbound' = outbound \o SubSeq(rest, 1, n)
          /\ rest' = SubSeq(rest, n + 1, Len(rest))
    BY <1>9 DEF P!WriteSome
  <2>2. /\ UNCHANGED <<m_isOpen, m_fd, link, createdModem, inbound, parsed, told, frames>>
        /\ m_fd = "open"
    BY <1>9 DEF P!WriteSome
  <2>3. /\ SubSeq(rest, 1, n) \in Seq(Nat) /\ Len(SubSeq(rest, 1, n)) = n
        /\ rest' \in Seq(Nat) /\ SubSeq(rest, 1, n) \o rest' = rest
    <3>1. n \in 0 .. Len(rest)
      BY <1>0, LenProperties DEF BytesTyped
    <3>2. QED
      BY <1>0, <2>1, <3>1, CutJoins DEF BytesTyped
  <2>4. outbound' \in Seq(Nat) /\ Len(outbound') <= TtyLen
    BY <1>0, <2>1, <2>3, ConcatProperties DEF BytesTyped
  <2>5. told \o outbound' = (told \o outbound) \o SubSeq(rest, 1, n)
    <3>1. told \in Seq(Nat) /\ outbound \in Seq(Nat)
      BY <1>0 DEF BytesTyped
    <3>2. (told \o outbound) \o SubSeq(rest, 1, n) = told \o (outbound \o SubSeq(rest, 1, n))
      BY <2>3, <3>1, JoinsEitherWay, Zenon
    <3>3. QED
      BY <2>1, <2>2, <3>2
  <2>6. out' = out
    <3>1. out' = ((told \o outbound) \o SubSeq(rest, 1, n)) \o rest'
      BY <2>2, <2>5
    <3>2. out' = (told \o outbound) \o (SubSeq(rest, 1, n) \o rest')
      BY <1>2, <2>3, <3>1, JoinsEitherWay
    <3>3. QED
      BY <2>3, <3>2
  <2>7. QED
    BY <1>0, <1>1, <2>2, <2>3, <2>4, <2>6 DEF P!TypeOK, BytesTyped
<1>10. CASE P!WriteFails
  <2>1. /\ rest' = <<>> /\ m_fd # "open" /\ rest # <<>>
        /\ UNCHANGED <<m_isOpen, m_fd, link, createdModem, inbound, parsed, outbound, told, frames>>
    BY <1>10 DEF P!WriteFails, P!Writing
  <2>2. out' = told \o outbound
    BY <1>2, <2>1, ConcatEmptySeq
  <2>3. P!IsCount(out')
    BY <1>0, <1>2, <2>2, CountGoesOn DEF BytesTyped
  <2>4. QED
    BY <1>0, <2>1, <2>3 DEF PortInv, P!TypeOK, BytesTyped, P!BytesInOrder
<1>11. CASE UNCHANGED portVars
  BY <1>0, <1>11 DEF portVars, PortInv, P!TypeOK, BytesTyped, P!BytesInOrder
<1>12. QED
  BY <1>3, <1>4, <1>5, <1>6, <1>7, <1>8, <1>9, <1>10, <1>11 DEF P!Next, P!WriteStep

-----------------------------------------------------------------------------
(* The parts side by side *)

\* Every part keeps its invariant, those that do not run as well.
AllInv == IInv /\ ControlInv /\ SettingsInv /\ PortInv

LEMMA AllStart == AllInit => AllInv
  BY InitInv, ControlStarts, SettingsStart, PortStarts DEF AllInit, AllInv

LEMMA AllHold == AllInv /\ [AllNext]_allVars => AllInv'
<1> SUFFICES ASSUME AllInv, [AllNext]_allVars PROVE AllInv'
  OBVIOUS
<1>1. [Next]_vars /\ [C!Next]_controlVars /\ [P!Next]_portVars /\ [S!Next]_settingVars
  BY DEF AllNext, allVars, ProcessStays, ModemStays, PortStays
<1>2. QED
  BY <1>1, NextInv, ControlHolds, SettingsHold, PortHolds DEF AllInv

-----------------------------------------------------------------------------
(* The theorems *)

\* The invariants of all the parts hold in every reachable state.
THEOREM PartsInvariant == AllSpec => []AllInv
<1>1. AllInv /\ [AllNext]_allVars => AllInv'
  BY AllHold
<1>2. QED
  BY AllStart, <1>1, PTL DEF AllSpec

\* The process, the modem, its port and its settings keep their types.
THEOREM PartsTyped == AllSpec => []TypesOK
<1>1. AllInv => TypesOK
  BY SettingsTyped DEF AllInv, IInv, ControlInv, PortInv, TypesOK
<1>2. QED
  BY PartsInvariant, <1>1, PTL

\* What the host writes is parsed once and in order, and what it reads are the frames,
\* whole and in order, for every size of the terminal and however write() cuts them.
THEOREM BytesStayInOrder == AllSpec => []BytesInOrder
<1>1. AllInv => BytesInOrder
  BY DEF AllInv, PortInv, BytesInOrder
<1>2. QED
  BY PartsInvariant, <1>1, PTL

\* No receiver goes on from where it was before others were fed, but for the base
\* station's two as long as the mode is IDLE or DMR; no identifier does from before another
\* mode.  A refused command changes nothing but what is set before its last value is
\* checked (debugging, or AFC, bandwidths and power), and a modem and its channel agree
\* on polarity and frequencies.
THEOREM CommandsAreWhole == AllSpec => CommandsWhole
<1>1. AllInv /\ AllInv' /\ [AllNext]_allVars
        => [/\ part = "control" => C!FreshStart
            /\ part = "settings" => S!RefusedStays /\ S!ChannelAgrees']_allVars
  <2> SUFFICES ASSUME AllInv, AllInv', AllNext
               PROVE  /\ part = "control" => C!FreshStart
                      /\ part = "settings" => S!RefusedStays /\ S!ChannelAgrees'
    OBVIOUS
  <2>1. C!FreshStart
    <3>1. /\ \A r \in C!Receivers \ C!BaseStation : held[r] \in {"clear", "live"}
          /\ \A r \in C!BaseStation : held[r] \in {"clear", "live", "paused"}
      <4>1. held \in [C!Receivers -> {"clear", "live", "paused", "stale"}]
        BY DEF AllInv, ControlInv, C!TypeOK
      <4>2. QED
        BY <4>1 DEF AllInv, ControlInv, ReceiverInv, C!Receivers
    <3>2. C!Fed \subseteq C!Receivers
      BY DEF C!Fed, C!Dmr, C!Receivers, C!BaseStation
    <3>3. QED
      BY <3>1, <3>2 DEF AllInv, ControlInv, IdentifierInv, C!FreshStart
  <2>2. ASSUME part = "settings" PROVE S!RefusedStays
    BY <2>2, SettingsHold DEF AllNext, AllInv
  <2>3. S!ChannelAgrees'
    BY DEF AllInv, SettingsInv
  <2>4. QED
    BY <2>1, <2>2, <2>3
<1>2. QED
  BY PartsInvariant, <1>1, PTL DEF AllSpec, CommandsWhole

=============================================================================
