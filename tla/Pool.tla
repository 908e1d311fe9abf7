--------------------------------- MODULE Pool ----------------------------------
(***************************************************************************)
(* ThreadPool: a queue of tasks under m_queueMutex, the workers' handles   *)
(* under m_workerMutex in enqueue() and under m_queueMutex in start(), and *)
(* one condition variable.  A scope that holds a mutex and waits for       *)
(* nothing is one step; a waiting worker wakes when it is notified or for  *)
(* no reason at all, and tests its predicate then.  A task is a number, in *)
(* the order of the calls of enqueue().  Windows and the failures of       *)
(* pthread_create() are left out.                                          *)
(***************************************************************************)
EXTENDS Naturals, Sequences

CONSTANTS
  m_maxWorkerCnt,
  m_maxQueuedTasks,   \* 0: as many as there are
  Caller,             \* threads that enqueue
  MaxTasks,           \* bound: calls of enqueue()
  MaxStarts           \* bound: calls of start()

PoolAssumption ==
  /\ m_maxWorkerCnt \in Nat \ {0} /\ m_maxQueuedTasks \in Nat
  /\ MaxTasks \in Nat /\ MaxStarts \in Nat

VARIABLES
  m_poolState, m_tasks,
  m_workers,   \* of each handle, where its thread is
  holds,       \* the task each thread has
  caller,      \* where each caller of enqueue() is
  control,     \* where the thread that starts, stops and waits is
  index,       \* of the loop in start(), and of that in wait()
  made,        \* tasks passed to enqueue()
  taken,       \* the tasks the workers have taken, in order
  starts,
  joined       \* the handles of m_workers that were joined: its first ones

poolVars == <<m_poolState, m_tasks, m_workers, holds, caller, control, index, made, taken, starts, joined>>

NoTask == 0
Handles == 1..Len(m_workers)

Init ==
  /\ m_poolState = "STOP" /\ m_tasks = <<>> /\ m_workers = <<>> /\ holds = <<>>
  /\ caller = [c \in Caller |-> "out"] /\ control = "out" /\ index = 0
  /\ made = 0 /\ taken = <<>> /\ starts = 0 /\ joined = 0

\* pthread_create() and the handle.
NewWorker == m_workers' = Append(m_workers, "loop") /\ holds' = Append(holds, NoTask)

NotifyAll(workers) == [w \in DOMAIN workers |-> IF workers[w] = "asleep" THEN "wait" ELSE workers[w]]

-----------------------------------------------------------------------------
\* enqueue(): under m_workerMutex, a worker while there are too few.
EnqueueWorker(c) ==
  /\ caller[c] = "out" /\ made < MaxTasks
  /\ IF m_poolState = "RUNNING" /\ Len(m_workers) < m_maxWorkerCnt
     THEN NewWorker ELSE UNCHANGED <<m_workers, holds>>
  /\ caller' = [caller EXCEPT ![c] = "push"]
  /\ UNCHANGED <<m_poolState, m_tasks, control, index, made, taken, starts, joined>>

\* Then, under m_queueMutex, the task, unless the pool is stopped or full.
EnqueueTask(c) ==
  /\ caller[c] = "push" /\ made' = made + 1
  /\ IF m_poolState = "STOP" \/ (m_maxQueuedTasks > 0 /\ Len(m_tasks) >= m_maxQueuedTasks)
     THEN caller' = [caller EXCEPT ![c] = "out"] /\ UNCHANGED m_tasks
     ELSE caller' = [caller EXCEPT ![c] = "notify"] /\ m_tasks' = Append(m_tasks, made')
  /\ UNCHANGED <<m_poolState, m_workers, holds, control, index, taken, starts, joined>>

\* Mutant: nobody is notified.
EnqueueSilently(c) ==
  /\ caller[c] = "notify" /\ caller' = [caller EXCEPT ![c] = "out"]
  /\ UNCHANGED <<m_poolState, m_tasks, m_workers, holds, control, index, made, taken, starts, joined>>

\* notify_one(), the mutex released.
EnqueueNotify(c) ==
  /\ caller[c] = "notify" /\ caller' = [caller EXCEPT ![c] = "out"]
  /\ \/ \E w \in Handles : m_workers[w] = "asleep" /\ m_workers' = [m_workers EXCEPT ![w] = "wait"]
     \/ (\A w \in Handles : m_workers[w] # "asleep") /\ UNCHANGED m_workers
  /\ UNCHANGED <<m_poolState, m_tasks, holds, control, index, made, taken, starts, joined>>

Enqueue(c) == EnqueueWorker(c) \/ EnqueueTask(c) \/ EnqueueNotify(c)

-----------------------------------------------------------------------------
\* start(), under m_queueMutex: the workers that are missing by its own count, handle by
\* handle, since an enqueue() under the other mutex may come between.
StartRunning ==
  /\ control = "out" /\ starts < MaxStarts /\ m_poolState = "STOP"
  /\ m_poolState' = "RUNNING" /\ starts' = starts + 1 /\ control' = "start" /\ index' = Len(m_workers)
  /\ UNCHANGED <<m_tasks, m_workers, holds, caller, made, taken, joined>>

StartWorker ==
  /\ control = "start" /\ index < m_maxWorkerCnt
  /\ NewWorker /\ index' = index + 1
  /\ UNCHANGED <<m_poolState, m_tasks, caller, control, made, taken, starts, joined>>

StartNotify ==
  /\ control = "start" /\ index >= m_maxWorkerCnt
  /\ m_workers' = NotifyAll(m_workers) /\ control' = "out"
  /\ UNCHANGED <<m_poolState, m_tasks, holds, caller, index, made, taken, starts, joined>>

Stop ==
  /\ control = "out" /\ m_poolState = "RUNNING"
  /\ m_poolState' = "STOP" /\ control' = "stopped"
  /\ UNCHANGED <<m_tasks, m_workers, holds, caller, index, made, taken, starts, joined>>

StopNotify ==
  /\ control = "stopped" /\ control' = "wait" /\ m_workers' = NotifyAll(m_workers)
  /\ UNCHANGED <<m_poolState, m_tasks, holds, caller, index, made, taken, starts, joined>>

\* wait(): notify_all(), and join every handle.
Wait ==
  /\ control = "wait" /\ control' = "join" /\ index' = 0 /\ m_workers' = NotifyAll(m_workers)
  /\ UNCHANGED <<m_poolState, m_tasks, holds, caller, made, taken, starts, joined>>

\* pthread_join() of a handle.  m_workers is never cleared, so that a second wait() joins
\* what was joined: that is undefined, and the call returns or never does.
Join ==
  /\ control = "join" /\ index < Len(m_workers)
  /\ \/ index >= joined /\ m_workers[index + 1] = "gone"
        /\ index' = index + 1 /\ joined' = index + 1 /\ UNCHANGED control
     \/ index < joined /\ index' = index + 1 /\ UNCHANGED <<joined, control>>
     \/ index < joined /\ control' = "lost" /\ UNCHANGED <<joined, index>>
  /\ UNCHANGED <<m_poolState, m_tasks, m_workers, holds, caller, made, taken, starts>>

WaitEnd ==
  /\ control = "join" /\ index >= Len(m_workers) /\ control' = "out"
  /\ UNCHANGED <<m_poolState, m_tasks, m_workers, holds, caller, index, made, taken, starts, joined>>

\* start() holds m_queueMutex.
QueueIsFree == control # "start"

-----------------------------------------------------------------------------
\* The loop of a worker: the state, without the mutex.
Loop(w) ==
  /\ m_workers[w] = "loop"
  /\ m_workers' = [m_workers EXCEPT ![w] = IF m_poolState = "STOP" THEN "gone" ELSE "wait"]
  /\ UNCHANGED <<m_poolState, m_tasks, holds, caller, control, index, made, taken, starts, joined>>

\* m_cond.wait(): asleep until there is a reason; the end, or the oldest task.
Sleep(w) ==
  /\ m_workers[w] = "wait" /\ m_poolState # "STOP" /\ m_tasks = <<>>
  /\ m_workers' = [m_workers EXCEPT ![w] = "asleep"]
  /\ UNCHANGED <<m_poolState, m_tasks, holds, caller, control, index, made, taken, starts, joined>>

WakeUnasked(w) ==
  /\ m_workers[w] = "asleep" /\ m_workers' = [m_workers EXCEPT ![w] = "wait"]
  /\ UNCHANGED <<m_poolState, m_tasks, holds, caller, control, index, made, taken, starts, joined>>

Exit(w) ==
  /\ m_workers[w] = "wait" /\ m_poolState = "STOP" /\ m_tasks = <<>>
  /\ m_workers' = [m_workers EXCEPT ![w] = "gone"]
  /\ UNCHANGED <<m_poolState, m_tasks, holds, caller, control, index, made, taken, starts, joined>>

Take(w) ==
  /\ m_workers[w] = "wait" /\ m_tasks # <<>>
  /\ m_workers' = [m_workers EXCEPT ![w] = "run"]
  /\ holds' = [holds EXCEPT ![w] = Head(m_tasks)] /\ taken' = Append(taken, Head(m_tasks))
  /\ m_tasks' = Tail(m_tasks)
  /\ UNCHANGED <<m_poolState, caller, control, index, made, starts, joined>>

Run(w) ==
  /\ m_workers[w] = "run" /\ m_workers' = [m_workers EXCEPT ![w] = "loop"]
  /\ holds' = [holds EXCEPT ![w] = NoTask]
  /\ UNCHANGED <<m_poolState, m_tasks, caller, control, index, made, taken, starts, joined>>

Locks(w) == Sleep(w) \/ Exit(w) \/ Take(w)
Work(w) == Loop(w) \/ Run(w) \/ (QueueIsFree /\ Locks(w))

Control ==
  StartRunning \/ StartWorker \/ StartNotify \/ Stop \/ StopNotify \/ Wait \/ Join \/ WaitEnd

\* What ends by itself, once begun: a caller's call, and the calls of the other thread.
Finish ==
  \/ \E c \in Caller : (EnqueueTask(c) /\ QueueIsFree) \/ EnqueueNotify(c)
  \/ StartWorker \/ StartNotify \/ StopNotify \/ Wait \/ Join \/ WaitEnd

Next ==
  \/ Control
  \/ \E c \in Caller : EnqueueWorker(c) \/ (QueueIsFree /\ EnqueueTask(c)) \/ EnqueueNotify(c)
  \/ \E w \in Handles : Work(w) \/ WakeUnasked(w)

MostWorkers == 2 * m_maxWorkerCnt

Fairness ==
  /\ WF_poolVars(Finish)
  /\ \A w \in 1..MostWorkers : WF_poolVars(w \in Handles /\ Work(w))

Spec == Init /\ [][Next]_poolVars /\ Fairness

-----------------------------------------------------------------------------
TypeOK ==
  /\ m_poolState \in {"STOP", "RUNNING"}
  /\ \A w \in Handles : m_workers[w] \in {"loop", "wait", "asleep", "run", "gone"}
  /\ m_maxQueuedTasks > 0 => Len(m_tasks) <= m_maxQueuedTasks
  /\ Len(m_workers) <= MostWorkers /\ joined <= Len(m_workers)

\* What the pool accepted is run at most once, by one worker, and begun in the order of
\* the queue, whichever thread wakes first.
TasksInOrder ==
  /\ LET all == taken \o m_tasks IN \A i, j \in 1..Len(all) : i < j => all[i] < all[j]
  /\ \A v, w \in Handles : v # w /\ holds[v] # NoTask => holds[v] # holds[w]

\* A queued task of a pool that is started for the first time is taken, or the pool is
\* stopped first: no wakeup is lost between the push and the notification.  What is queued
\* when the pool is stopped may stay there, and start() makes no workers a second time.
TasksAreTaken ==
  \A t \in 1..MaxTasks :
    (starts = 1 /\ \E i \in 1..Len(m_tasks) : m_tasks[i] = t)
      ~> (m_poolState = "STOP" \/ \E i \in 1..Len(taken) : taken[i] = t)

\* The first wait() after stop() returns: every worker finds out.  A second one need not.
WaitReturns == (control = "join" /\ joined = 0) ~> control = "out"
=============================================================================
