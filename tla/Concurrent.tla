------------------------------ MODULE Concurrent -------------------------------
(***************************************************************************)
(* The containers of common/concurrent and the locks they derive from.     *)
(*                                                                         *)
(* Every member is one line of std between two of the lock, or none: what  *)
(* a container adds is only how each member is guarded.  "lock" is         *)
(* __lock() and __unlock(), "spin" is __spinlock() and nothing after it,   *)
(* "bare" is neither; "other of" is the container passed to = or swap().   *)
(* A use of the std container is a period of time, from its begin to its   *)
(* end.  deque::capacity(), map::assign() and the assign() of the          *)
(* unordered maps have no such member of std to call.                      *)
(***************************************************************************)
EXTENDS Naturals

CONSTANTS Thread, NoThread, MaxCalls   \* bound: calls of a thread

ConcurrentAssumption == NoThread \notin Thread /\ MaxCalls \in Nat

VARIABLES
  kind,       \* the container
  owner,      \* who has m_mutex, or NoThread
  readers,    \* who has it shared
  m_locked,
  pc,         \* of each thread
  call,       \* its member, or "walk"
  calls       \* that a thread has made

vars == <<kind, owner, readers, m_locked, pc, call, calls>>

\* As @@ of TLC, of which a prover knows no definition.
f ++ g == [m \in DOMAIN f \cup DOMAIN g |-> IF m \in DOMAIN f THEN f[m] ELSE g[m]]

Locked(S) == [m \in S |-> "lock"]
Spun(S) == [m \in S |-> "spin"]
Bare(S) == [m \in S |-> "bare"]

-----------------------------------------------------------------------------
(* Members of a sequence *)

Positions == {"begin", "end", "cbegin", "cend"}

VectorWhole == Locked({"=", "assign"}) ++ Bare({"other of ="})
VectorLooks == Spun(Positions \cup {"size", "capacity", "empty", "[]", "at"}) ++ Locked({"resize"})
\* Mutant: erase() waits for the flag and does not lock.
VectorEditsEraseSpun ==
  Spun({"front", "back", "get", "erase"}) ++ Bare({"reserve", "other of swap"})
    ++ Locked({"push_back", "pop_back", "insert", "swap", "clear"})

VectorEdits ==
  Spun({"front", "back", "get"}) ++ Bare({"reserve", "other of swap"})
    ++ Locked({"push_back", "pop_back", "insert", "erase", "swap", "clear"})

DequeWhole == Locked({"=", "assign"}) ++ Bare({"other of ="})
DequeLooks == Spun(Positions \cup {"size", "capacity", "empty", "[]", "at"}) ++ Locked({"resize"})
DequeEdits ==
  Spun({"front", "back", "get"}) ++ Bare({"other of swap"})
    ++ Locked({"push_back", "push_front", "pop_back", "pop_front", "erase", "swap", "clear"})

SharedVectorWhole == Locked({"=", "assign"}) ++ Bare({"other of ="})
SharedVectorLooks ==
  Bare(Positions \cup {"size", "capacity", "empty", "[]", "at", "front"}) ++ Locked({"resize"})
SharedVectorEdits ==
  Bare({"front", "back", "get", "reserve", "other of swap"})
    ++ Locked({"push_back", "pop_back", "insert", "erase", "swap", "clear"})

(* Members of a map *)

MapWhole == Locked({"=", "assign"}) ++ Bare({"other of ="})
MapLooks == Spun(Positions \cup {"[]", "at", "size", "empty", "contains"})
MapEdits == Locked({"insert", "erase", "clear"}) ++ Spun({"find", "count", "get"})

UnorderedMapWhole == Locked({"=", "assign"}) ++ Bare({"other of ="})
UnorderedMapLooks == Spun(Positions \cup {"[]", "at", "size", "empty", "contains"})
UnorderedMapEdits == Locked({"insert", "erase", "clear"}) ++ Spun({"find", "count", "get"}) ++ Bare({"reserve"})

SharedMapWhole == Locked({"=", "assign"}) ++ Bare({"other of ="})
SharedMapLooks == Bare(Positions \cup {"[]", "at", "size", "empty", "contains"})
SharedMapEdits == Locked({"insert", "erase", "clear"}) ++ Bare({"find", "count", "get", "reserve"})

Members ==
  [vector |-> VectorWhole ++ VectorLooks ++ VectorEdits,
   deque |-> DequeWhole ++ DequeLooks ++ DequeEdits,
   shared_vector |-> SharedVectorWhole ++ SharedVectorLooks ++ SharedVectorEdits,
   map |-> MapWhole ++ MapLooks ++ MapEdits,
   unordered_map |-> UnorderedMapWhole ++ UnorderedMapLooks ++ UnorderedMapEdits,
   shared_unordered_map |-> SharedMapWhole ++ SharedMapLooks ++ SharedMapEdits]

Kinds == DOMAIN Members
Shared == {"shared_vector", "shared_unordered_map"}   \* of concurrent_shared_lock
Maps == {"map", "unordered_map", "shared_unordered_map"}

\* The members that change a container and mean to be alone; those that change it and do
\* not: the argument of = and of swap(), reserve(), and [] of a map, which makes an entry.
Edits ==
  {"=", "assign", "resize", "push_back", "push_front", "pop_back", "pop_front",
   "insert", "erase", "swap", "clear"}
Changes(m) ==
  m \in Edits \cup {"other of swap", "reserve"} \/ (m = "[]" /\ kind \in Maps)

-----------------------------------------------------------------------------
Init ==
  /\ kind \in Kinds
  /\ owner = NoThread /\ readers = {} /\ m_locked = FALSE
  /\ pc = [t \in Thread |-> "out"] /\ call = [t \in Thread |-> "walk"] /\ calls = [t \in Thread |-> 0]

At(t, from, to) == pc[t] = from /\ pc' = [pc EXCEPT ![t] = to]

\* A thread calls a member, or walks the container between lock(false) or
\* shared_lock() and its unlock.
Call(t, m) ==
  /\ calls[t] < MaxCalls /\ calls' = [calls EXCEPT ![t] = @ + 1]
  /\ call' = [call EXCEPT ![t] = m]
  /\ At(t, "out", CASE m = "walk" \/ Members[kind][m] = "lock" -> "acquire"
                    [] m # "walk" /\ Members[kind][m] = "spin" -> "spin"
                    [] OTHER -> "in")
  /\ UNCHANGED <<kind, owner, readers, m_locked>>

\* concurrent_shared_lock: lock(), or lock_shared() for a walk.
AcquireShared(t) ==
  /\ kind \in Shared /\ At(t, "acquire", "in") /\ owner = NoThread
  /\ IF call[t] = "walk" THEN readers' = readers \cup {t} /\ UNCHANGED owner
                         ELSE readers = {} /\ owner' = t /\ UNCHANGED readers
  /\ UNCHANGED <<kind, m_locked, call, calls>>

ReleaseShared(t) ==
  /\ kind \in Shared /\ At(t, "release", "out")
  /\ owner' = (IF owner = t THEN NoThread ELSE owner) /\ readers' = readers \ {t}
  /\ UNCHANGED <<kind, m_locked, call, calls>>

\* concurrent_lock: __lock(), with the flag of a read lock unless it is lock(false);
\* the members called in a walk spin on the flag.
Acquire(t) ==
  /\ kind \notin Shared /\ owner = NoThread /\ owner' = t
  /\ At(t, "acquire", IF call[t] = "walk" THEN "spin" ELSE "flag")
  /\ UNCHANGED <<kind, readers, m_locked, call, calls>>

SetFlag(t) ==
  /\ At(t, "flag", "in") /\ m_locked' = TRUE
  /\ UNCHANGED <<kind, owner, readers, call, calls>>

Spin(t) ==
  /\ At(t, "spin", "in") /\ ~m_locked
  /\ UNCHANGED <<kind, owner, readers, m_locked, call, calls>>

\* The member of std has returned.
Leave(t) ==
  /\ At(t, "in", IF owner = t \/ t \in readers THEN "release" ELSE "out")
  /\ UNCHANGED <<kind, owner, readers, m_locked, call, calls>>

\* __unlock(): the mutex first, the flag then.
Release(t) ==
  /\ kind \notin Shared /\ At(t, "release", "unflag") /\ owner' = NoThread
  /\ UNCHANGED <<kind, readers, m_locked, call, calls>>

ClearFlag(t) ==
  /\ At(t, "unflag", "out") /\ m_locked' = FALSE
  /\ UNCHANGED <<kind, owner, readers, call, calls>>

Step(t) ==
  \/ AcquireShared(t) \/ ReleaseShared(t) \/ Acquire(t) \/ SetFlag(t) \/ Spin(t)
  \/ Leave(t) \/ Release(t) \/ ClearFlag(t)

Next == \E t \in Thread : Step(t) \/ \E m \in DOMAIN Members[kind] \cup {"walk"} : Call(t, m)

Spec == Init /\ [][Next]_vars /\ \A t \in Thread : WF_vars(Step(t))

-----------------------------------------------------------------------------
TypeOK ==
  /\ kind \in Kinds /\ owner \in Thread \cup {NoThread} /\ readers \subseteq Thread
  /\ m_locked \in BOOLEAN
  /\ pc \in [Thread -> {"out", "acquire", "flag", "spin", "in", "release", "unflag"}]
  /\ calls \in [Thread -> 0..MaxCalls]

\* Two threads are in the container, and one of them changes it.
Clash(t, u) == t # u /\ pc[t] = "in" /\ pc[u] = "in" /\ (Changes(call[t]) \/ Changes(call[u]))

Alone(t) == call[t] = "walk" \/ call[t] \in Edits

\* No two edits that lock are in the container together, nor one with a walk within
\* lock(false) or shared_lock().  Members that take no lock are not meant: those that look,
\* and those that change it all the same, [] of a map, reserve(), and = and swap() their
\* argument.
GuardedApart == \A t, u \in Thread : Clash(t, u) => ~Alone(t) \/ ~Alone(u)

\* Every call returns, the spins on a flag that another thread sets and clears included.
CallsReturn == \A t \in Thread : []<>(pc[t] = "out")

=============================================================================
