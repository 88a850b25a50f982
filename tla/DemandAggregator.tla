--------------------------- MODULE DemandAggregator ---------------------------
(***************************************************************************)
(* The Demand Aggregator (firmware/components/demand_aggregator): a set of *)
(* active Units behind a mutex that every operation holds from its first   *)
(* to its last statement.  Tasks interleave at the mutex and, were it not  *)
(* there, between the search and the erasure in stop().                    *)
(***************************************************************************)
EXTENDS Naturals, FiniteSets

CONSTANTS
  Task,   \* the tasks of the firmware that use the aggregator
  Unit,   \* the ids of the machine Units
  Free    \* nobody holds the mutex

ASSUME TaskAssumption == Free \notin Task /\ IsFiniteSet(Unit)

VARIABLES
  active,   \* active_
  holder,   \* the task that holds mutex_, or Free
  pc,       \* per task, where it is in its operation
  call,     \* per task, the operation it called last
  result    \* per task, what its last operation returns

vars == <<active, holder, pc, call, result>>

Step == {"idle", "lock", "locked", "erase", "unlock"}

\* To its callers an operation is under way until its result is fixed.
Phase ==
  [t \in Task |-> CASE pc[t] = "idle"                      -> "idle"
                    [] pc[t] \in {"lock", "locked", "erase"} -> "called"
                    [] OTHER                               -> "done"]

Atomic == INSTANCE DemandSet WITH phase <- Phase

TypeOK ==
  /\ active \subseteq Unit
  /\ holder \in Task \union {Free}
  /\ pc \in [Task -> Step]
  /\ call \in [Task -> Atomic!Operation]
  /\ result \in [Task -> [flag: BOOLEAN] \union [count: 0 .. Cardinality(Unit)]]

Init ==
  /\ active = {}
  /\ holder = Free
  /\ pc = [t \in Task |-> "idle"]
  /\ call = [t \in Task |-> [op |-> "has_demand"]]
  /\ result = [t \in Task |-> [flag |-> FALSE]]

-----------------------------------------------------------------------------
Goto(t, step) == pc' = [pc EXCEPT ![t] = step]

Return(t, value) ==
  /\ result' = [result EXCEPT ![t] = value]
  /\ Goto(t, "unlock")

Invoke(t, c) ==
  /\ pc[t] = "idle"
  /\ Goto(t, "lock")
  /\ call' = [call EXCEPT ![t] = c]
  /\ UNCHANGED <<active, holder, result>>

\* Mutant: the operations do not exclude each other.
LockShared(t) ==
  /\ pc[t] = "lock"
  /\ holder' = t
  /\ Goto(t, "locked")
  /\ UNCHANGED <<active, call, result>>

Lock(t) ==
  /\ pc[t] = "lock"
  /\ holder = Free
  /\ holder' = t
  /\ Goto(t, "locked")
  /\ UNCHANGED <<active, call, result>>

Start(t) ==
  /\ pc[t] = "locked"
  /\ call[t].op = "start"
  /\ active' = active \union {call[t].unit}
  /\ Return(t, [flag |-> call[t].unit \notin active])
  /\ UNCHANGED <<holder, call>>

\* Mutant: the early return of stop() leaves the mutex locked.
StopMissesKeepingLock(t) ==
  /\ pc[t] = "locked"
  /\ call[t].op = "stop"
  /\ call[t].unit \notin active
  /\ result' = [result EXCEPT ![t] = [flag |-> FALSE]]
  /\ Goto(t, "idle")
  /\ UNCHANGED <<active, holder, call>>

\* stop(): active_.find() ...
StopMisses(t) ==
  /\ pc[t] = "locked"
  /\ call[t].op = "stop"
  /\ call[t].unit \notin active
  /\ Return(t, [flag |-> FALSE])
  /\ UNCHANGED <<active, holder, call>>

StopFinds(t) ==
  /\ pc[t] = "locked"
  /\ call[t].op = "stop"
  /\ call[t].unit \in active
  /\ Goto(t, "erase")
  /\ UNCHANGED <<active, holder, call, result>>

\* ... and active_.erase() with the position found.
Erase(t) ==
  /\ pc[t] = "erase"
  /\ active' = active \ {call[t].unit}
  /\ Return(t, [flag |-> TRUE])
  /\ UNCHANGED <<holder, call>>

Answer(c) ==
  CASE c.op = "has_demand"   -> [flag |-> active # {}]
    [] c.op = "is_active"    -> [flag |-> c.unit \in active]
    [] c.op = "active_count" -> [count |-> Cardinality(active)]

Query(t) ==
  /\ pc[t] = "locked"
  /\ call[t].op \in {"has_demand", "is_active", "active_count"}
  /\ Return(t, Answer(call[t]))
  /\ UNCHANGED <<active, holder, call>>

\* The destructor of the lock_guard, and the return to the caller.
Unlock(t) ==
  /\ pc[t] = "unlock"
  /\ holder' = Free
  /\ Goto(t, "idle")
  /\ UNCHANGED <<active, call, result>>

Proceed(t) ==
  Start(t) \/ StopMisses(t) \/ StopFinds(t) \/ Erase(t) \/ Query(t) \/ Unlock(t)

Next ==
  \E t \in Task :
    \/ \E c \in Atomic!Operation : Invoke(t, c)
    \/ Lock(t)
    \/ Proceed(t)

Spec == Init /\ [][Next]_vars

\* A task that holds the mutex is scheduled.  (Nothing is assumed about which
\* of the waiting tasks gets it next.)
FairSpec == Spec /\ \A t \in Task : WF_vars(Proceed(t))

-----------------------------------------------------------------------------
\* However tasks interleave, each start(), stop() and query takes effect at
\* once between its call and its return and returns what the set says at that
\* moment (demand_aggregator.hpp, lines 14-15: "All operations are
\* thread-safe").  Two stops of one Unit, say, never both report that they
\* stopped it.
ImplementsDemandSet == Atomic!Spec

\* No path through an operation, early returns included, keeps the mutex.
MutexReleased == \A t \in Task : (holder = t) ~> (holder # t)
=============================================================================
