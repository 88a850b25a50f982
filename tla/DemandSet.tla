------------------------------ MODULE DemandSet ------------------------------
(***************************************************************************)
(* What the Demand Aggregator promises the tasks that share it: a set of   *)
(* active Units whose operations happen at once, somewhere between the     *)
(* call and the return, and return what the set says at that moment.       *)
(***************************************************************************)
EXTENDS Naturals, FiniteSets

CONSTANTS
  Task,   \* the tasks of the firmware that use the aggregator
  Unit    \* the ids of the machine Units

VARIABLES
  active,   \* the active Units
  phase,    \* per task: not calling, called, or about to return
  call,     \* per task, the operation it called last
  result    \* per task, what its last operation returns

Operation == [op: {"start", "stop", "is_active"}, unit: Unit]
             \union [op: {"has_demand", "active_count"}]

Invoke(t, c) ==
  /\ phase[t] = "idle"
  /\ phase' = [phase EXCEPT ![t] = "called"]
  /\ call' = [call EXCEPT ![t] = c]
  /\ UNCHANGED <<active, result>>

\* What an operation makes of the set, and what it returns.
Effect(c) ==
  CASE c.op = "start" -> active \union {c.unit}
    [] c.op = "stop"  -> active \ {c.unit}
    [] OTHER          -> active

Value(c) ==
  CASE c.op = "start"        -> [flag |-> c.unit \notin active]
    [] c.op = "stop"         -> [flag |-> c.unit \in active]
    [] c.op = "is_active"    -> [flag |-> c.unit \in active]
    [] c.op = "has_demand"   -> [flag |-> active # {}]
    [] c.op = "active_count" -> [count |-> Cardinality(active)]

Apply(t) ==
  /\ phase[t] = "called"
  /\ phase' = [phase EXCEPT ![t] = "done"]
  /\ active' = Effect(call[t])
  /\ result' = [result EXCEPT ![t] = Value(call[t])]
  /\ UNCHANGED call

Respond(t) ==
  /\ phase[t] = "done"
  /\ phase' = [phase EXCEPT ![t] = "idle"]
  /\ UNCHANGED <<active, call, result>>

Init ==
  /\ active = {}
  /\ phase = [t \in Task |-> "idle"]
  /\ call = [t \in Task |-> [op |-> "has_demand"]]
  /\ result = [t \in Task |-> [flag |-> FALSE]]

Next ==
  \E t \in Task :
    \/ \E c \in Operation : Invoke(t, c)
    \/ Apply(t)
    \/ Respond(t)

Spec == Init /\ [][Next]_<<active, phase, call, result>>
=============================================================================
