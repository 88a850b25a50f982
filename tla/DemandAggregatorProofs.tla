------------------------ MODULE DemandAggregatorProofs ------------------------
(***************************************************************************)
(* Proofs about the Demand Aggregator, for every set of tasks and every    *)
(* finite set of Units.  The inductive invariant says that whoever is      *)
(* between lock and unlock holds the mutex, and that a position found by   *)
(* stop() is still valid when it is erased.                                *)
(***************************************************************************)
EXTENDS DemandAggregator, FiniteSetTheorems, TLAPS

Holding == {"locked", "erase", "unlock"}

MutexInv ==
  \A t \in Task : pc[t] \in Holding => holder = t

FoundInv ==
  \A t \in Task : pc[t] = "erase" => call[t].op = "stop" /\ call[t].unit \in active

AggregatorInv == TypeOK /\ MutexInv /\ FoundInv

Value == [flag: BOOLEAN] \union [count: 0 .. Cardinality(Unit)]

-----------------------------------------------------------------------------
\* The operations that carry a Unit.
LEMMA UnitOf ==
  ASSUME NEW c \in Atomic!Operation
  PROVE  /\ c.op \in {"start", "stop", "is_active", "has_demand", "active_count"}
         /\ c.op \in {"start", "stop", "is_active"} => c.unit \in Unit
BY DEF Atomic!Operation

\* A count of active Units is at most the number of Units.
LEMMA AnswerType ==
  ASSUME TypeOK, NEW t \in Task,
         call[t].op \in {"has_demand", "is_active", "active_count"}
  PROVE  Answer(call[t]) \in Value
<1>1. Cardinality(active) \in 0 .. Cardinality(Unit)
  BY TaskAssumption, FS_Subset, FS_CardinalityType DEF TypeOK
<1> QED
  BY <1>1 DEF Answer, Value

\* Another task's phase, call and result are what they were.
LEMMA PhaseOf ==
  ASSUME TypeOK, NEW t \in Task, NEW s \in Step, Goto(t, s)
  PROVE  /\ pc' \in [Task -> Step]
         /\ pc'[t] = s
         /\ \A u \in Task \ {t} : pc'[u] = pc[u]
         /\ Phase' = [Phase EXCEPT ![t] =
              CASE s = "idle"                        -> "idle"
                [] s \in {"lock", "locked", "erase"} -> "called"
                [] OTHER                             -> "done"]
BY DEF TypeOK, Goto, Phase

-----------------------------------------------------------------------------
\* Nobody is in an operation at first.
LEMMA InitAggregator == Init => AggregatorInv /\ Atomic!Init
<1> SUFFICES ASSUME Init PROVE AggregatorInv /\ Atomic!Init
  OBVIOUS
<1>1. TypeOK
  BY DEF Init, TypeOK, Step, Atomic!Operation
<1>2. MutexInv /\ FoundInv
  BY DEF Init, MutexInv, FoundInv, Holding
<1>3. Atomic!Init
  BY DEF Init, Atomic!Init, Phase
<1> QED
  BY <1>1, <1>2, <1>3 DEF AggregatorInv

\* The mutex is what keeps the other tasks' findings valid: a task that changes
\* the set holds it, so no other task is between its search and its erasure.
LEMMA OthersWait ==
  ASSUME AggregatorInv, NEW t \in Task, pc[t] \in Holding
  PROVE  \A u \in Task \ {t} : pc[u] \notin Holding
BY DEF AggregatorInv, MutexInv

\* A step under the mutex that leaves its task holding it keeps the invariant.
LEMMA HolderStepKeeps ==
  ASSUME AggregatorInv, NEW t \in Task, pc[t] \in Holding,
         NEW s \in Holding, Goto(t, s), active' \subseteq Unit,
         UNCHANGED <<holder, call>>, result' \in [Task -> Value],
         s = "erase" => call[t].op = "stop" /\ call[t].unit \in active'
  PROVE  AggregatorInv'
<1>1. TypeOK'
  BY PhaseOf DEF AggregatorInv, TypeOK, Value, Holding, Step
<1>2. MutexInv'
  BY PhaseOf DEF AggregatorInv, MutexInv, Holding, Step
<1>3. FoundInv'
  <2>1. s \in Step /\ TypeOK
    BY DEF Holding, Step, AggregatorInv
  <2>2. pc'[t] = s /\ \A u \in Task \ {t} : pc'[u] = pc[u] /\ pc[u] # "erase"
    BY <2>1, PhaseOf, OthersWait DEF Holding
  <2> QED
    BY <2>2 DEF FoundInv
<1> QED
  BY <1>1, <1>2, <1>3 DEF AggregatorInv

\* An operation that fixes its result applies its effect at that moment.
LEMMA ReturnApplies ==
  ASSUME AggregatorInv, NEW t \in Task, pc[t] \in {"locked", "erase"},
         NEW v \in Value, Return(t, v), UNCHANGED <<holder, call>>,
         active' = Atomic!Effect(call[t]), active' \subseteq Unit,
         v = Atomic!Value(call[t])
  PROVE  AggregatorInv' /\ Atomic!Apply(t)
<1>1. Goto(t, "unlock") /\ result' = [result EXCEPT ![t] = v]
  BY DEF Return
<1>2. result' \in [Task -> Value]
  BY <1>1 DEF AggregatorInv, TypeOK, Value
<1>3. AggregatorInv'
  BY <1>1, <1>2, HolderStepKeeps DEF Holding
<1>4. Phase[t] = "called" /\ Phase' = [Phase EXCEPT ![t] = "done"]
  BY <1>1, PhaseOf DEF AggregatorInv, Phase, Step
<1> QED
  BY <1>1, <1>3, <1>4 DEF Atomic!Apply

\* Every step keeps the invariant and is a step of the atomic set or invisible.
LEMMA StepAggregator ==
  ASSUME AggregatorInv, [Next]_vars
  PROVE  AggregatorInv' /\ [Atomic!Next]_<<active, Phase, call, result>>
<1> USE DEF AggregatorInv
<1>1. ASSUME NEW t \in Task, NEW c \in Atomic!Operation, Invoke(t, c)
      PROVE  AggregatorInv' /\ Atomic!Invoke(t, c)
  <2>1. Goto(t, "lock") /\ "lock" \in Step /\ pc[t] = "idle"
    BY <1>1 DEF Invoke, Step
  <2>2. TypeOK'
    BY <1>1, <2>1, PhaseOf DEF Invoke, TypeOK
  <2>3. MutexInv' /\ FoundInv'
    BY <1>1, <2>1, PhaseOf DEF Invoke, MutexInv, FoundInv, Holding, TypeOK
  <2>4. Phase[t] = "idle" /\ Phase' = [Phase EXCEPT ![t] = "called"]
    BY <2>1, PhaseOf DEF Phase
  <2> QED
    BY <1>1, <2>2, <2>3, <2>4 DEF Invoke, Atomic!Invoke
<1>2. ASSUME NEW t \in Task, Lock(t)
      PROVE  AggregatorInv' /\ UNCHANGED <<active, Phase, call, result>>
  <2>1. Goto(t, "locked") /\ "locked" \in Step /\ pc[t] = "lock"
    BY <1>2 DEF Lock, Step
  <2>2. TypeOK'
    BY <1>2, <2>1, PhaseOf DEF Lock, TypeOK
  <2>3. \A u \in Task : pc[u] \notin Holding
    BY <1>2, TaskAssumption DEF Lock, MutexInv
  <2>4. MutexInv' /\ FoundInv'
    BY <1>2, <2>1, <2>3, PhaseOf DEF Lock, MutexInv, FoundInv, Holding
  <2>5. Phase' = Phase
    BY <2>1, PhaseOf DEF Phase
  <2> QED
    BY <1>2, <2>2, <2>4, <2>5 DEF Lock
<1>3. ASSUME NEW t \in Task, Start(t)
      PROVE  AggregatorInv' /\ Atomic!Apply(t)
  <2>1. call[t] \in Atomic!Operation /\ call[t].op = "start" /\ call[t].unit \in Unit
    BY <1>3, UnitOf DEF Start, TypeOK
  <2>2. /\ active' = Atomic!Effect(call[t]) /\ active' \subseteq Unit
        /\ [flag |-> call[t].unit \notin active] = Atomic!Value(call[t])
    BY <1>3, <2>1 DEF Start, Atomic!Effect, Atomic!Value, TypeOK
  <2> QED
    BY <1>3, <2>2, ReturnApplies DEF Start, Value
<1>4. ASSUME NEW t \in Task, StopMisses(t)
      PROVE  AggregatorInv' /\ Atomic!Apply(t)
  <2>1. /\ active' = Atomic!Effect(call[t]) /\ active' \subseteq Unit
        /\ [flag |-> FALSE] = Atomic!Value(call[t])
    <3>1. active' = active \ {call[t].unit} /\ call[t].unit \notin active
      BY <1>4 DEF StopMisses
    <3>2. call[t].op = "stop"
      BY <1>4 DEF StopMisses
    <3>3. Atomic!Effect(call[t]) = active \ {call[t].unit}
      BY <3>2 DEF Atomic!Effect
    <3>4. Atomic!Value(call[t]) = [flag |-> call[t].unit \in active]
      BY <3>2 DEF Atomic!Value
    <3>5. (call[t].unit \in active) = FALSE
      BY <3>1
    <3>6. Atomic!Value(call[t]) = [flag |-> FALSE]
      BY <3>4, <3>5, Zenon
    <3>7. active' \subseteq Unit
      BY <3>1 DEF TypeOK
    <3>8. active' = Atomic!Effect(call[t])
      BY <3>1, <3>3
    <3> QED
      BY <3>6, <3>7, <3>8
  <2> QED
    BY <1>4, <2>1, ReturnApplies DEF StopMisses, Value
<1>5. ASSUME NEW t \in Task, StopFinds(t)
      PROVE  AggregatorInv' /\ UNCHANGED <<active, Phase, call, result>>
  <2>1. Goto(t, "erase") /\ pc[t] = "locked"
    BY <1>5 DEF StopFinds
  <2>2. AggregatorInv'
    BY <1>5, <2>1, HolderStepKeeps DEF StopFinds, Holding, TypeOK, Value
  <2>3. Phase' = Phase
    BY <2>1, PhaseOf DEF Phase, Step
  <2> QED
    BY <1>5, <2>2, <2>3 DEF StopFinds
<1>6. ASSUME NEW t \in Task, Erase(t)
      PROVE  AggregatorInv' /\ Atomic!Apply(t)
  <2>1. call[t].op = "stop" /\ call[t].unit \in active
    BY <1>6 DEF Erase, FoundInv
  <2>2. /\ active' = Atomic!Effect(call[t]) /\ active' \subseteq Unit
        /\ [flag |-> TRUE] = Atomic!Value(call[t])
    BY <1>6, <2>1 DEF Erase, Atomic!Effect, Atomic!Value, TypeOK
  <2> QED
    BY <1>6, <2>2, ReturnApplies DEF Erase, Value
<1>7. ASSUME NEW t \in Task, Query(t)
      PROVE  AggregatorInv' /\ Atomic!Apply(t)
  <2>1. active' = Atomic!Effect(call[t]) /\ Answer(call[t]) = Atomic!Value(call[t])
    <3>1. active' = active /\ Atomic!Effect(call[t]) = active
      BY <1>7 DEF Query, Atomic!Effect
    <3>2. CASE call[t].op = "has_demand"
      BY <3>1, <3>2 DEF Answer, Atomic!Value
    <3>3. CASE call[t].op = "is_active"
      BY <3>1, <3>3 DEF Answer, Atomic!Value
    <3>4. CASE call[t].op = "active_count"
      <4>1. Cardinality(active) = Atomic!Cardinality(active)
        BY Zenon DEF Cardinality, Atomic!Cardinality
      <4> QED
        BY <3>1, <3>4, <4>1 DEF Answer, Atomic!Value
    <3> QED
      BY <1>7, <3>2, <3>3, <3>4 DEF Query
  <2>2. Answer(call[t]) \in Value
    BY <1>7, AnswerType DEF Query
  <2> QED
    BY <1>7, <2>1, <2>2, ReturnApplies DEF Query, TypeOK
<1>8. ASSUME NEW t \in Task, Unlock(t)
      PROVE  AggregatorInv' /\ Atomic!Respond(t)
  <2>1. Goto(t, "idle") /\ "idle" \in Step /\ pc[t] = "unlock" /\ pc[t] \in Holding
    BY <1>8 DEF Unlock, Step, Holding
  <2>2. TypeOK'
    BY <1>8, <2>1, PhaseOf DEF Unlock, TypeOK
  <2>3. \A u \in Task : pc'[u] \notin Holding
    BY <2>1, PhaseOf, OthersWait DEF Holding
  <2>4. MutexInv' /\ FoundInv'
    BY <2>3 DEF MutexInv, FoundInv, Holding
  <2>5. Phase[t] = "done" /\ Phase' = [Phase EXCEPT ![t] = "idle"]
    BY <2>1, PhaseOf DEF Phase
  <2> QED
    BY <1>8, <2>2, <2>4, <2>5 DEF Unlock, Atomic!Respond
<1>9. ASSUME UNCHANGED vars
      PROVE  AggregatorInv' /\ UNCHANGED <<active, Phase, call, result>>
  BY <1>9 DEF vars, TypeOK, MutexInv, FoundInv, Phase
<1> QED
  BY <1>1, <1>2, <1>3, <1>4, <1>5, <1>6, <1>7, <1>8, <1>9
  DEF Next, Proceed, Atomic!Next

\* Whoever works on the set holds the mutex, and a Unit that stop() found is
\* still active when it is erased.
THEOREM AggregatorInvariance == Spec => []AggregatorInv
BY InitAggregator, StepAggregator, PTL DEF Spec

\* The Demand Aggregator has the types its class declares.
THEOREM AggregatorTypeCorrect == Spec => []TypeOK
<1>1. AggregatorInv => TypeOK
  BY DEF AggregatorInv
<1> QED
  BY <1>1, AggregatorInvariance, PTL

\* The operations of the Demand Aggregator are atomic for its callers.
THEOREM AggregatorImplementsDemandSet == Spec => ImplementsDemandSet
BY InitAggregator, StepAggregator, AggregatorInvariance, PTL
DEF Spec, ImplementsDemandSet, Atomic!Spec
=============================================================================
