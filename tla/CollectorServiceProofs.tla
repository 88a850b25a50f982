------------------------ MODULE CollectorServiceProofs ------------------------
(***************************************************************************)
(* Proofs about the Collector Service and about the API on top of it, for  *)
(* every configured start delay.                                           *)
(*                                                                         *)
(* The service's inductive invariant is IInv: types, where a pending start *)
(* may exist (PendingIsPresentDemand) and where it may be missing          *)
(* (DelayAccountedFor).  Neither of the last two is inductive alone: the   *)
(* rollback of a failed mode request restores a pending start, which is    *)
(* right only because the demand it belongs to has still met no override;  *)
(* and dropping a pending start is right only when it is as old as the     *)
(* demand, which the first of the two says.                                *)
(*                                                                         *)
(* With the API on top the service takes no step it could not take alone,  *)
(* so what is proved about the service carries over to it; besides, the    *)
(* mode follows what the answers granted (GrantedInv).                     *)
(***************************************************************************)
EXTENDS CollectorApi, TLAPS

IInv == TypeOK /\ PendingIsPresentDemand /\ DelayAccountedFor

-----------------------------------------------------------------------------
\* The constructor's clamp makes every start delay a natural number.
LEMMA StartDelayNat == StartDelay \in Nat
BY ConfiguredDelayAssumption DEF StartDelay

\* reconcile() issues a command or none, only to a unit at rest in the
\* opposite state.
LEMMA ReconcileType ==
  ASSUME NEW m, NEW d, NEW p, NEW immediate
  PROVE  /\ Reconcile(m, d, p, immediate) \in {"none", "start", "stop"}
         /\ Reconcile(m, d, p, immediate) = "start" => unitState = "stopped"
         /\ Reconcile(m, d, p, immediate) = "stop" => unitState = "running"
BY DEF Reconcile, Wanted

\* What a delivery reports and the states it may leave the unit in.
LEMMA DeliveryType ==
  ASSUME unitState \in Unit!CollectorState, outstanding \subseteq {"start", "stop"},
         NEW cmd \in {"none", "start", "stop"}, NEW r \in Deliveries(cmd)
  PROVE  /\ r.ok \in BOOLEAN
         /\ r.unit \in Unit!CollectorState
         /\ r.outstanding \subseteq {"start", "stop"}
<1>1. CASE cmd = "start"
  BY <1>1 DEF Deliveries, Outcomes, Unit!CollectorState
<1>2. CASE cmd = "stop"
  BY <1>2 DEF Deliveries, Outcomes, Unit!CollectorState
<1>3. CASE cmd = "none"
  BY <1>3 DEF Deliveries, Outcomes
<1> QED
  BY <1>1, <1>2, <1>3

\* A pending start that reconcile() leaves is the one it was given.
LEMMA PendingAfterType ==
  ASSUME NEW m, NEW d, NEW p, NEW immediate, NEW ok
  PROVE  PendingAfter(m, d, p, immediate, ok) \in {p, NotPending}
BY DEF PendingAfter

Pending == {NotPending} \union (0 .. StartDelay)

\* An operation that sets the service and the unit to legal values keeps the
\* types: the history variables follow.
LEMMA TypeKeeps ==
  ASSUME TypeOK,
         mode' \in CollectorMode, demandActive' \in BOOLEAN,
         pendingAge' \in Pending, unitState' \in Unit!CollectorState,
         outstanding' \subseteq {"start", "stop"},
         NEW op \in Operation, NEW cmd \in {"none", "start", "stop"},
         NEW ok \in BOOLEAN, Observe(op, cmd, ok)
  PROVE  TypeOK'
<1>1. demandAge' \in 0 .. StartDelay
  BY StartDelayNat DEF TypeOK, Observe
<1>2. overridden' \in BOOLEAN
  BY DEF Observe
<1>3. last' \in [op: Operation, cmd: {"none", "start", "stop"}, ok: BOOLEAN]
  BY DEF Observe
<1> QED
  BY <1>1, <1>2, <1>3 DEF TypeOK, Pending

\* Mode, demand and pending start unchanged: what they promise still holds.
LEMMA SameIntentKeeps ==
  ASSUME IInv, UNCHANGED <<mode, demandActive, pendingAge>>,
         NEW op, NEW cmd, NEW ok, Observe(op, cmd, ok)
  PROVE  PendingIsPresentDemand' /\ DelayAccountedFor'
<1>1. demandActive => UNCHANGED demandAge
  BY DEF Observe
<1>2. demandActive => overridden' = overridden
  BY DEF Observe, IInv, TypeOK, DelayAccountedFor
<1>3. PendingIsPresentDemand'
  BY <1>1, <1>2 DEF IInv, PendingIsPresentDemand
<1>4. DelayAccountedFor'
  BY <1>1, <1>2 DEF IInv, DelayAccountedFor
<1> QED
  BY <1>3, <1>4

\* reconcile() with mode and demand unchanged: a pending start is dropped only
\* once it is due, and then the demand is as old as the start delay.
LEMMA ReconcileKeeps ==
  ASSUME IInv, UNCHANGED <<mode, demandActive>>,
         NEW op, NEW cmd, NEW ok, Observe(op, cmd, ok),
         pendingAge' = PendingAfter(mode, demandActive, pendingAge, FALSE, ok)
  PROVE  PendingIsPresentDemand' /\ DelayAccountedFor'
<1>1. CASE pendingAge' = pendingAge
  BY <1>1, SameIntentKeeps
<1>2. CASE pendingAge' # pendingAge
  <2>1. pendingAge' = NotPending /\ pendingAge # NotPending
    BY <1>2, PendingAfterType
  <2>2. mode = "automatic" /\ demandActive /\ ~overridden /\ pendingAge = demandAge
    BY <2>1 DEF IInv, PendingIsPresentDemand
  <2>3. pendingAge >= StartDelay
    BY <1>2, <2>2 DEF PendingAfter, Elapsed
  <2>4. demandAge' = demandAge /\ demandAge \in 0 .. StartDelay
    BY <2>2 DEF Observe, IInv, TypeOK
  <2>5. demandAge' = StartDelay
    BY <2>2, <2>3, <2>4, StartDelayNat
  <2> QED
    BY <2>1, <2>2, <2>5 DEF PendingIsPresentDemand, DelayAccountedFor
<1> QED
  BY <1>1, <1>2

-----------------------------------------------------------------------------
\* The service starts in a state of the invariant.
LEMMA InitIInv == Init => IInv
<1> SUFFICES ASSUME Init PROVE IInv
  OBVIOUS
<1>1. mode \in CollectorMode /\ demandActive \in BOOLEAN /\ overridden \in BOOLEAN
  BY DEF Init, CollectorMode
<1>2. pendingAge \in Pending /\ demandAge \in 0 .. StartDelay
  BY StartDelayNat DEF Init, Pending
<1>3. unitState \in Unit!CollectorState
  BY DEF Init, Unit!Init, Unit!CollectorState
<1>4. /\ last \in [op: Operation, cmd: {"none", "start", "stop"}, ok: BOOLEAN]
      /\ outstanding \subseteq {"start", "stop"}
  BY DEF Init, Operation
<1>5. PendingIsPresentDemand /\ DelayAccountedFor
  BY DEF Init, PendingIsPresentDemand, DelayAccountedFor
<1> QED
  BY <1>1, <1>2, <1>3, <1>4, <1>5 DEF IInv, TypeOK, Pending

\* A manual request changes neither mode, demand nor pending start.
LEMMA RequestKeeps ==
  ASSUME IInv,
         NEW op \in Operation, NEW cmd \in {"start", "stop"}, NEW permitted \in BOOLEAN,
         Request(op, cmd, permitted)
  PROVE  IInv'
<1>1. PICK c \in {"none", "start", "stop"}, ok \in BOOLEAN :
        /\ Observe(op, c, ok)
        /\ unitState' \in Unit!CollectorState /\ outstanding' \subseteq {"start", "stop"}
  <2>1. CASE permitted
    <3>1. PICK r \in Deliveries(cmd) : Delivered(r) /\ Observe(op, cmd, r.ok)
      BY <2>1 DEF Request
    <3> QED
      BY <3>1, DeliveryType DEF Delivered, IInv, TypeOK
  <2>2. CASE ~permitted
    BY <2>2 DEF Request, IInv, TypeOK, unitVars
  <2> QED
    BY <2>1, <2>2
<1>2. UNCHANGED <<mode, demandActive, pendingAge>>
  BY DEF Request, serviceVars
<1>3. TypeOK'
  BY <1>1, <1>2, TypeKeeps DEF IInv, TypeOK, Pending
<1> QED
  BY <1>1, <1>2, <1>3, SameIntentKeeps DEF IInv

\* A mode request: the accepted mode drops the pending start, the refused one
\* brings back what was there, a request for the present mode only reconciles.
LEMMA RequestModeKeeps ==
  ASSUME IInv, NEW m \in CollectorMode, RequestMode(m)
  PROVE  IInv'
<1> USE DEF PendingOnChange, Rollback
<1> DEFINE changed   == mode # m
           pending   == PendingOnChange(m)
           immediate == changed /\ m = "automatic" /\ demandActive
           cmd       == Reconcile(m, demandActive, pending, immediate)
<1>1. cmd \in {"none", "start", "stop"}
  BY ReconcileType
<1>2. PICK r \in Deliveries(cmd) :
        /\ Delivered(r)
        /\ mode' = IF r.ok THEN m ELSE mode
        /\ pendingAge' = Rollback(changed, r.ok,
                            PendingAfter(m, demandActive, pending, immediate, r.ok))
        /\ UNCHANGED demandActive
        /\ Observe("request_mode", cmd, r.ok)
  BY DEF RequestMode, ModeAfter
<1>3. /\ r.ok \in BOOLEAN
      /\ unitState' \in Unit!CollectorState /\ outstanding' \subseteq {"start", "stop"}
  <2> HIDE DEF cmd
  <2> QED
    BY <1>1, <1>2, DeliveryType DEF Delivered, IInv, TypeOK
<1>4. pendingAge' \in {pendingAge, NotPending}
  BY <1>2, PendingAfterType
<1>5. TypeOK'
  <2>1. mode' \in CollectorMode /\ demandActive' \in BOOLEAN /\ pendingAge' \in Pending
    BY <1>2, <1>3, <1>4 DEF IInv, TypeOK, Pending
  <2>2. "request_mode" \in Operation
    BY DEF Operation
  <2> QED
    BY <1>1, <1>2, <1>3, <2>1, <2>2, TypeKeeps DEF IInv
<1>6. CASE changed /\ ~r.ok
  BY <1>2, <1>5, <1>6, SameIntentKeeps DEF IInv
<1>7. CASE changed /\ r.ok
  <2>1. mode' = m /\ pendingAge' = NotPending
    <3>1. pending = NotPending
      BY <1>7
    <3>2. pendingAge' = PendingAfter(m, demandActive, pending, immediate, r.ok)
      BY <1>2, <1>7
    <3> HIDE DEF pending, immediate
    <3> QED
      BY <1>2, <1>7, <3>1, <3>2, PendingAfterType
  <2>2. demandActive' => overridden'
    <3>1. CASE m = "automatic"
      BY <1>2, <1>7, <3>1 DEF Observe, IInv, DelayAccountedFor
    <3>2. CASE m # "automatic"
      BY <1>2, <2>1, <3>2 DEF Observe
    <3> QED
      BY <3>1, <3>2
  <2> QED
    BY <1>5, <2>1, <2>2 DEF IInv, PendingIsPresentDemand, DelayAccountedFor
<1>8. CASE ~changed
  <2>1. mode' = mode
    BY <1>2, <1>3, <1>8
  <2>2. pendingAge' = PendingAfter(mode, demandActive, pendingAge, FALSE, r.ok)
    BY <1>2, <1>8
  <2>3. UNCHANGED <<mode, demandActive>> /\ Observe("request_mode", cmd, r.ok)
    BY <1>2, <2>1
  <2>4. PendingIsPresentDemand' /\ DelayAccountedFor'
    <3> HIDE DEF cmd
    <3> QED
      BY <2>2, <2>3, ReconcileKeeps
  <2> QED
    BY <1>5, <2>4 DEF IInv
<1> QED
  BY <1>3, <1>6, <1>7, <1>8

\* A demand that begins in AUTO starts its own delay, one that begins in an
\* override has met it, and a demand that ends takes its pending start along.
LEMMA UpdateDemandKeeps ==
  ASSUME IInv, NEW active \in BOOLEAN, UpdateDemand(active)
  PROVE  IInv'
<1> USE DEF PendingOnDemand
<1> DEFINE pending == PendingOnDemand(active)
           cmd     == Reconcile(mode, active, pending, FALSE)
<1>1. cmd \in {"none", "start", "stop"}
  BY ReconcileType
<1>2. PICK r \in Deliveries(cmd) :
        /\ demandActive' = active
        /\ Delivered(r)
        /\ pendingAge' = PendingAfter(mode, active, pending, FALSE, r.ok)
        /\ UNCHANGED mode
        /\ Observe("update_demand", cmd, r.ok)
  BY DEF UpdateDemand
<1>3. /\ r.ok \in BOOLEAN
      /\ unitState' \in Unit!CollectorState /\ outstanding' \subseteq {"start", "stop"}
  <2> HIDE DEF cmd
  <2> QED
    BY <1>1, <1>2, DeliveryType DEF Delivered, IInv, TypeOK
<1>4. pendingAge' \in {pending, NotPending}
  BY <1>2, PendingAfterType
<1>5. TypeOK'
  <2>1. pending \in Pending
    BY StartDelayNat DEF Pending, IInv, TypeOK
  <2>2. mode' \in CollectorMode /\ demandActive' \in BOOLEAN /\ pendingAge' \in Pending
    BY <1>2, <1>4, <2>1 DEF IInv, TypeOK, Pending
  <2>3. "update_demand" \in Operation
    BY DEF Operation
  <2> QED
    BY <1>1, <1>2, <1>3, <2>2, <2>3, TypeKeeps DEF IInv
<1>6. CASE demandActive = active
  BY <1>2, <1>5, <1>6, ReconcileKeeps DEF IInv
<1>7. CASE ~demandActive /\ active
  <2>1. demandAge' = 0 /\ overridden' = (mode # "automatic")
    BY <1>2, <1>7 DEF Observe
  <2>2. CASE mode = "automatic"
    <3>1. pending = 0
      BY <1>7, <2>2
    <3>2. pendingAge' \in {0, NotPending}
      BY <1>4, <3>1
    <3>3. pendingAge' = NotPending => StartDelay = 0
      <4> HIDE DEF pending
      <4> QED
        BY <1>2, <1>7, <3>1, StartDelayNat DEF PendingAfter, Elapsed, NotPending
    <3> QED
      BY <1>2, <1>5, <1>7, <2>1, <2>2, <3>2, <3>3
      DEF IInv, PendingIsPresentDemand, DelayAccountedFor
  <2>3. CASE mode # "automatic"
    <3>1. pendingAge' = NotPending
      BY <1>4, <1>7, <2>3 DEF IInv, PendingIsPresentDemand
    <3> QED
      BY <1>2, <1>5, <2>1, <2>3, <3>1
      DEF IInv, PendingIsPresentDemand, DelayAccountedFor
  <2> QED
    BY <2>2, <2>3
<1>8. CASE demandActive /\ ~active
  <2>1. pendingAge' = NotPending /\ ~demandActive'
    BY <1>2, <1>4, <1>8
  <2> QED
    BY <1>5, <2>1 DEF IInv, PendingIsPresentDemand, DelayAccountedFor
<1> QED
  BY <1>6, <1>7, <1>8 DEF IInv, TypeOK

\* process() is reconcile() and nothing else.
LEMMA ProcessKeeps ==
  ASSUME IInv, Process
  PROVE  IInv'
<1> DEFINE cmd == Reconcile(mode, demandActive, pendingAge, FALSE)
<1>1. cmd \in {"none", "start", "stop"}
  BY ReconcileType
<1>2. PICK r \in Deliveries(cmd) :
        /\ Delivered(r)
        /\ pendingAge' = PendingAfter(mode, demandActive, pendingAge, FALSE, r.ok)
        /\ UNCHANGED <<mode, demandActive>>
        /\ Observe("process", cmd, r.ok)
  BY DEF Process
<1>3. /\ r.ok \in BOOLEAN
      /\ unitState' \in Unit!CollectorState /\ outstanding' \subseteq {"start", "stop"}
  <2> HIDE DEF cmd
  <2> QED
    BY <1>1, <1>2, DeliveryType DEF Delivered, IInv, TypeOK
<1>4. TypeOK'
  <2>1. mode' \in CollectorMode /\ demandActive' \in BOOLEAN /\ pendingAge' \in Pending
    <3>1. pendingAge' \in {pendingAge, NotPending}
      BY <1>2, PendingAfterType
    <3> QED
      BY <1>2, <3>1 DEF IInv, TypeOK, Pending
  <2>2. "process" \in Operation
    BY DEF Operation
  <2> QED
    BY <1>1, <1>2, <1>3, <2>1, <2>2, TypeKeeps DEF IInv
<1> QED
  BY <1>2, <1>4, ReconcileKeeps DEF IInv

\* A step that leaves the service alone and the unit in one of its states.
LEMMA EnvironmentKeeps ==
  ASSUME IInv, UNCHANGED serviceVars, unitState' \in Unit!CollectorState,
         outstanding' \subseteq {"start", "stop"},
         NEW op \in Operation, NEW ok \in BOOLEAN, Observe(op, "none", ok)
  PROVE  IInv'
<1>1. UNCHANGED <<mode, demandActive, pendingAge>>
  BY DEF serviceVars
<1>2. TypeOK'
  BY <1>1, TypeKeeps DEF IInv, TypeOK, Pending
<1> QED
  BY <1>1, <1>2, SameIntentKeeps DEF IInv

\* Pending start and demand grow old together, up to the start delay.
LEMMA TickKeeps ==
  ASSUME IInv, Tick
  PROVE  IInv'
<1>1. pendingAge' \in Pending /\ demandAge' \in 0 .. StartDelay
  BY StartDelayNat DEF Tick, Older, IInv, TypeOK, Pending, NotPending
<1>2. last' \in [op: Operation, cmd: {"none", "start", "stop"}, ok: BOOLEAN]
  BY DEF Tick, Operation
<1>3. TypeOK'
  BY <1>1, <1>2 DEF Tick, IInv, TypeOK, Pending, unitVars
<1>4. pendingAge' # NotPending <=> pendingAge # NotPending
  BY StartDelayNat DEF Tick, Older, IInv, TypeOK, NotPending
<1>5. demandAge = StartDelay => demandAge' = StartDelay
  BY StartDelayNat DEF Tick, Older
<1>6. PendingIsPresentDemand'
  BY <1>4 DEF Tick, IInv, PendingIsPresentDemand
<1>7. DelayAccountedFor'
  BY <1>4, <1>5 DEF Tick, IInv, DelayAccountedFor
<1> QED
  BY <1>3, <1>6, <1>7 DEF IInv

\* Every step of the service and of its environment preserves the invariant.
LEMMA NextIInv == IInv /\ [Next]_vars => IInv'
<1> SUFFICES ASSUME IInv, [Next]_vars PROVE IInv'
  OBVIOUS
<1>1. CASE RequestStart
  BY <1>1, RequestKeeps DEF RequestStart, StartPermitted, Operation
<1>2. CASE RequestStop
  BY <1>2, RequestKeeps DEF RequestStop, StopPermitted, Operation
<1>3. ASSUME NEW m \in CollectorMode, RequestMode(m) PROVE IInv'
  BY <1>3, RequestModeKeeps
<1>4. CASE RequestUnknownMode
  BY <1>4, EnvironmentKeeps DEF RequestUnknownMode, Operation, unitVars, IInv, TypeOK
<1>5. ASSUME NEW active \in BOOLEAN, UpdateDemand(active) PROVE IInv'
  BY <1>5, UpdateDemandKeeps
<1>6. CASE Process
  BY <1>6, ProcessKeeps
<1>7. ASSUME ConfirmStarted \/ ConfirmStopped \/ UnitFault \/ UnitRecover PROVE IInv'
  <2>1. unitState' \in Unit!CollectorState
    BY <1>7 DEF ConfirmStarted, ConfirmStopped, UnitFault, UnitRecover, UnitStep,
       Unit!ConfirmStarted, Unit!ConfirmStopped, Unit!Fault, Unit!Recover,
       Unit!Transition, Unit!CollectorState
  <2>2. UNCHANGED <<serviceVars, outstanding>> /\ Observe("environment", "none", TRUE)
    BY <1>7 DEF ConfirmStarted, ConfirmStopped, UnitFault, UnitRecover, UnitStep
  <2> QED
    BY <2>1, <2>2, EnvironmentKeeps DEF Operation, IInv, TypeOK
<1>10. ASSUME NEW cmd \in {"start", "stop"}, TakeUp(cmd) PROVE IInv'
  <2>1. unitState' \in Unit!CollectorState /\ outstanding' \subseteq {"start", "stop"}
    BY <1>10 DEF TakeUp, CarryOut, IInv, TypeOK, Unit!CollectorState
  <2>2. UNCHANGED serviceVars /\ Observe("environment", "none", TRUE)
    BY <1>10 DEF TakeUp
  <2> QED
    BY <2>1, <2>2, EnvironmentKeeps DEF Operation
<1>8. CASE Tick
  BY <1>8, TickKeeps
<1>9. CASE UNCHANGED vars
  BY <1>9 DEF vars, IInv, TypeOK, PendingIsPresentDemand, DelayAccountedFor
<1> QED
  BY <1>1, <1>2, <1>3, <1>4, <1>5, <1>6, <1>7, <1>8, <1>9, <1>10 DEF Next

\* The inductive invariant holds in every reachable state.
THEOREM Invariance == Spec => []IInv
BY InitIInv, NextIInv, PTL DEF Spec

\* The state of the service, of the unit and of their history is well formed.
THEOREM TypeCorrect == Spec => []TypeOK
<1>1. IInv => TypeOK
  BY DEF IInv
<1> QED
  BY <1>1, Invariance, PTL

\* No release, mode change, failed command or rollback ever leaves a stale
\* pending start: it always belongs to the present, never overridden, demand.
THEOREM NoStalePendingStart == Spec => []PendingIsPresentDemand
<1>1. IInv => PendingIsPresentDemand
  BY DEF IInv
<1> QED
  BY <1>1, Invariance, PTL

\* In AUTO a demand is without a pending start only after its delay or an
\* override.
THEOREM NoDelayLost == Spec => []DelayAccountedFor
<1>1. IInv => DelayAccountedFor
  BY DEF IInv
<1> QED
  BY <1>1, Invariance, PTL

-----------------------------------------------------------------------------
\* A failed delivery of a command leaves the unit off when the command was a
\* start, and not off when it was a stop, unless it faulted the unit; only a
\* command that was delivered may become outstanding.
LEMMA DeliveryEffect ==
  ASSUME NEW cmd \in {"none", "start", "stop"}, NEW r \in Deliveries(cmd)
  PROVE  /\ cmd = "none" => r.ok = TRUE /\ r.unit = unitState
         /\ cmd = "start" =>
              \/ r.ok = TRUE /\ r.unit \in {"starting", "running"}
              \/ r.ok = TRUE /\ r.unit = "stopped" /\ "start" \in r.outstanding
              \/ r.ok = FALSE /\ r.unit \in {"stopped", "faulted"}
         /\ cmd = "stop" =>
              \/ r.ok = TRUE /\ r.unit \in {"stopping", "stopped"}
              \/ r.ok = TRUE /\ r.unit = "running" /\ "stop" \in r.outstanding
              \/ r.ok = FALSE /\ r.unit \in {"running", "faulted"}
         /\ \A c : c # cmd \/ r.ok = FALSE => (c \in r.outstanding => c \in outstanding)
<1>1. CASE cmd = "start"
  BY <1>1 DEF Deliveries, Outcomes
<1>2. CASE cmd = "stop"
  BY <1>2 DEF Deliveries, Outcomes
<1>3. CASE cmd = "none"
  BY <1>3 DEF Deliveries, Outcomes
<1> QED
  BY <1>1, <1>2, <1>3

StartIsDue ==
  (/\ last'.op \in {"update_demand", "process"}
   /\ last'.cmd = "start"
   /\ mode' = "automatic")
  => demandActive' /\ (demandAge' = StartDelay \/ overridden')

\* reconcile() in AUTO without automatic_start_immediate wants a start only for
\* an active demand whose pending start is due or is no longer there.
LEMMA AutomaticStart ==
  ASSUME NEW d, NEW p, Reconcile("automatic", d, p, FALSE) = "start"
  PROVE  d /\ (p = NotPending \/ p >= StartDelay)
BY DEF Reconcile, Wanted, Elapsed

\* A manual request records one result.
LEMMA RequestObserved ==
  ASSUME NEW op, NEW cmd, NEW permitted, Request(op, cmd, permitted)
  PROVE  \E c, ok : Observe(op, c, ok)
<1>1. CASE permitted
  BY <1>1 DEF Request
<1>2. CASE ~permitted
  BY <1>2 DEF Request
<1> QED
  BY <1>1, <1>2

\* No step of a reachable state starts the collector before its time.
LEMMA NextStartIsDue == IInv /\ [Next]_vars => (StartIsDue \/ UNCHANGED vars)
<1> SUFFICES ASSUME IInv, Next PROVE StartIsDue
  OBVIOUS
<1>1. ASSUME NEW op, NEW cmd, NEW ok, Observe(op, cmd, ok),
             op \notin {"update_demand", "process"}
      PROVE  StartIsDue
  BY <1>1 DEF Observe, StartIsDue
<1>2. CASE RequestStart
  <2>1. Request("request_start", "start", StartPermitted(mode))
    BY <1>2 DEF RequestStart
  <2>2. \E cmd, ok : Observe("request_start", cmd, ok)
    BY <2>1, RequestObserved
  <2> QED
    BY <2>2, <1>1
<1>3. CASE RequestStop
  <2>1. Request("request_stop", "stop", StopPermitted(mode))
    BY <1>3 DEF RequestStop
  <2>2. \E cmd, ok : Observe("request_stop", cmd, ok)
    BY <2>1, RequestObserved
  <2> QED
    BY <2>2, <1>1
<1>4. ASSUME NEW m \in CollectorMode, RequestMode(m) PROVE StartIsDue
  BY <1>4, <1>1 DEF RequestMode
<1>5. CASE RequestUnknownMode
  BY <1>5, <1>1 DEF RequestUnknownMode
<1>6. ASSUME NEW active \in BOOLEAN, UpdateDemand(active) PROVE StartIsDue
  <2> USE DEF PendingOnDemand
  <2> DEFINE pending == PendingOnDemand(active)
             cmd     == Reconcile(mode, active, pending, FALSE)
  <2>1. PICK r \in Deliveries(cmd) :
          demandActive' = active /\ mode' = mode /\ Observe("update_demand", cmd, r.ok)
    BY <1>6 DEF UpdateDemand
  <2> SUFFICES ASSUME cmd = "start", mode = "automatic"
               PROVE  active /\ (demandAge' = StartDelay \/ overridden')
    <3> HIDE DEF cmd
    <3> QED
      BY <2>1 DEF StartIsDue, Observe
  <2>2. active /\ (pending = NotPending \/ pending >= StartDelay)
    <3> HIDE DEF pending
    <3> QED
      BY AutomaticStart
  <2>3. CASE demandActive
    <3>1. pending = pendingAge /\ demandAge' = demandAge /\ overridden' = overridden
      BY <2>1, <2>2, <2>3 DEF Observe, IInv, TypeOK
    <3>2. CASE pendingAge = NotPending
      <4>1. overridden \/ demandAge = StartDelay
        BY <2>3, <3>2 DEF IInv, DelayAccountedFor
      <4> QED
        BY <2>2, <3>1, <4>1
    <3>3. CASE pendingAge # NotPending
      BY <2>2, <3>1, <3>3, StartDelayNat DEF IInv, TypeOK, PendingIsPresentDemand
    <3> QED
      BY <2>2, <3>2, <3>3
  <2>4. CASE ~demandActive
    <3>1. pending = 0 /\ demandAge' = 0
      BY <2>1, <2>2, <2>4 DEF Observe, IInv, TypeOK
    <3>2. StartDelay = 0
      <4> HIDE DEF pending
      <4> QED
        BY <2>2, <3>1, StartDelayNat DEF NotPending
    <3> QED
      BY <2>2, <3>1, <3>2
  <2> QED
    BY <2>3, <2>4 DEF IInv, TypeOK
<1>7. CASE Process
  <2> DEFINE cmd == Reconcile(mode, demandActive, pendingAge, FALSE)
  <2>1. PICK r \in Deliveries(cmd) :
          demandActive' = demandActive /\ mode' = mode /\ Observe("process", cmd, r.ok)
    BY <1>7 DEF Process
  <2> SUFFICES ASSUME cmd = "start", mode = "automatic"
               PROVE  demandActive /\ (demandAge' = StartDelay \/ overridden')
    <3> HIDE DEF cmd
    <3> QED
      BY <2>1 DEF StartIsDue, Observe
  <2>2. demandActive /\ (pendingAge = NotPending \/ pendingAge >= StartDelay)
    BY AutomaticStart
  <2>3. demandAge' = demandAge /\ overridden' = overridden
    BY <2>1, <2>2 DEF Observe, IInv, TypeOK
  <2>4. CASE pendingAge = NotPending
    BY <2>2, <2>3, <2>4 DEF IInv, DelayAccountedFor
  <2>5. CASE pendingAge # NotPending
    BY <2>2, <2>3, <2>5, StartDelayNat DEF IInv, TypeOK, PendingIsPresentDemand
  <2> QED
    BY <2>2, <2>4, <2>5
<1>8. CASE ConfirmStarted \/ ConfirmStopped \/ UnitFault \/ UnitRecover
  BY <1>8, <1>1 DEF ConfirmStarted, ConfirmStopped, UnitFault, UnitRecover, UnitStep
<1>9. CASE Tick
  BY <1>9 DEF Tick, StartIsDue
<1>10. ASSUME NEW cmd \in {"start", "stop"}, TakeUp(cmd) PROVE StartIsDue
  BY <1>10, <1>1 DEF TakeUp
<1> QED
  BY <1>2, <1>3, <1>4, <1>5, <1>6, <1>7, <1>8, <1>9, <1>10 DEF Next

\* update_demand() and process() start the collector in AUTO only for a demand
\* that lasted for the configured delay or met an override, whatever requests,
\* failures, faults and recoveries came before.
THEOREM DelayRespected == Spec => StartDelayRespected
<1>1. IInv /\ [Next]_vars => [StartIsDue]_vars
  BY NextStartIsDue
<1> QED
  BY <1>1, Invariance, PTL DEF Spec, StartDelayRespected, StartIsDue

-----------------------------------------------------------------------------
OverrideKept ==
  /\ (mode = "forced_off" /\ mode' = "forced_off" /\ "start" \notin outstanding)
       => /\ ~(unitState \notin On /\ unitState' \in On)
          /\ "start" \notin outstanding'
  /\ (mode = "forced_on" /\ mode' = "forced_on" /\ "stop" \notin outstanding)
       => /\ ~(unitState \in On /\ unitState' \in {"stopping", "stopped"})
          /\ "stop" \notin outstanding'

\* A delivery moves the unit into or out of On, or leaves a command outstanding,
\* only when its command says so and it succeeds.
LEMMA DeliveryKeepsSide ==
  ASSUME NEW cmd \in {"none", "start", "stop"}, NEW r \in Deliveries(cmd),
         cmd = "start" => unitState = "stopped",
         cmd = "stop" => unitState = "running",
         Delivered(r)
  PROVE  /\ cmd # "start" \/ r.ok = FALSE =>
              /\ ~(unitState \notin On /\ unitState' \in On)
              /\ "start" \in outstanding' => "start" \in outstanding
         /\ cmd # "stop" \/ r.ok = FALSE =>
              /\ ~(unitState \in On /\ unitState' \in {"stopping", "stopped"})
              /\ "stop" \in outstanding' => "stop" \in outstanding
<1>0. \A c : c # cmd \/ r.ok = FALSE => (c \in outstanding' => c \in outstanding)
  BY DeliveryEffect DEF Delivered
<1>1. CASE cmd = "none"
  BY <1>0, <1>1, DeliveryEffect DEF On, Delivered
<1>2. CASE cmd = "start"
  BY <1>0, <1>2, DeliveryEffect DEF On, Delivered
<1>3. CASE cmd = "stop"
  BY <1>0, <1>3, DeliveryEffect DEF On, Delivered
<1> QED
  BY <1>1, <1>2, <1>3

\* In an override reconcile() issues only the command of that override.
LEMMA OverrideCommand ==
  ASSUME NEW d, NEW p, NEW immediate
  PROVE  /\ Reconcile("forced_off", d, p, immediate) # "start"
         /\ Reconcile("forced_on", d, p, immediate) # "stop"
BY DEF Reconcile, Wanted

\* No step works against the override that is and stays in force.
LEMMA NextOverrideKept == [Next]_vars => (OverrideKept \/ UNCHANGED vars)
<1> SUFFICES ASSUME Next PROVE OverrideKept
  OBVIOUS
<1>1. ASSUME UNCHANGED unitVars PROVE OverrideKept
  BY <1>1 DEF OverrideKept, On, unitVars
<1>2. CASE RequestStart
  <2>1. CASE StartPermitted(mode)
    <3>1. PICK r \in Deliveries("start") : Delivered(r)
      BY <1>2, <2>1 DEF RequestStart, Request
    <3>2. mode # "forced_off" /\ unitState = "stopped"
      BY <2>1 DEF StartPermitted
    <3> QED
      BY <3>1, <3>2, DeliveryKeepsSide DEF OverrideKept
  <2>2. CASE ~StartPermitted(mode)
    BY <1>1, <1>2, <2>2 DEF RequestStart, Request
  <2> QED
    BY <2>1, <2>2
<1>3. CASE RequestStop
  <2>1. CASE StopPermitted(mode)
    <3>1. PICK r \in Deliveries("stop") : Delivered(r)
      BY <1>3, <2>1 DEF RequestStop, Request
    <3>2. mode # "forced_on" /\ unitState = "running"
      BY <2>1 DEF StopPermitted
    <3> QED
      BY <3>1, <3>2, DeliveryKeepsSide DEF OverrideKept
  <2>2. CASE ~StopPermitted(mode)
    BY <1>1, <1>3, <2>2 DEF RequestStop, Request
  <2> QED
    BY <2>1, <2>2
<1>4. ASSUME NEW m \in CollectorMode, RequestMode(m) PROVE OverrideKept
  <2> DEFINE changed   == mode # m
             pending   == PendingOnChange(m)
             immediate == changed /\ m = "automatic" /\ demandActive
             cmd       == Reconcile(m, demandActive, pending, immediate)
  <2>1. PICK r \in Deliveries(cmd) :
          Delivered(r) /\ mode' = IF r.ok THEN m ELSE mode
    BY <1>4 DEF RequestMode, ModeAfter
  <2>2. /\ cmd \in {"none", "start", "stop"}
        /\ cmd = "start" => unitState = "stopped"
        /\ cmd = "stop" => unitState = "running"
    BY ReconcileType
  <2>3. m = "forced_off" => cmd # "start"
    BY OverrideCommand
  <2>4. m = "forced_on" => cmd # "stop"
    BY OverrideCommand
  <2> HIDE DEF cmd
  <2>5. r.ok = TRUE \/ r.ok = FALSE
    BY <2>2, DeliveryEffect
  <2>6. CASE r.ok = TRUE
    <3>1. mode' = m
      BY <2>1, <2>6
    <3> QED
      BY <2>1, <2>2, <2>3, <2>4, <3>1, DeliveryKeepsSide DEF OverrideKept
  <2>7. CASE r.ok = FALSE
    BY <2>1, <2>2, <2>7, DeliveryKeepsSide DEF OverrideKept
  <2> QED
    BY <2>5, <2>6, <2>7
<1>5. CASE RequestUnknownMode
  BY <1>1, <1>5 DEF RequestUnknownMode
<1>6. ASSUME NEW d, NEW p,
             \E r \in Deliveries(Reconcile(mode, d, p, FALSE)) : Delivered(r)
      PROVE  OverrideKept
  <2> DEFINE cmd == Reconcile(mode, d, p, FALSE)
  <2>1. PICK r \in Deliveries(cmd) : Delivered(r)
    BY <1>6
  <2>2. /\ cmd \in {"none", "start", "stop"}
        /\ cmd = "start" => unitState = "stopped"
        /\ cmd = "stop" => unitState = "running"
    BY ReconcileType
  <2>3. mode = "forced_off" => cmd # "start"
    BY OverrideCommand
  <2>4. mode = "forced_on" => cmd # "stop"
    BY OverrideCommand
  <2> HIDE DEF cmd
  <2> QED
    BY <2>1, <2>2, <2>3, <2>4, DeliveryKeepsSide DEF OverrideKept
<1>7. ASSUME NEW active \in BOOLEAN, UpdateDemand(active) PROVE OverrideKept
  BY <1>6, <1>7 DEF UpdateDemand
<1>8. CASE Process
  BY <1>6, <1>8 DEF Process
<1>9. CASE ConfirmStarted \/ ConfirmStopped \/ UnitFault \/ UnitRecover
  BY <1>9 DEF ConfirmStarted, ConfirmStopped, UnitFault, UnitRecover, UnitStep,
     Unit!ConfirmStarted, Unit!ConfirmStopped, Unit!Fault, Unit!Recover,
     Unit!Transition, OverrideKept, On
<1>10. CASE Tick
  BY <1>1, <1>10 DEF Tick
<1>11. ASSUME NEW cmd \in {"start", "stop"}, TakeUp(cmd) PROVE OverrideKept
  BY <1>11 DEF TakeUp, CarryOut, OverrideKept, On
<1> QED
  BY <1>2, <1>3, <1>4, <1>5, <1>7, <1>8, <1>9, <1>10, <1>11 DEF Next

\* Nothing turns the collector on under FORCED_OFF, and nothing but a fault
\* turns it off under FORCED_ON, but for a command delivered before.
THEOREM OverrideRespected == Spec => OverrideHolds
<1>1. [Next]_vars => [OverrideKept]_vars
  BY NextOverrideKept
<1> QED
  BY <1>1, PTL DEF Spec, OverrideHolds, OverrideKept

-----------------------------------------------------------------------------
IntentKept ==
  ~last'.ok =>
    /\ mode' = mode
    /\ demandActive' = demandActive => pendingAge' = pendingAge

\* A reconcile() that fails leaves the pending start it was given, when that
\* one is legal for the mode and the demand.
LEMMA FailedReconcile ==
  ASSUME NEW m, NEW d, NEW p, d \/ p = NotPending
  PROVE  PendingAfter(m, d, p, FALSE, FALSE) = p
BY DEF PendingAfter

\* No failed step of a reachable state changes what the service will do.
LEMMA NextIntentKept == IInv /\ [Next]_vars => (IntentKept \/ UNCHANGED vars)
<1> SUFFICES ASSUME IInv, Next, ~last'.ok,
                    ~(RequestStart \/ RequestStop \/ RequestUnknownMode)
             PROVE  /\ mode' = mode
                    /\ demandActive' = demandActive => pendingAge' = pendingAge
  BY DEF IntentKept, RequestStart, RequestStop, RequestUnknownMode, Request, serviceVars
<1>0. ASSUME NEW op, NEW cmd, NEW ok, Observe(op, cmd, ok) PROVE last'.ok = ok
  BY <1>0 DEF Observe
<1>1. pendingAge # NotPending => demandActive
  BY DEF IInv, PendingIsPresentDemand
<1>2. ASSUME NEW m \in CollectorMode, RequestMode(m)
      PROVE  mode' = mode /\ pendingAge' = pendingAge
  <2> USE DEF PendingOnChange, Rollback
  <2> DEFINE changed   == mode # m
             pending   == PendingOnChange(m)
             immediate == changed /\ m = "automatic" /\ demandActive
             cmd       == Reconcile(m, demandActive, pending, immediate)
  <2>1. PICK r \in Deliveries(cmd) :
          /\ mode' = IF r.ok THEN m ELSE mode
          /\ pendingAge' = Rollback(changed, r.ok,
                              PendingAfter(m, demandActive, pending, immediate, r.ok))
          /\ Observe("request_mode", cmd, r.ok)
    BY <1>2 DEF RequestMode, ModeAfter
  <2>2. r.ok = FALSE
    <3>1. cmd \in {"none", "start", "stop"}
      BY ReconcileType
    <3> HIDE DEF cmd
    <3> QED
      BY <1>0, <2>1, <3>1, DeliveryEffect
  <2>3. CASE changed
    BY <2>1, <2>2, <2>3
  <2>4. CASE ~changed
    <3>1. pendingAge' = PendingAfter(m, demandActive, pendingAge, FALSE, FALSE)
      BY <2>1, <2>2, <2>4
    <3> QED
      BY <1>1, <2>1, <2>2, <3>1, FailedReconcile
  <2> QED
    BY <2>3, <2>4
<1>3. ASSUME \E r \in Deliveries(Reconcile(mode, demandActive, pendingAge, FALSE)) :
               /\ pendingAge' = PendingAfter(mode, demandActive, pendingAge, FALSE, r.ok)
               /\ last'.ok = r.ok
      PROVE  pendingAge' = pendingAge
  <2> DEFINE cmd == Reconcile(mode, demandActive, pendingAge, FALSE)
  <2>1. PICK r \in Deliveries(cmd) :
          /\ pendingAge' = PendingAfter(mode, demandActive, pendingAge, FALSE, r.ok)
          /\ last'.ok = r.ok
    BY <1>3
  <2>2. r.ok = FALSE
    <3>1. cmd \in {"none", "start", "stop"}
      BY ReconcileType
    <3> HIDE DEF cmd
    <3> QED
      BY <2>1, <3>1, DeliveryEffect
  <2> QED
    BY <1>1, <2>1, <2>2, FailedReconcile
<1>4. ASSUME NEW active \in BOOLEAN, UpdateDemand(active)
      PROVE  mode' = mode /\ (demandActive' = demandActive => pendingAge' = pendingAge)
  <2>1. mode' = mode
    BY <1>4 DEF UpdateDemand
  <2>2. ASSUME demandActive' = demandActive PROVE pendingAge' = pendingAge
    <3>1. active = demandActive
      BY <1>4, <2>2 DEF UpdateDemand
    <3>2. \E r \in Deliveries(Reconcile(mode, demandActive, pendingAge, FALSE)) :
            /\ pendingAge' = PendingAfter(mode, demandActive, pendingAge, FALSE, r.ok)
            /\ last'.ok = r.ok
      BY <1>0, <1>4, <3>1 DEF UpdateDemand, PendingOnDemand
    <3> QED
      BY <1>3, <3>2
  <2> QED
    BY <2>1, <2>2
<1>5. CASE Process
  <2>1. mode' = mode
    BY <1>5 DEF Process
  <2>2. \E r \in Deliveries(Reconcile(mode, demandActive, pendingAge, FALSE)) :
          /\ pendingAge' = PendingAfter(mode, demandActive, pendingAge, FALSE, r.ok)
          /\ last'.ok = r.ok
    BY <1>0, <1>5 DEF Process
  <2> QED
    BY <1>3, <2>1, <2>2
<1>6. ASSUME \/ ConfirmStarted \/ ConfirmStopped \/ UnitFault \/ UnitRecover \/ Tick
             \/ \E cmd \in {"start", "stop"} : TakeUp(cmd)
      PROVE  FALSE
  <2>1. last'.ok = TRUE
    <3>1. CASE Tick
      BY <3>1 DEF Tick
    <3>2. CASE ConfirmStarted \/ ConfirmStopped \/ UnitFault \/ UnitRecover
      <4>1. Observe("environment", "none", TRUE)
        BY <3>2 DEF ConfirmStarted, ConfirmStopped, UnitFault, UnitRecover, UnitStep
      <4> QED
        BY <1>0, <4>1
    <3>3. CASE \E cmd \in {"start", "stop"} : TakeUp(cmd)
      BY <1>0, <3>3 DEF TakeUp
    <3> QED
      BY <1>6, <3>1, <3>2, <3>3
  <2> QED
    BY <2>1
<1> QED
  BY <1>2, <1>4, <1>5, <1>6 DEF Next

\* An operation that fails keeps the mode, and keeps the pending start unless
\* it changed the demand.
THEOREM FailureKeeps == Spec => FailureKeepsIntent
<1>1. IInv /\ [Next]_vars => [IntentKept]_vars
  BY NextIntentKept
<1> QED
  BY <1>1, Invariance, PTL DEF Spec, FailureKeepsIntent, IntentKept

-----------------------------------------------------------------------------
(* The API.                                                                *)

allVars == <<vars, apiVars>>

Statuses == {NoRequest, Ok, Accepted, Refused, Conflict}

Documents == [state: Unit!CollectorState, mode: {"AUTO", "FORCED_ON", "FORCED_OFF"}]

GrantedInv == granted = mode

-----------------------------------------------------------------------------
\* What a request does: its answer, and a step of the service or none.
LEMMA HandleCases ==
  ASSUME NEW method \in Method, NEW path \in Path, Handle(method, path)
  PROVE  \/ /\ UNCHANGED <<vars, granted>>
            /\ \E s \in {Ok, Refused} : Answer(s)
         \/ (RequestStart \/ RequestStop) /\ Outcome /\ UNCHANGED granted
         \/ \E m \in CollectorMode :
              /\ RequestMode(m) /\ Outcome
              /\ granted' = IF status' = Accepted THEN m ELSE granted
<1>1. CASE Refuse(method, path)
  BY <1>1 DEF Refuse
<1>2. CASE GetState
  BY <1>2 DEF GetState
<1>3. ASSUME path \in DOMAIN RequestedMode, SetMode(path)
      PROVE  \E m \in CollectorMode :
               /\ RequestMode(m) /\ Outcome
               /\ granted' = IF status' = Accepted THEN m ELSE granted
  <2>1. RequestedMode[path] \in CollectorMode
    BY <1>3 DEF RequestedMode, CollectorMode
  <2> QED
    BY <1>3, <2>1 DEF SetMode
<1>4. CASE Start \/ Stop
  BY <1>4 DEF Start, Stop
<1> QED
  BY <1>1, <1>2, <1>3, <1>4 DEF Handle

\* Every step with the API is a step of the service, or leaves it alone.
LEMMA ApiStepIsServiceStep == [ApiNext]_allVars => [Next]_vars
<1> SUFFICES ASSUME [ApiNext]_allVars PROVE [Next]_vars
  OBVIOUS
<1>1. ASSUME NEW method \in Method, NEW path \in Path, Handle(method, path)
      PROVE  Next \/ UNCHANGED vars
  BY <1>1, HandleCases DEF Next
<1>2. CASE Elsewhere
  BY <1>2 DEF Elsewhere, Next
<1>3. CASE UNCHANGED allVars
  BY <1>3 DEF allVars
<1> QED
  BY <1>1, <1>2, <1>3 DEF ApiNext

\* The API adds nothing to what the service does by itself.
THEOREM ApiRefinesService == ApiSpec => Spec
<1>1. ApiInit => Init
  BY DEF ApiInit
<1> QED
  BY <1>1, ApiStepIsServiceStep, PTL DEF ApiSpec, Spec, allVars

-----------------------------------------------------------------------------
\* The answer to an operation says whether it succeeded.
LEMMA OutcomeTells ==
  ASSUME Outcome
  PROVE  /\ status' \in Statuses
         /\ status' = Accepted <=> last'.ok
BY DEF Outcome, Answer, Accepted, Conflict, Statuses

\* A mode request changes the mode when it succeeds, and only then.
LEMMA ModeRequest ==
  ASSUME NEW m \in CollectorMode, RequestMode(m)
  PROVE  mode' = IF last'.ok THEN m ELSE mode
<1>1. PICK cmd, ok : mode' = ModeAfter(m, ok) /\ Observe("request_mode", cmd, ok)
  BY DEF RequestMode
<1> QED
  BY <1>1 DEF ModeAfter, Observe

\* No operation but a mode request, and no step of the environment, changes the
\* mode.
LEMMA ModeStays ==
  ASSUME \/ RequestStart \/ RequestStop
         \/ Elsewhere
  PROVE  UNCHANGED mode
BY DEF RequestStart, RequestStop, Request, Elsewhere, RequestUnknownMode, UpdateDemand,
       Process, ConfirmStarted, ConfirmStopped, UnitFault, UnitRecover, UnitStep, TakeUp,
       Tick, serviceVars

\* Every step keeps the mode and the granted mode together.
LEMMA NextGranted == GrantedInv /\ [ApiNext]_allVars => GrantedInv'
<1> SUFFICES ASSUME GrantedInv, [ApiNext]_allVars PROVE GrantedInv'
  OBVIOUS
<1>1. ASSUME UNCHANGED <<mode, granted>> PROVE GrantedInv'
  BY <1>1 DEF GrantedInv
<1>2. ASSUME NEW method \in Method, NEW path \in Path, Handle(method, path)
      PROVE  GrantedInv'
  <2>1. CASE UNCHANGED <<vars, granted>>
    BY <1>1, <2>1 DEF vars
  <2>2. CASE (RequestStart \/ RequestStop) /\ UNCHANGED granted
    BY <1>1, <2>2, ModeStays
  <2>3. ASSUME NEW m \in CollectorMode, RequestMode(m), Outcome,
               granted' = IF status' = Accepted THEN m ELSE granted
        PROVE  GrantedInv'
    BY <2>3, OutcomeTells, ModeRequest DEF GrantedInv
  <2> QED
    BY <1>2, <2>1, <2>2, <2>3, HandleCases
<1>3. CASE Elsewhere
  <2>1. UNCHANGED granted
    BY <1>3 DEF Elsewhere
  <2> QED
    BY <1>1, <1>3, <2>1, ModeStays
<1>4. CASE UNCHANGED allVars
  BY <1>1, <1>4 DEF allVars, vars, apiVars
<1> QED
  BY <1>2, <1>3, <1>4 DEF ApiNext

\* The mode in force is the one that was accepted last, for every start delay.
THEOREM ModeStaysGranted == ApiSpec => []ModeIsTheGrantedOne
<1>1. ApiInit => GrantedInv
  BY DEF ApiInit, GrantedInv
<1>2. GrantedInv => ModeIsTheGrantedOne
  BY DEF GrantedInv, ModeIsTheGrantedOne
<1> QED
  BY <1>1, <1>2, NextGranted, PTL DEF ApiSpec, allVars

\* Mode, document and status keep their types, for every start delay.
THEOREM ApiTypeCorrect == ApiSpec => []ApiTypeOK
<1> DEFINE Types == status \in Statuses /\ document \in Documents
<1>1. TypeOK => StateJson \in Documents
  BY DEF TypeOK, CollectorMode, StateJson, ModeName, Documents
<1>2. ApiInit /\ TypeOK => Types
  BY <1>1 DEF ApiInit, Statuses
<1>3. TypeOK' /\ Types /\ [ApiNext]_allVars => Types'
  <2> SUFFICES ASSUME TypeOK', Types, [ApiNext]_allVars PROVE Types'
    OBVIOUS
  <2>1. StateJson' \in Documents
    BY DEF TypeOK, CollectorMode, StateJson, ModeName, Documents, Unit!CollectorState
  <2>2. ASSUME NEW s \in Statuses, Answer(s) PROVE Types'
    <3>1. document' \in Documents
      BY <2>1, <2>2 DEF Answer
    <3> QED
      BY <2>2, <3>1 DEF Answer
  <2>3. ASSUME NEW method \in Method, NEW path \in Path, Handle(method, path)
        PROVE  Types'
    <3>1. Outcome \/ \E s \in {Ok, Refused} : Answer(s)
      BY <2>3, HandleCases
    <3> QED
      BY <2>2, <3>1 DEF Outcome, Statuses
  <2>4. ASSUME status' \in Statuses, UNCHANGED document PROVE Types'
    BY <2>4
  <2>5. CASE Elsewhere
    BY <2>4, <2>5 DEF Elsewhere, Statuses
  <2>6. CASE UNCHANGED allVars
    BY <2>4, <2>6 DEF allVars, apiVars
  <2> QED
    BY <2>3, <2>5, <2>6 DEF ApiNext
<1>4. ApiInit => TypeOK
  BY InitIInv DEF ApiInit, IInv
<1>5. ApiSpec => []IInv
  BY ApiRefinesService, Invariance, PTL
<1>6. IInv => TypeOK
  BY DEF IInv
<1>7. TypeOK /\ Types /\ ModeIsTheGrantedOne => ApiTypeOK
  BY DEF TypeOK, ApiTypeOK, ModeIsTheGrantedOne, Statuses, Documents
<1> QED
  BY <1>2, <1>3, <1>4, <1>5, <1>6, <1>7, ModeStaysGranted, PTL DEF ApiSpec, allVars

-----------------------------------------------------------------------------
\* A mode request that succeeds leaves a unit at rest in the state that the mode
\* rules out only with the mode's command outstanding.
LEMMA ModeTakesEffect ==
  ASSUME NEW m \in CollectorMode, RequestMode(m), last'.ok
  PROVE  /\ mode' = m
         /\ m = "forced_off" /\ unitState' = "running" => "stop" \in outstanding'
         /\ m = "forced_on" /\ unitState' = "stopped" => "start" \in outstanding'
         /\ m = "automatic" /\ mode # "automatic" /\ demandActive /\ unitState' = "stopped"
              => "start" \in outstanding'
<1> DEFINE changed   == mode # m
           pending   == PendingOnChange(m)
           immediate == changed /\ m = "automatic" /\ demandActive
           cmd       == Reconcile(m, demandActive, pending, immediate)
<1>1. PICK r \in Deliveries(cmd) :
        /\ Delivered(r)
        /\ mode' = ModeAfter(m, r.ok)
        /\ Observe("request_mode", cmd, r.ok)
  BY DEF RequestMode
<1>2. r.ok /\ mode' = m
  BY <1>1 DEF Observe, ModeAfter
<1>3. cmd \in {"none", "start", "stop"}
  BY ReconcileType
<1>4. m = "forced_off" => cmd = IF unitState = "running" THEN "stop" ELSE "none"
  <2> HIDE DEF pending
  <2> QED
    BY DEF Reconcile, Wanted
<1>5. m = "forced_on" => cmd = IF unitState = "stopped" THEN "start" ELSE "none"
  <2> HIDE DEF pending
  <2> QED
    BY DEF Reconcile, Wanted
<1>6. (m = "automatic" /\ mode # "automatic" /\ demandActive)
        => cmd = IF unitState = "stopped" THEN "start" ELSE "none"
  <2> HIDE DEF pending
  <2> QED
    BY DEF Reconcile, Wanted
<1> HIDE DEF cmd
<1>7. /\ cmd = "none" => unitState' = unitState
      /\ cmd = "start" /\ unitState' = "stopped" => "start" \in outstanding'
      /\ cmd = "stop" /\ unitState' = "running" => "stop" \in outstanding'
  BY <1>1, <1>2, <1>3, DeliveryEffect DEF Delivered
<1> QED
  BY <1>2, <1>4, <1>5, <1>6, <1>7

\* Starting and stopping by hand is not recorded as a mode request.
LEMMA ManualIsNotMode ==
  ASSUME RequestStart \/ RequestStop
  PROVE  last'.op # "request_mode"
<1>1. ASSUME NEW op, NEW cmd, NEW ok, Observe(op, cmd, ok), op # "request_mode"
      PROVE  last'.op # "request_mode"
  BY <1>1 DEF Observe
<1> QED
  BY <1>1 DEF RequestStart, RequestStop, Request

\* An accepted mode is shown in force, or its command is outstanding.
THEOREM AcceptedIsDelivered == ApiSpec => AcceptedIsUnderWay
<1> DEFINE UnderWay ==
      (last'.op = "request_mode" /\ status' = Accepted)
        => /\ (mode' = "forced_off" /\ unitState' = "running") => "stop" \in outstanding'
           /\ (mode' = "forced_on" /\ unitState' = "stopped") => "start" \in outstanding'
           /\ (mode # "automatic" /\ mode' = "automatic" /\ demandActive
                /\ unitState' = "stopped") => "start" \in outstanding'
<1>1. [ApiNext]_allVars => [UnderWay]_allVars
  <2> SUFFICES ASSUME ApiNext, last'.op = "request_mode", status' = Accepted
               PROVE  UnderWay
    OBVIOUS
  <2>1. PICK method \in Method, path \in Path : Handle(method, path)
    BY DEF ApiNext, Elsewhere, Accepted, NoRequest
  <2>2. \A s \in {Ok, Refused} : ~Answer(s)
    BY DEF Answer, Accepted, Ok, Refused
  <2>3. PICK m \in CollectorMode : RequestMode(m) /\ Outcome
    BY <2>1, <2>2, HandleCases, ManualIsNotMode
  <2>4. last'.ok
    BY <2>3, OutcomeTells
  <2> QED
    BY <2>3, <2>4, ModeTakesEffect
<1> QED
  BY <1>1, PTL DEF ApiSpec, AcceptedIsUnderWay, allVars
=============================================================================
