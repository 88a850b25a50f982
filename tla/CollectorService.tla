-------------------------- MODULE CollectorService --------------------------
(***************************************************************************)
(* The Collector Service (firmware/components/collector_service): manual   *)
(* requests, the AUTO / FORCED_ON / FORCED_OFF modes, machine demand and   *)
(* the automatic start delay, driving one Collector Unit through commands. *)
(*                                                                         *)
(* Each operation of the service is one action: the class holds no lock    *)
(* and its callers serialise its operations.  A command is delivered       *)
(* synchronously inside the operation (CommandDispatcher::dispatch), so    *)
(* its outcome, and the state in which it leaves the unit, are part of the *)
(* operation's action.  Delivered does not mean done: the recipient may    *)
(* carry a command out after the operation, or never (docs/implementation/ *)
(* collector-api.md, lines 9-12).  Between operations the unit moves on    *)
(* its own.                                                                *)
(*                                                                         *)
(* Time.  The code keeps the time stamp pending_demand_since_ and compares *)
(* only clock_() - pending_demand_since_ with start_delay_.  The model     *)
(* keeps that difference, pendingAge, cut off at StartDelay, so that time  *)
(* may advance for ever.                                                   *)
(***************************************************************************)
EXTENDS Integers

CONSTANT ConfiguredDelay   \* the start_delay argument of the constructor

ASSUME ConfiguredDelayAssumption == ConfiguredDelay \in Int

VARIABLES
  mode,          \* mode_
  demandActive,  \* demand_active_
  pendingAge,    \* age of pending_demand_since_, or NotPending for nullopt
  unitState,     \* unit_.state()
  outstanding,   \* commands delivered to the unit that it has yet to take up
  (* History variables, which no guard of the service reads. *)
  demandAge,     \* time since the present demand began, cut off at StartDelay
  overridden,    \* the present demand has met an override mode
  last           \* the last operation, the command it issued, what it returned

unitVars == <<unitState, outstanding>>
serviceVars == <<mode, demandActive, pendingAge>>
history == <<demandAge, overridden, last>>
vars == <<mode, demandActive, pendingAge, unitState, outstanding,
          demandAge, overridden, last>>

Unit == INSTANCE CollectorStateMachine WITH state <- unitState

CollectorMode == {"automatic", "forced_on", "forced_off"}

\* The constructor clamps a negative delay to zero.
StartDelay == IF ConfiguredDelay < 0 THEN 0 ELSE ConfiguredDelay

NotPending == -1

Operation == {"request_start", "request_stop", "request_mode",
              "update_demand", "process", "environment"}

TypeOK ==
  /\ mode \in CollectorMode
  /\ demandActive \in BOOLEAN
  /\ pendingAge \in {NotPending} \union (0 .. StartDelay)
  /\ unitState \in Unit!CollectorState
  /\ outstanding \subseteq {"start", "stop"}
  /\ demandAge \in 0 .. StartDelay
  /\ overridden \in BOOLEAN
  /\ last \in [op: Operation, cmd: {"none", "start", "stop"}, ok: BOOLEAN]

Init ==
  /\ mode = "automatic"
  /\ demandActive = FALSE
  /\ pendingAge = NotPending
  /\ Unit!Init
  /\ outstanding = {}
  /\ demandAge = 0
  /\ overridden = FALSE
  /\ last = [op |-> "environment", cmd |-> "none", ok |-> TRUE]

-----------------------------------------------------------------------------
(***************************************************************************)
(* Commands.  dispatch_command() looks at the result of the dispatch only. *)
(* A delivered StartCollector leaves the unit starting, or running when it *)
(* confirms at once as the relay-backed one does, or still stopped with    *)
(* the command outstanding.  A command that is not delivered (no command   *)
(* id, no recipient, a refusing unit) changes nothing, or leaves a unit    *)
(* that failed halfway faulted.                                            *)
(***************************************************************************)
Outcomes(ok, units, held) == [ok: {ok}, unit: units, outstanding: {held}]

Deliveries(cmd) ==
  CASE cmd = "start" -> Outcomes(TRUE, {"starting", "running"}, outstanding)
                          \union Outcomes(TRUE, {"stopped"}, outstanding \union {"start"})
                          \union Outcomes(FALSE, {"stopped", "faulted"}, outstanding)
    [] cmd = "stop"  -> Outcomes(TRUE, {"stopping", "stopped"}, outstanding)
                          \union Outcomes(TRUE, {"running"}, outstanding \union {"stop"})
                          \union Outcomes(FALSE, {"running", "faulted"}, outstanding)
    [] OTHER         -> Outcomes(TRUE, {unitState}, outstanding)

\* The unit after the delivery r.
Delivered(r) == unitState' = r.unit /\ outstanding' = r.outstanding

\* Mutants: a manual request that forgets the override.
StartPermittedAlways(m) == unitState = "stopped"

StopPermittedAlways(m) == unitState = "running"

\* The mode m and the observed state that permit a manual start or stop.
StartPermitted(m) == m # "forced_off" /\ unitState = "stopped"

StopPermitted(m) == m # "forced_on" /\ unitState = "running"

-----------------------------------------------------------------------------
(***************************************************************************)
(* CollectorService::reconcile, for mode m, demand d, pending start p and  *)
(* the argument automatic_start_immediate: the command it issues and, once *)
(* that command's outcome ok is known, the pending start it leaves.        *)
(***************************************************************************)
Elapsed(p) == p >= StartDelay

\* Mutants: FORCED_OFF that only suppresses, a demand whose release is never
\* acted upon, a start that only a pending start brings about.
WantedOffIdle(m, d, p, immediate) ==
  CASE m = "forced_on"  -> "start"
    [] m = "forced_off" -> "none"
    [] OTHER            -> IF d THEN "start" ELSE "stop"

WantedReleaseIdle(m, d, p, immediate) ==
  CASE m = "forced_on"  -> "start"
    [] m = "forced_off" -> "stop"
    [] OTHER            -> IF d THEN "start" ELSE "none"

WantedPendingOnly(m, d, p, immediate) ==
  CASE m = "forced_on"  -> "start"
    [] m = "forced_off" -> "stop"
    [] OTHER            -> IF ~d THEN "stop"
                           ELSE IF immediate \/ (p # NotPending /\ Elapsed(p))
                           THEN "start"
                           ELSE "none"

Wanted(m, d, p, immediate) ==
  CASE m = "forced_on"  -> "start"
    [] m = "forced_off" -> "stop"
    [] OTHER            -> IF ~d THEN "stop"
                           ELSE IF immediate \/ p = NotPending \/ Elapsed(p)
                           THEN "start"
                           ELSE "none"

Reconcile(m, d, p, immediate) ==
  LET wanted == Wanted(m, d, p, immediate)
  IN  IF \/ wanted = "start" /\ unitState = "stopped"
         \/ wanted = "stop" /\ unitState = "running"
      THEN wanted
      ELSE "none"

\* Mutant: a due start is forgotten even when its command failed.
PendingAfterNoRetry(m, d, p, immediate, ok) ==
  IF m = "automatic" /\ (~d \/ immediate \/ Elapsed(p)) THEN NotPending ELSE p

PendingAfter(m, d, p, immediate, ok) ==
  IF /\ m = "automatic"
     /\ ~d \/ immediate \/ (Elapsed(p) /\ ok)
  THEN NotPending
  ELSE p

-----------------------------------------------------------------------------
(* History: the age of the demand, whether it met an override, the result. *)
Observe(op, cmd, ok) ==
  /\ demandAge' = IF demandActive /\ demandActive' THEN demandAge ELSE 0
  /\ overridden' = (demandActive' /\ (mode' # "automatic" \/ (demandActive /\ overridden)))
  /\ last' = [op |-> op, cmd |-> cmd, ok |-> ok]

\* What a manual request does: one command when permitted, else a refusal.
Request(op, cmd, permitted) ==
  /\ UNCHANGED serviceVars
  /\ IF permitted
     THEN \E r \in Deliveries(cmd) :
            /\ Delivered(r)
            /\ Observe(op, cmd, r.ok)
     ELSE /\ UNCHANGED unitVars
          /\ Observe(op, "none", FALSE)

RequestStart == Request("request_start", "start", StartPermitted(mode))

RequestStop == Request("request_stop", "stop", StopPermitted(mode))

(***************************************************************************)
(* The new mode is in force while its command is issued; a command that is *)
(* not delivered brings back the previous mode and pending start.          *)
(***************************************************************************)
\* Mutant: a change of mode leaves the pending start in place.
PendingKeptOnChange(requested) == pendingAge

PendingOnChange(requested) == IF mode # requested THEN NotPending ELSE pendingAge

\* Mutant: the rollback restores the mode only.
NoRollback(changed, ok, p) == p

Rollback(changed, ok, p) == IF changed /\ ~ok THEN pendingAge ELSE p

\* Mutant: a mode whose command failed stays in force.
ModeKept(requested, ok) == requested

ModeAfter(requested, ok) == IF ok THEN requested ELSE mode

RequestMode(requested) ==
  LET changed   == mode # requested
      pending   == PendingOnChange(requested)
      immediate == changed /\ requested = "automatic" /\ demandActive
      cmd       == Reconcile(requested, demandActive, pending, immediate)
  IN  \E r \in Deliveries(cmd) :
        /\ Delivered(r)
        /\ mode' = ModeAfter(requested, r.ok)
        /\ pendingAge' =
             Rollback(changed, r.ok,
                      PendingAfter(requested, demandActive, pending, immediate, r.ok))
        /\ UNCHANGED demandActive
        /\ Observe("request_mode", cmd, r.ok)

\* A value outside the enumeration is refused before anything happens.
RequestUnknownMode ==
  /\ UNCHANGED <<unitVars, serviceVars>>
  /\ Observe("request_mode", "none", FALSE)

\* Mutant: a new demand is not put off.
PendingOnDemandMissing(active) == IF active THEN pendingAge ELSE NotPending

\* A new demand in AUTO starts its delay; a demand that ends takes it along.
PendingOnDemand(active) ==
  IF active /\ ~demandActive /\ mode = "automatic" THEN 0
  ELSE IF demandActive /\ ~active THEN NotPending
  ELSE pendingAge

UpdateDemand(active) ==
  LET pending == PendingOnDemand(active)
      cmd     == Reconcile(mode, active, pending, FALSE)
  IN  \E r \in Deliveries(cmd) :
        /\ demandActive' = active
        /\ Delivered(r)
        /\ pendingAge' = PendingAfter(mode, active, pending, FALSE, r.ok)
        /\ UNCHANGED mode
        /\ Observe("update_demand", cmd, r.ok)

Process ==
  LET cmd == Reconcile(mode, demandActive, pendingAge, FALSE)
  IN  \E r \in Deliveries(cmd) :
        /\ Delivered(r)
        /\ pendingAge' = PendingAfter(mode, demandActive, pendingAge, FALSE, r.ok)
        /\ UNCHANGED <<mode, demandActive>>
        /\ Observe("process", cmd, r.ok)

-----------------------------------------------------------------------------
(* The environment: the unit confirms, faults, recovers and takes up what  *)
(* was delivered to it; time passes.                                       *)
UnitStep(A) ==
  /\ A
  /\ UNCHANGED <<serviceVars, outstanding>>
  /\ Observe("environment", "none", TRUE)

ConfirmStarted == UnitStep(Unit!ConfirmStarted)

ConfirmStopped == UnitStep(Unit!ConfirmStopped)

UnitFault == UnitStep(Unit!Fault)

UnitRecover == UnitStep(Unit!Recover)

\* The unit carries out an outstanding command, if it is one for its state.
CarryOut(cmd) ==
  \/ cmd = "start" /\ unitState = "stopped" /\ unitState' \in {"starting", "running"}
  \/ cmd = "stop" /\ unitState = "running" /\ unitState' \in {"stopping", "stopped"}

\* Commands are taken up in any order, and some are dropped.
TakeUp(cmd) ==
  /\ cmd \in outstanding
  /\ outstanding' = outstanding \ {cmd}
  /\ CarryOut(cmd) \/ UNCHANGED unitState
  /\ UNCHANGED serviceVars
  /\ Observe("environment", "none", TRUE)

Older(age) == IF age \in 0 .. (StartDelay - 1) THEN age + 1 ELSE age

\* The clock advances by one unit; it matters only while an age still grows.
Tick ==
  /\ demandActive
  /\ Older(pendingAge) # pendingAge \/ Older(demandAge) # demandAge
  /\ pendingAge' = Older(pendingAge)
  /\ demandAge' = Older(demandAge)
  /\ last' = [op |-> "environment", cmd |-> "none", ok |-> TRUE]
  /\ UNCHANGED <<mode, demandActive, unitVars, overridden>>

-----------------------------------------------------------------------------
Next ==
  \/ RequestStart
  \/ RequestStop
  \/ \E m \in CollectorMode : RequestMode(m)
  \/ RequestUnknownMode
  \/ \E active \in BOOLEAN : UpdateDemand(active)
  \/ Process
  \/ ConfirmStarted
  \/ ConfirmStopped
  \/ UnitFault
  \/ UnitRecover
  \/ \E cmd \in {"start", "stop"} : TakeUp(cmd)
  \/ Tick

Spec == Init /\ [][Next]_vars

\* process() delivers the command cmd that it finds due.
ProcessDelivers(cmd) == Process /\ last' = [op |-> "process", cmd |-> cmd, ok |-> TRUE]

(***************************************************************************)
(* process() is called periodically (docs/implementation/collector-api.md, *)
(* line 39), a command that is due again and again is not lost every time, *)
(* nor dropped by the unit every time, the unit confirms what it has begun *)
(* to do, and time passes.  Nothing is assumed of the requests, of demand, *)
(* of faults or of recovery, nor of how late a command is taken up.        *)
(***************************************************************************)
Fairness ==
  /\ WF_vars(Process)
  /\ SF_vars(ProcessDelivers("start"))
  /\ SF_vars(ProcessDelivers("stop"))
  /\ SF_vars(TakeUp("start") /\ CarryOut("start"))
  /\ SF_vars(TakeUp("stop") /\ CarryOut("stop"))
  /\ WF_vars(ConfirmStarted)
  /\ WF_vars(ConfirmStopped)
  /\ WF_vars(Tick)

FairSpec == Spec /\ Fairness

-----------------------------------------------------------------------------
(* Safety.                                                                 *)

\* A pending automatic start always belongs to the present demand: it exists
\* only in AUTO with demand active, is exactly as old as that demand, and that
\* demand never met an override.  No release, mode change, failed command or
\* rollback leaves a stale pending_demand_since_ behind.
PendingIsPresentDemand ==
  pendingAge # NotPending =>
    /\ mode = "automatic"
    /\ demandActive
    /\ ~overridden
    /\ pendingAge = demandAge

\* Without a pending start nothing holds process() back, so in AUTO an active
\* demand has no pending start only after it has waited for the start delay or
\* has met an override (which waives the delay).
DelayAccountedFor ==
  /\ (mode = "automatic" /\ demandActive /\ pendingAge = NotPending /\ ~overridden)
       => demandAge = StartDelay
  /\ (mode # "automatic" /\ demandActive) => overridden

\* update_demand() and process() start the collector in AUTO only for a demand
\* that is active and has either lasted for the start delay or met an override.
StartDelayRespected ==
  [][ (/\ last'.op \in {"update_demand", "process"}
       /\ last'.cmd = "start"
       /\ mode' = "automatic")
      => demandActive' /\ (demandAge' = StartDelay \/ overridden') ]_vars

On == {"starting", "running"}

\* While FORCED_OFF is and stays in force nothing turns the collector on, and
\* while FORCED_ON is and stays in force nothing but a fault turns it off,
\* except a command delivered before the override that the unit takes up late,
\* and no further one is delivered: neither by manual requests, nor demand, nor
\* process(), nor a mode request whose command fails.
OverrideHolds ==
  [][ /\ (mode = "forced_off" /\ mode' = "forced_off" /\ "start" \notin outstanding)
           => /\ ~(unitState \notin On /\ unitState' \in On)
              /\ "start" \notin outstanding'
      /\ (mode = "forced_on" /\ mode' = "forced_on" /\ "stop" \notin outstanding)
           => /\ ~(unitState \in On /\ unitState' \in {"stopping", "stopped"})
              /\ "stop" \notin outstanding' ]_vars

\* An operation that reports failure loses nothing the service had promised:
\* the mode is the previous one, and a pending start survives unless this very
\* operation changed the demand.
FailureKeepsIntent ==
  [][ ~last'.ok =>
        /\ mode' = mode
        /\ demandActive' = demandActive => pendingAge' = pendingAge ]_vars

-----------------------------------------------------------------------------
(* Liveness, under FairSpec.                                               *)

\* FORCED_ON in force for ever and no faults: the collector ends up running.
ForcedOnSettles ==
  <>[](mode = "forced_on" /\ unitState # "faulted") => <>[](unitState = "running")

\* AUTO and an active demand for ever, no faults: after a failed start, a manual
\* stop or a start pending for its delay, the collector comes to run again.
DemandServed ==
  <>[](mode = "automatic" /\ demandActive /\ unitState # "faulted")
    => []<>(unitState = "running")

\* AUTO and no demand for ever: the collector keeps coming to rest, even after
\* manual starts.
ReleaseServed ==
  <>[](mode = "automatic" /\ ~demandActive)
    => []<>(unitState \in {"stopped", "faulted"})

-----------------------------------------------------------------------------
\* REQ-DC-004 (docs/specification/02-system-requirements.md): after the final
\* demand disappears the collector is kept in operation for a run-on period.
\* The step that releases the demand must therefore not stop a running unit.
RunOnAfterDemand ==
  [][ (/\ mode = "automatic"
       /\ demandActive /\ ~demandActive'
       /\ unitState = "running")
      => last'.cmd # "stop" ]_vars
=============================================================================
