----------------------- MODULE CollectorStateMachine -----------------------
(***************************************************************************)
(* The state machine every Collector Unit owns                             *)
(* (firmware/components/collector_state_machine).  An operation that finds *)
(* the machine in another state than the one it expects returns false and  *)
(* changes nothing: here it is simply not enabled.  The transition         *)
(* observer is called after the assignment and is never installed by the   *)
(* firmware, so it has no counterpart.                                     *)
(***************************************************************************)

VARIABLE state

CollectorState == {"stopped", "starting", "running", "stopping", "faulted"}

Init == state = "stopped"

\* CollectorStateMachine::transition
Transition(expected, next) ==
  /\ state = expected
  /\ state' = next

RequestStart == Transition("stopped", "starting")

ConfirmStarted == Transition("starting", "running")

RequestStop == Transition("running", "stopping")

ConfirmStopped == Transition("stopping", "stopped")

Fault ==
  /\ state # "faulted"
  /\ Transition(state, "faulted")

Recover == Transition("faulted", "stopped")

=============================================================================
