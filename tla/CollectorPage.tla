----------------------------- MODULE CollectorPage -----------------------------
(***************************************************************************)
(* The control page in the browser                                         *)
(* (firmware/components/collector_page/web/index.html).  A click or the    *)
(* poll timer sends a request and goes on; what follows the await runs     *)
(* when the answer comes, after whatever clicks, polls and answers came in *)
(* between.  The requests under way reach the controller and return in any *)
(* order, and each may be lost on either way.                              *)
(*                                                                         *)
(* The controller is what CollectorFirmware shows of it: it serves one     *)
(* request at a time, and its unit also moves by other clients, by demand, *)
(* by faults and by resets, through several states between two requests.   *)
(***************************************************************************)
CONSTANTS
  Slot,      \* bound: requests under way at the same time
  Reported   \* the states the unit reports: a synchronous one no transient ones

VARIABLES
  state,      \* the state the collector reports
  requests,   \* per slot, a request under way or Free
  shown,      \* the text of the element "state"
  message,    \* the text of the element "message", by its meaning
  failed      \* history: since the last click a command ended without success

vars == <<state, requests, shown, message, failed>>

Unit == INSTANCE CollectorStateMachine

ASSUME ReportedAssumption == Reported \subseteq Unit!CollectorState

Command == {"start", "stop"}

\* A request knows which states the collector was in since it was sent
\* (history), and once it is served what its answer says.
Request ==
  [kind: Command \union {"refresh"}, since: SUBSET Reported,
   answer: Reported \union {"awaited", "refused"}]

Free == [kind |-> "none", since |-> {}, answer |-> "awaited"]

TypeOK ==
  /\ state \in Reported
  /\ requests \in [Slot -> Request \union {Free}]
  /\ shown \in Reported \union {"unknown"}
  /\ message \in {"none", "refused", "unreachable"}
  /\ failed \in BOOLEAN

Init ==
  /\ state \in Reported
  /\ requests = [slot \in Slot |-> Free]
  /\ shown = "unknown"
  /\ message = "none"
  /\ failed = FALSE

-----------------------------------------------------------------------------
(* The page.                                                               *)

Send(slot, kind) ==
  /\ requests[slot] = Free
  /\ requests' = [requests EXCEPT ![slot] =
                    [kind |-> kind, since |-> {state}, answer |-> "awaited"]]

\* Mutant: the page shows at once what was asked for.
ClickOptimistic(slot, kind) ==
  /\ Send(slot, kind)
  /\ message' = "none"
  /\ failed' = FALSE
  /\ shown' = IF kind = "start" THEN "running" ELSE "stopped"
  /\ UNCHANGED state

\* call(), up to the await.
Click(slot, kind) ==
  /\ Send(slot, kind)
  /\ message' = "none"
  /\ failed' = FALSE
  /\ UNCHANGED <<state, shown>>

\* Mutant: the state is fetched when the page is loaded, and not polled.
RefreshOnce(slot) ==
  /\ shown = "unknown"
  /\ Send(slot, "refresh")
  /\ UNCHANGED <<state, shown, message, failed>>

\* refresh(), up to the await: once at first, then by the timer.
Refresh(slot) ==
  /\ Send(slot, "refresh")
  /\ UNCHANGED <<state, shown, message, failed>>

Finish(slot) == requests' = [requests EXCEPT ![slot] = Free]

\* Mutant: success clears the message.
ShowClearing(slot) ==
  /\ requests[slot].answer \notin {"awaited", "refused"}
  /\ shown' = requests[slot].answer
  /\ message' = "none"
  /\ Finish(slot)
  /\ UNCHANGED <<state, failed>>

\* A good answer: show() in both call() and refresh().
Show(slot) ==
  /\ requests[slot].answer \notin {"awaited", "refused"}
  /\ shown' = requests[slot].answer
  /\ Finish(slot)
  /\ UNCHANGED <<state, message, failed>>

\* A command answered with an error: call() shows the error.
Refusal(slot) ==
  /\ requests[slot].answer = "refused"
  /\ message' = "refused"
  /\ failed' = TRUE
  /\ Finish(slot)
  /\ UNCHANGED <<state, shown>>

\* The catch blocks: the request, or its answer, is lost.
Unreachable(slot) ==
  /\ requests[slot] # Free
  /\ message' = "unreachable"
  /\ failed' = (failed \/ requests[slot].kind \in Command)
  /\ Finish(slot)
  /\ UNCHANGED <<state, shown>>

-----------------------------------------------------------------------------
(* The controller.                                                         *)

\* A request under way when the collector comes to be in state'.
Seen(request) ==
  IF request = Free THEN Free ELSE [request EXCEPT !.since = @ \union {state'}]

Observed == requests' = [slot \in Slot |-> Seen(requests[slot])]

Answer(slot, answer) ==
  requests' = [s \in Slot |-> IF s = slot
                              THEN [Seen(requests[s]) EXCEPT !.answer = answer]
                              ELSE Seen(requests[s])]

\* CollectorApi::handle: the state, which does not change.
ServeState(slot) ==
  /\ requests[slot].kind = "refresh"
  /\ requests[slot].answer = "awaited"
  /\ UNCHANGED state
  /\ Answer(slot, state)
  /\ UNCHANGED <<shown, message, failed>>

\* An accepted command leaves the unit on its way or, as the relay-backed unit
\* does, already there; the answer is the state observed after it.
ServeCommand(slot) ==
  /\ requests[slot].answer = "awaited"
  /\ \/ /\ requests[slot].kind = "start" /\ state = "stopped"
        /\ state' \in Reported \intersect {"starting", "running"}
     \/ /\ requests[slot].kind = "stop" /\ state = "running"
        /\ state' \in Reported \intersect {"stopping", "stopped"}
  /\ Answer(slot, state')
  /\ UNCHANGED <<shown, message, failed>>

\* Not permitted by the state or the mode, or not delivered (which may fault
\* the unit).
RefuseCommand(slot) ==
  /\ requests[slot].kind \in Command
  /\ requests[slot].answer = "awaited"
  /\ state' \in Reported \intersect {state, "faulted"}
  /\ Answer(slot, "refused")
  /\ UNCHANGED <<shown, message, failed>>

\* The unit moves without this page.
CollectorMoves ==
  /\ state' \in Reported \ {state}
  /\ Observed
  /\ UNCHANGED <<shown, message, failed>>

-----------------------------------------------------------------------------
Next ==
  \/ \E slot \in Slot :
       \/ \E kind \in Command : Click(slot, kind)
       \/ Refresh(slot)
       \/ Show(slot)
       \/ Refusal(slot)
       \/ Unreachable(slot)
       \/ ServeState(slot)
       \/ ServeCommand(slot)
       \/ RefuseCommand(slot)
  \/ CollectorMoves

Spec == Init /\ [][Next]_vars

Refreshing(A(_)) == \E slot \in Slot : requests[slot].kind = "refresh" /\ A(slot)

(***************************************************************************)
(* The timer of setInterval() keeps firing (strongly fair, because the     *)
(* model's slots may all be taken where the browser's are not), a request  *)
(* ends one way or another, and of the polls not every one is lost.        *)
(* Nothing is assumed of the clicks, of commands or of the collector.      *)
(***************************************************************************)
Fairness ==
  /\ SF_vars(\E slot \in Slot : Refresh(slot))
  /\ \A slot \in Slot : WF_vars(Show(slot) \/ Refusal(slot) \/ Unreachable(slot))
  /\ SF_vars(Refreshing(ServeState))
  /\ SF_vars(Refreshing(Show))

FairSpec == Spec /\ Fairness

-----------------------------------------------------------------------------
\* "Commands only request a change, so poll for the confirmed state"
\* (index.html, line 55): the page shows a state only when an answer says so,
\* and only one the collector was in between that request and its answer.
ConfirmedOnly ==
  [][ shown' # shown =>
        \E slot \in Slot : /\ requests[slot] # Free /\ requests'[slot] = Free
                           /\ shown' \in requests[slot].since ]_vars

\* The operator does not miss that a command failed: whatever polls and answers
\* come in, a message stays on the page until the next click.
FailureStaysVisible == failed => message # "none"

\* A late answer may overtake a newer one, but once the collector stays in a
\* state the page comes to show it and keeps showing it.
SettledStateShown ==
  \A s \in Reported : <>[](state = s) => <>[](shown = s)
=============================================================================
