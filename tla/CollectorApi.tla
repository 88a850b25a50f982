------------------------------ MODULE CollectorApi -----------------------------
(***************************************************************************)
(* The Collector API (firmware/components/collector_api) on top of the     *)
(* Collector Service: which request reaches which operation, which status  *)
(* answers it, and what the state document of the answer shows.            *)
(*                                                                         *)
(* A request is one action with the operation it calls.  Demand, process() *)
(* and the unit act between requests.  Several clients send requests; of   *)
(* the documents that they hold only that of one client is kept.  An       *)
(* answer goes to that client or to another, and may be lost.              *)
(*                                                                         *)
(* Of the document, state and mode are kept.  The demand fields, which the *)
(* page does not read, the device uid, which never changes, and the texts  *)
(* of the error documents are left out.                                    *)
(***************************************************************************)
EXTENDS CollectorService

VARIABLES
  status,    \* the answer's status, when the last step was a request
  document,  \* the state document that one client, any of them, received last
  granted    \* history: the mode that an answer accepted last

apiVars == <<status, document, granted>>

Method == {"get", "post"}

Path == {"collector", "start", "stop",
         "mode/auto", "mode/forced-on", "mode/forced-off", "other"}

NoRequest == 0
Ok == 200
Accepted == 202
Refused == 404   \* not found, or method not allowed (405)
Conflict == 409

RequestedMode ==
  [path \in {"mode/auto", "mode/forced-on", "mode/forced-off"} |->
     CASE path = "mode/auto"      -> "automatic"
       [] path = "mode/forced-on" -> "forced_on"
       [] OTHER                   -> "forced_off"]

ModeName == [automatic |-> "AUTO", forced_on |-> "FORCED_ON", forced_off |-> "FORCED_OFF"]

StateJson == [state |-> unitState, mode |-> ModeName[mode]]

ApiTypeOK ==
  /\ TypeOK
  /\ status \in {NoRequest, Ok, Accepted, Refused, Conflict}
  /\ document \in [state: Unit!CollectorState, mode: {"AUTO", "FORCED_ON", "FORCED_OFF"}]
  /\ granted \in CollectorMode

\* Before its first answer the client is taken to know the state after boot.
ApiInit ==
  /\ Init
  /\ status = NoRequest
  /\ document = StateJson
  /\ granted = mode

-----------------------------------------------------------------------------
\* An answer without an error carries the state after the operation.  When it
\* goes to another client, or its sending fails, the document stays the old one.
Answer(s) ==
  /\ status' = s
  /\ \/ s \in {Ok, Accepted} /\ document' = StateJson'
     \/ UNCHANGED document

\* Mutant: the accepting status whatever the operation returned.
OutcomeIgnored == Answer(Accepted)

Outcome == Answer(IF last'.ok THEN Accepted ELSE Conflict)

Allowed(method, path) == method = IF path = "collector" THEN "get" ELSE "post"

Refuse(method, path) ==
  /\ path = "other" \/ ~Allowed(method, path)
  /\ UNCHANGED <<vars, granted>>
  /\ Answer(Refused)

GetState ==
  /\ UNCHANGED <<vars, granted>>
  /\ Answer(Ok)

SetMode(path) ==
  /\ RequestMode(RequestedMode[path])
  /\ Outcome
  /\ granted' = IF status' = Accepted THEN RequestedMode[path] ELSE granted

Start == RequestStart /\ Outcome /\ UNCHANGED granted

Stop == RequestStop /\ Outcome /\ UNCHANGED granted

Handle(method, path) ==
  \/ Refuse(method, path)
  \/ /\ Allowed(method, path)
     /\ \/ path = "collector" /\ GetState
        \/ path \in DOMAIN RequestedMode /\ SetMode(path)
        \/ path = "start" /\ Start
        \/ path = "stop" /\ Stop

-----------------------------------------------------------------------------
\* What happens without a request: other callers of the service's interface,
\* the unit and time.
Elsewhere ==
  /\ \/ RequestUnknownMode
     \/ \E active \in BOOLEAN : UpdateDemand(active)
     \/ Process
     \/ ConfirmStarted
     \/ ConfirmStopped
     \/ UnitFault
     \/ UnitRecover
     \/ \E cmd \in {"start", "stop"} : TakeUp(cmd)
     \/ Tick
  /\ status' = NoRequest
  /\ UNCHANGED <<document, granted>>

ApiNext == (\E method \in Method, path \in Path : Handle(method, path)) \/ Elsewhere

ApiSpec == ApiInit /\ [][ApiNext]_<<vars, apiVars>>

\* The client asks for the state and receives the answer.
Poll == GetState /\ document' = StateJson'

\* The page asks for the state every two seconds (web/index.html, line 65), for
\* ever, and not every answer is lost; the rest is the fairness of the service.
ApiFairSpec == ApiSpec /\ Fairness /\ WF_<<vars, apiVars>>(Poll)

-----------------------------------------------------------------------------
\* The mode in force is always the one that was accepted last, AUTO at first:
\* a request answered with an error has not changed it, one that was accepted
\* has, and nothing else does: no manual request, demand, process(), fault,
\* command taken up late nor request for an unknown mode, in whatever order.
ModeIsTheGrantedOne == mode = granted

\* Accepted means under way: when a mode request is answered 202 and the unit is
\* still at rest in the state that the mode rules out, because it has not taken
\* up its command, then that command has been delivered and is outstanding.  For
\* AUTO with demand, to which the start delay does not apply, that is the start.
AcceptedIsUnderWay ==
  [][ (last'.op = "request_mode" /\ status' = Accepted)
        => /\ (mode' = "forced_off" /\ unitState' = "running") => "stop" \in outstanding'
           /\ (mode' = "forced_on" /\ unitState' = "stopped") => "start" \in outstanding'
           /\ (mode # "automatic" /\ mode' = "automatic" /\ demandActive
                /\ unitState' = "stopped") => "start" \in outstanding' ]_<<vars, apiVars>>

\* FORCED_OFF in force for ever: a client that polls comes to see, and sees from
\* then on, FORCED_OFF and a collector that is stopped or faulted.
PollingShowsOutcome ==
  <>[](mode = "forced_off")
    => <>[](document.mode = "FORCED_OFF" /\ document.state \in {"stopped", "faulted"})
=============================================================================
