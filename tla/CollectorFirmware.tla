-------------------------- MODULE CollectorFirmware --------------------------
(***************************************************************************)
(* The firmware as firmware/main/main.cpp wires it: one httpd task serves  *)
(* one request at a time (HttpServer, http_routes, CollectorApi), calls    *)
(* the Collector Service, whose command the Command Dispatcher hands to    *)
(* the relay-backed unit, on its way back rolls a failed change of mode    *)
(* back, and answers.  A reset may come between any two steps and an       *)
(* answer may be lost on its way to the client.                            *)
(*                                                                         *)
(* Nothing in this wiring calls update_demand(), process() or              *)
(* report_fault(), so demand is never active here.                         *)
(***************************************************************************)
EXTENDS RelayUnit

VARIABLES
  serving,   \* the HTTP server has been started and serves requests
  mode,      \* CollectorService::mode_
  task,      \* the control request being served, with the mode to roll back to
  reply,     \* what the client saw last: a status, "lost", or "waiting"
  asked,     \* history: since the reset a start or FORCED_ON was accepted
  done       \* history: the last operation of the service and its result

vars == <<step, output, level, relayState, unitState, starts, stops, answer,
          serving, mode, task, reply, asked, done>>

(***************************************************************************)
(* The service this firmware implements.  Seen from outside, an operation  *)
(* happens when its unit call returns: until then the unit is where it was *)
(* and the previous mode is in force.                                      *)
(***************************************************************************)
ServedUnitState ==
  CASE unitState = "starting" -> "stopped"
    [] unitState = "stopping" -> "running"
    [] OTHER                  -> unitState

ServedMode == IF task.request = "none" THEN mode ELSE task.previous

Service == INSTANCE CollectorService WITH
  ConfiguredDelay <- 0,
  mode            <- ServedMode,
  demandActive    <- FALSE,
  pendingAge      <- -1,
  unitState       <- ServedUnitState,
  outstanding     <- {},
  demandAge       <- 0,
  overridden      <- FALSE,
  last            <- done

Method == {"get", "post", "unsupported"}

\* The paths that http_routes and CollectorApi tell apart.
ModeOf == [auto |-> "automatic", forced_on |-> "forced_on", forced_off |-> "forced_off"]

ModePath == DOMAIN ModeOf

ControlPath == {"start", "stop"} \union ModePath

Path == ControlPath \union {"page", "collector", "other"}

Status == {"200", "202", "404", "405", "409"}

NoTask == [request |-> "none", previous |-> "automatic"]

Idle == [op |-> "environment", cmd |-> "none", ok |-> TRUE]

TypeOK ==
  /\ UnitTypeOK
  /\ serving \in BOOLEAN
  /\ mode \in Service!CollectorMode
  /\ task \in [request: ControlPath \union {"none"}, previous: Service!CollectorMode]
  /\ reply \in Status \union {"lost", "waiting"}
  /\ asked \in BOOLEAN
  /\ done \in [op: Service!Operation, cmd: {"none", "start", "stop"}, ok: BOOLEAN]

Init ==
  /\ UnitInit
  /\ serving = FALSE
  /\ mode = "automatic"
  /\ task = NoTask
  /\ reply = "lost"
  /\ asked = FALSE
  /\ done = Idle

-----------------------------------------------------------------------------
(* app_main: the constructors, then the server.                            *)

Boot ==
  /\ PresetLevel \/ ConfigureOutput \/ ConstructUnit
  /\ UNCHANGED <<serving, mode, task, reply, asked, done>>

\* The server may fail to start; then app_main returns and nothing serves.
StartServer ==
  /\ step = "idle"
  /\ ~serving
  /\ serving' = TRUE
  /\ UNCHANGED <<unitVars, mode, task, reply, asked, done>>

Reset ==
  /\ UnitReset
  /\ serving' = FALSE
  /\ mode' = "automatic"
  /\ task' = NoTask
  /\ reply' = "lost"
  /\ asked' = FALSE
  /\ done' = Idle

-----------------------------------------------------------------------------
(* The httpd task.                                                         *)

Ready == serving /\ step = "idle" /\ task = NoTask

Answer(status) == reply' \in {status, "lost"}

\* Everything that is answered without the service: the page, the state, and
\* what is not found or not allowed.
Serve(method, path) ==
  /\ Ready
  /\ ~(method = "post" /\ path \in ControlPath)
  /\ Answer(CASE method = "unsupported" -> "405"
              [] method # "unsupported" /\ path = "other" -> "404"
              [] method = "get" /\ path \in {"page", "collector"} -> "200"
              [] OTHER -> "405")
  /\ UNCHANGED <<unitVars, serving, mode, task, asked, done>>

\* The command a mode request brings about.
CommandForMode(path) ==
  Service!Reconcile(ModeOf[path], FALSE, Service!NotPending, FALSE)

\* Mutants: a start that does not ask for the mode; a mode that is refused
\* when it is in force already.
CommandForStartAlways(path) ==
  CASE path = "start"  -> IF unitState = "stopped" THEN "start" ELSE "refuse"
    [] path = "stop"   -> IF Service!StopPermitted(mode) THEN "stop" ELSE "refuse"
    [] path \in ModePath -> CommandForMode(path)

CommandForNewModeOnly(path) ==
  CASE path = "start"  -> IF Service!StartPermitted(mode) THEN "start" ELSE "refuse"
    [] path = "stop"   -> IF Service!StopPermitted(mode) THEN "stop" ELSE "refuse"
    [] path \in ModePath -> IF mode = ModeOf[path] THEN "refuse" ELSE CommandForMode(path)

\* The command a control request brings about, "none", or "refuse".
CommandFor(path) ==
  CASE path = "start"  -> IF Service!StartPermitted(mode) THEN "start" ELSE "refuse"
    [] path = "stop"   -> IF Service!StopPermitted(mode) THEN "stop" ELSE "refuse"
    [] path \in ModePath -> CommandForMode(path)

\* Mutant: a mode that needs no command is forgotten.
ModeSetWithCommand(path) ==
  IF path \in ModePath /\ CommandFor(path) # "none" THEN ModeOf[path] ELSE mode

ModeSet(path) == IF path \in ModePath THEN ModeOf[path] ELSE mode

OperationOf(path) ==
  CASE path = "start" -> "request_start"
    [] path = "stop"  -> "request_stop"
    [] OTHER          -> "request_mode"

TurnsOn(path) == path \in {"start", "forced_on"}

\* A control request that needs no command, or is refused.
ServeAtOnce(path) ==
  LET cmd == CommandFor(path)
  IN  /\ Ready
      /\ cmd \in {"none", "refuse"}
      /\ mode' = ModeSet(path)
      /\ asked' = (asked \/ (TurnsOn(path) /\ cmd = "none"))
      /\ done' = [op |-> OperationOf(path), cmd |-> "none", ok |-> cmd = "none"]
      /\ Answer(IF cmd = "none" THEN "202" ELSE "409")
      /\ UNCHANGED <<unitVars, serving, task>>

\* A control request whose command the dispatcher hands to the unit.
ServeByCommand(path) ==
  /\ Ready
  /\ \/ CommandFor(path) = "start" /\ BeginStart
     \/ CommandFor(path) = "stop" /\ BeginStop
  /\ mode' = ModeSet(path)
  /\ task' = [request |-> path, previous |-> mode]
  /\ reply' = "waiting"
  /\ UNCHANGED <<serving, asked, done>>

SwitchRelay ==
  /\ RelayOn \/ RelayOff
  /\ UNCHANGED <<serving, mode, task, reply, asked, done>>

\* The unit returns, and with it the dispatcher, the service and the API.
Return ==
  /\ ConfirmStart \/ ConfirmStop
  /\ mode' = IF answer' THEN mode ELSE task.previous
  /\ task' = NoTask
  /\ asked' = (asked \/ (TurnsOn(task.request) /\ answer'))
  /\ done' = [op  |-> OperationOf(task.request),
              cmd |-> IF step = "confirm_start" THEN "start" ELSE "stop",
              ok  |-> answer']
  /\ Answer(IF answer' THEN "202" ELSE "409")
  /\ UNCHANGED serving

-----------------------------------------------------------------------------
Next ==
  \/ Boot
  \/ StartServer
  \/ \E method \in Method, path \in Path : Serve(method, path)
  \/ \E path \in ControlPath : ServeAtOnce(path) \/ ServeByCommand(path)
  \/ SwitchRelay
  \/ Return
  \/ Reset

Spec == Init /\ [][Next]_vars

-----------------------------------------------------------------------------
\* Between requests the mode in force is obeyed by the pin itself: FORCED_ON
\* has the relay energised and FORCED_OFF has it off, whatever requests,
\* resets and lost answers came before.
ModeGovernsRelay ==
  (serving /\ task = NoTask) =>
    /\ mode = "forced_on" => Energised
    /\ mode = "forced_off" => ~Energised

\* After power loss the collector remains off: the relay is energised only if
\* since the last reset somebody asked for it, or is asking now
\* (docs/02-design-principles.md, "Safe Startup").
NoAutomaticRestart == Energised => asked \/ TurnsOn(task.request)

\* The request on path asks for what the last operation already brought about.
Repeats(path) ==
  /\ done.ok
  /\ done.op = OperationOf(path)
  /\ path \in ModePath => mode = ModeOf[path]

\* A client that lost the answer may repeat its request: the request that was
\* accepted last, served once more, does not reach the unit again, and a mode
\* is accepted again.  (A repeated start or stop is refused with 409.)
RepeatIsHarmless ==
  [][ \A path \in ControlPath :
        (ServeAtOnce(path) \/ ServeByCommand(path)) /\ Repeats(path)
          => UNCHANGED unitVars /\ (path \in ModePath => done'.ok) ]_vars

\* Seen from outside, the firmware is the Collector Service with atomic
\* operations: the steps inside a unit call, the roll back and the answer are
\* invisible, and a reset puts the service back into its initial state.
ImplementsService ==
  Service!Init /\ [][Service!Next \/ Service!Init']_Service!vars
=============================================================================
