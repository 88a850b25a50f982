----------------------- MODULE CollectorFirmwareProofs -----------------------
(***************************************************************************)
(* Proofs about the relay-backed unit and about the firmware wired around  *)
(* it, for both polarities of the relay and every width of the counters.   *)
(*                                                                         *)
(* UnitInv ties the unit's next statement to the state machine, the pin    *)
(* and the counters.  TaskInv says which request is behind a unit call,    *)
(* and RestInv what holds between requests.  With them the firmware        *)
(* implements the atomic Collector Service.                                *)
(***************************************************************************)
EXTENDS CollectorFirmware, TLAPS

\* Where the constructors are: the pin is an output only once its off level is
\* set.
BootPhase ==
  /\ step \in {"preset", "configure"} => ~output
  /\ step \in {"configure", "construct"} => level = LevelFor("off")
  /\ step = "construct" => output
  /\ step \in BootStep => unitState = "stopped" /\ starts = stops

\* Where a call is: the state machine is between request and confirmation, and
\* the level is the one last switched to.
CallPhase ==
  /\ step \in {"relay_on", "confirm_start"} => unitState = "starting"
  /\ step \in {"relay_off", "confirm_stop"} => unitState = "stopping"
  /\ step = "idle" => unitState \in {"stopped", "running"}

PinPhase ==
  step \in CallStep \union {"idle"} =>
    /\ output
    /\ relayState \in {"on", "off"} /\ level = LevelFor(relayState)
    /\ relayState = "on" <=> \/ step \in {"confirm_start", "relay_off"}
                             \/ step = "idle" /\ unitState = "running"

\* The unit counts a start when it is confirmed, and a stop likewise.
CountPhase ==
  IF step \in {"relay_off", "confirm_stop"} \/ (step = "idle" /\ unitState = "running")
  THEN starts = Increment(stops)
  ELSE starts = stops

UnitInv == UnitTypeOK /\ BootPhase /\ CallPhase /\ PinPhase /\ CountPhase

-----------------------------------------------------------------------------
\* A counter stays within its width, and wraps to zero.
LEMMA IncrementType ==
  ASSUME NEW n \in 0 .. CounterModulus - 1
  PROVE  /\ Increment(n) \in 0 .. CounterModulus - 1
         /\ Increment(n) = IF n = CounterModulus - 1 THEN 0 ELSE n + 1
BY RelayAssumption DEF Increment

\* One start ahead of the stops shows as a difference of one, also modulo the
\* width.
LEMMA Difference ==
  ASSUME NEW n \in 0 .. CounterModulus - 1
  PROVE  /\ (n - n) % CounterModulus = 0
         /\ (Increment(n) - n) % CounterModulus = 1
<1>1. CASE n = CounterModulus - 1
  <2>1. Increment(n) - n = 1 - CounterModulus
    BY <1>1, IncrementType, RelayAssumption
  <2>2. (1 - CounterModulus) % CounterModulus = 1
    BY RelayAssumption
  <2> QED
    BY <2>1, <2>2, RelayAssumption
<1>2. CASE n # CounterModulus - 1
  BY <1>2, IncrementType, RelayAssumption
<1> QED
  BY <1>1, <1>2

\* The two levels of the pin, and which of them drives the coil.
LEMMA Levels ==
  /\ LevelFor("on") \in {0, 1} /\ LevelFor("off") \in {0, 1}
  /\ LevelFor("on") = IF ActiveLow THEN 0 ELSE 1
  /\ LevelFor("off") # LevelFor("on")
BY RelayAssumption DEF LevelFor

-----------------------------------------------------------------------------
\* A reset starts the constructors over.
LEMMA InitUnitInv == UnitInit => UnitInv
<1> SUFFICES ASSUME UnitInit PROVE UnitInv
  OBVIOUS
<1>1. 0 \in 0 .. CounterModulus - 1
  BY RelayAssumption
<1>2. UnitTypeOK
  BY <1>1 DEF UnitInit, UnitTypeOK, Machine!Init, Machine!CollectorState, BootStep
<1>3. BootPhase /\ CallPhase /\ PinPhase /\ CountPhase
  BY DEF UnitInit, BootPhase, CallPhase, PinPhase, CountPhase, Machine!Init, CallStep
<1> QED
  BY <1>2, <1>3 DEF UnitInv

\* Every statement of the driver and of the unit, and a reset between any two,
\* preserves the invariant.
LEMMA NextUnitInv == UnitInv /\ [UnitNext]_unitVars => UnitInv'
<1> SUFFICES ASSUME UnitInv, [UnitNext]_unitVars PROVE UnitInv'
  OBVIOUS
<1> USE Levels
        DEF UnitInv, UnitTypeOK, BootPhase, CallPhase, PinPhase, CountPhase,
            Machine!CollectorState, BootStep, CallStep, SetRelay
<1>1. CASE PresetLevel
  BY <1>1 DEF PresetLevel
<1>2. CASE ConfigureOutput
  BY <1>2 DEF ConfigureOutput
<1>3. CASE ConstructUnit
  BY <1>3 DEF ConstructUnit
<1>4. CASE BeginStart
  BY <1>4 DEF BeginStart, Refuse, Machine!RequestStart, Machine!Transition
<1>5. CASE RelayOn
  BY <1>5 DEF RelayOn
<1>6. CASE ConfirmStart
  <2>1. starts' = Increment(starts) /\ starts' \in 0 .. CounterModulus - 1
    BY <1>6, IncrementType DEF ConfirmStart
  <2> QED
    BY <1>6, <2>1 DEF ConfirmStart, Machine!ConfirmStarted, Machine!Transition
<1>7. CASE BeginStop
  BY <1>7 DEF BeginStop, Refuse, Machine!RequestStop, Machine!Transition
<1>8. CASE RelayOff
  BY <1>8 DEF RelayOff
<1>9. CASE ConfirmStop
  <2>1. stops' = Increment(stops) /\ stops' \in 0 .. CounterModulus - 1
    BY <1>9, IncrementType DEF ConfirmStop
  <2> QED
    BY <1>9, <2>1 DEF ConfirmStop, Machine!ConfirmStopped, Machine!Transition
<1>10. CASE UnitReset
  <2>1. 0 \in 0 .. CounterModulus - 1
    BY RelayAssumption
  <2>2. UnitTypeOK'
    BY <1>10, <2>1 DEF UnitReset
  <2>3. BootPhase' /\ CallPhase' /\ PinPhase' /\ CountPhase'
    BY <1>10 DEF UnitReset
  <2> QED
    BY <2>2, <2>3
<1>11. CASE UNCHANGED unitVars
  BY <1>11 DEF unitVars
<1> QED
  BY <1>1, <1>2, <1>3, <1>4, <1>5, <1>6, <1>7, <1>8, <1>9, <1>10, <1>11
  DEF UnitNext

\* The phases hold in every reachable state.
THEOREM UnitInvariance == UnitSpec => []UnitInv
BY InitUnitInv, NextUnitInv, PTL DEF UnitSpec

\* The relay is energised only inside or after an accepted start, for either
\* polarity: never during construction, never after a reset.
THEOREM NeverBrieflyEnergised == UnitSpec => []EnergisedOnlyWhenCommanded
<1>1. UnitInv => EnergisedOnlyWhenCommanded
  BY Levels
  DEF UnitInv, UnitTypeOK, BootPhase, CallPhase, PinPhase, BootStep, CallStep,
      Energised, EnergisedOnlyWhenCommanded
<1> QED
  BY <1>1, UnitInvariance, PTL

\* Between two calls the state the unit reports is the state of the pin.
THEOREM ReportedIsOutput == UnitSpec => []ReportedStateIsOutput
<1>1. UnitInv => ReportedStateIsOutput
  BY Levels
  DEF UnitInv, UnitTypeOK, CallPhase, PinPhase, Energised, ReportedStateIsOutput
<1> QED
  BY <1>1, UnitInvariance, PTL

\* The counters stay balanced however often they wrap around.
THEOREM CountersStayBalanced == UnitSpec => []CountersBalance
<1>1. UnitInv => CountersBalance
  BY Difference DEF UnitInv, UnitTypeOK, CountPhase, CountersBalance
<1> QED
  BY <1>1, UnitInvariance, PTL

\* Statement, pin, state machine and counters keep their types.
THEOREM UnitTypeCorrect == UnitSpec => []UnitTypeOK
<1>1. UnitInv => UnitTypeOK
  BY DEF UnitInv
<1> QED
  BY <1>1, UnitInvariance, PTL

-----------------------------------------------------------------------------
(* The firmware.                                                           *)

OnStep == {"relay_on", "confirm_start"}

OffStep == {"relay_off", "confirm_stop"}

\* A unit call is made for one control request, in the mode it sets.
TaskInv ==
  /\ step \notin CallStep => task = NoTask
  /\ step \in OnStep =>
       \/ task.request = "start" /\ mode = task.previous /\ mode # "forced_off"
       \/ task.request = "forced_on" /\ mode = "forced_on"
  /\ step \in OffStep =>
       \/ task.request = "stop" /\ mode = task.previous /\ mode # "forced_on"
       \/ task.request \in {"auto", "forced_off"} /\ mode = ModeOf[task.request]

\* Nothing is served and no mode is set during the boot; between requests the
\* unit is where an override wants it, and it runs only if somebody asked.
RestInv ==
  /\ step \in BootStep => mode = "automatic" /\ ~serving
  /\ step = "idle" /\ mode = "forced_on" => unitState = "running"
  /\ step = "idle" /\ mode = "forced_off" => unitState = "stopped"
  /\ unitState \in {"running", "stopping"} => asked

FirmwareInv == UnitInv /\ TypeOK /\ TaskInv /\ RestInv

-----------------------------------------------------------------------------
\* The modes and operations of the service.
LEMMA Modes ==
  /\ ModePath = {"auto", "forced_on", "forced_off"}
  /\ ModeOf["auto"] = "automatic"
  /\ ModeOf["forced_on"] = "forced_on"
  /\ ModeOf["forced_off"] = "forced_off"
  /\ Service!CollectorMode = {"automatic", "forced_on", "forced_off"}
BY DEF ModePath, ModeOf, Service!CollectorMode

\* A mode request brings about a start for FORCED_ON only, and otherwise a stop.
LEMMA ModeCommand ==
  ASSUME NEW path \in ModePath
  PROVE  CommandForMode(path) =
           IF path = "forced_on"
           THEN IF ServedUnitState = "stopped" THEN "start" ELSE "none"
           ELSE IF ServedUnitState = "running" THEN "stop" ELSE "none"
BY Modes DEF CommandForMode, Service!Reconcile, Service!Wanted

\* The same for every control request.
LEMMA CommandOf ==
  /\ CommandFor("start") =
       IF mode # "forced_off" /\ ServedUnitState = "stopped" THEN "start" ELSE "refuse"
  /\ CommandFor("stop") =
       IF mode # "forced_on" /\ ServedUnitState = "running" THEN "stop" ELSE "refuse"
  /\ \A path \in ModePath : CommandFor(path) = CommandForMode(path)
BY Modes DEF CommandFor, Service!StartPermitted, Service!StopPermitted

\* Which commands the control requests bring about when the unit is at rest.
LEMMA CommandCases ==
  ASSUME NEW path \in ControlPath, unitState \in {"stopped", "running"}
  PROVE  /\ CommandFor(path) = "start" =>
              /\ unitState = "stopped"
              /\ (path = "start" /\ mode # "forced_off") \/ path = "forced_on"
         /\ CommandFor(path) = "stop" =>
              /\ unitState = "running"
              /\ (path = "stop" /\ mode # "forced_on") \/ path \in {"auto", "forced_off"}
         /\ CommandFor(path) = "none" =>
              /\ path \in ModePath
              /\ unitState = IF path = "forced_on" THEN "running" ELSE "stopped"
<1>1. ServedUnitState = unitState
  BY DEF ServedUnitState
<1>2. CASE path = "start"
  BY <1>1, <1>2, CommandOf
<1>3. CASE path = "stop"
  BY <1>1, <1>3, CommandOf
<1>4. CASE path \in ModePath
  BY <1>1, <1>4, CommandOf, ModeCommand, Modes
<1> QED
  BY <1>2, <1>3, <1>4 DEF ControlPath

-----------------------------------------------------------------------------
\* The firmware starts in its invariant.
LEMMA InitFirmware == Init => FirmwareInv
<1> SUFFICES ASSUME Init PROVE FirmwareInv
  OBVIOUS
<1>1. UnitInv
  BY InitUnitInv DEF Init
<1>2. TypeOK
  BY <1>1, Modes DEF Init, UnitInv, TypeOK, NoTask, Idle, Service!Operation
<1>3. TaskInv /\ RestInv
  BY DEF Init, UnitInit, TaskInv, RestInv, CallStep, OnStep, OffStep, BootStep, Machine!Init
<1> QED
  BY <1>1, <1>2, <1>3 DEF FirmwareInv

\* The firmware moves the unit by the unit's own steps.
LEMMA UnitSteps == [Next]_vars => [UnitNext]_unitVars
BY DEF Next, vars, unitVars, UnitNext, Boot, StartServer, Serve, ServeAtOnce,
       ServeByCommand, SwitchRelay, Return, Reset

\* Between two requests the unit is at rest.
LEMMA AtRest ==
  ASSUME FirmwareInv, step = "idle"
  PROVE  unitState \in {"stopped", "running"} /\ task = NoTask
BY DEF FirmwareInv, UnitInv, CallPhase, TaskInv, CallStep

\* A request that begins a unit call.
LEMMA ServeByCommandStarts ==
  ASSUME FirmwareInv, NEW path \in ControlPath, ServeByCommand(path)
  PROVE  /\ step = "idle" /\ task = NoTask
         /\ \/ /\ unitState = "stopped" /\ unitState' = "starting" /\ step' = "relay_on"
               /\ (path = "start" /\ mode # "forced_off") \/ path = "forced_on"
            \/ /\ unitState = "running" /\ unitState' = "stopping" /\ step' = "relay_off"
               /\ (path = "stop" /\ mode # "forced_on") \/ path \in {"auto", "forced_off"}
<1>1. step = "idle" /\ task = NoTask /\ unitState \in {"stopped", "running"}
  BY AtRest DEF ServeByCommand, Ready
<1>2. CASE CommandFor(path) = "start" /\ BeginStart
  BY <1>1, <1>2, CommandCases DEF BeginStart, Machine!RequestStart, Machine!Transition
<1>3. CASE CommandFor(path) = "stop" /\ BeginStop
  BY <1>1, <1>3, CommandCases DEF BeginStop, Machine!RequestStop, Machine!Transition
<1> QED
  BY <1>1, <1>2, <1>3 DEF ServeByCommand

\* A unit call that returns has succeeded: only it moves the unit meanwhile.
LEMMA ReturnSucceeds ==
  ASSUME FirmwareInv, Return
  PROVE  /\ answer' = TRUE /\ step' = "idle" /\ mode' = mode /\ task' = NoTask
         /\ \/ step = "confirm_start" /\ unitState = "starting" /\ unitState' = "running"
            \/ step = "confirm_stop" /\ unitState = "stopping" /\ unitState' = "stopped"
BY DEF FirmwareInv, UnitInv, CallPhase, Return, ConfirmStart, ConfirmStop,
       Machine!ConfirmStarted, Machine!ConfirmStopped, Machine!Transition

\* What a request leaves behind that brings about no command.
LEMMA ServeAtOnceKeeps ==
  ASSUME FirmwareInv, NEW path \in ControlPath, ServeAtOnce(path)
  PROVE  /\ step = "idle" /\ task = NoTask /\ UNCHANGED <<unitVars, serving, task>>
         /\ mode' = ModeSet(path)
         /\ path \in ModePath \/ done'.ok = FALSE
         /\ \/ CommandFor(path) = "none" /\ path \in ModePath
            \/ CommandFor(path) = "refuse" /\ path \notin ModePath
<1>1. step = "idle" /\ task = NoTask /\ unitState \in {"stopped", "running"}
  BY AtRest DEF ServeAtOnce, Ready
<1>2. CASE path \in ModePath
  BY <1>1, <1>2, CommandOf, ModeCommand DEF ServeAtOnce
<1>3. CASE path \notin ModePath
  BY <1>1, <1>3, CommandOf, CommandCases DEF ServeAtOnce, ControlPath
<1> QED
  BY <1>2, <1>3

\* The types of what a request sets.
LEMMA RequestTypes ==
  ASSUME TypeOK, NEW path \in ControlPath
  PROVE  /\ ModeSet(path) \in Service!CollectorMode
         /\ OperationOf(path) \in Service!Operation
         /\ [request |-> path, previous |-> mode]
              \in [request: ControlPath \union {"none"}, previous: Service!CollectorMode]
BY Modes DEF TypeOK, ModeSet, OperationOf, Service!Operation

-----------------------------------------------------------------------------
\* Every step of the boot, of the httpd task and of the unit, and a reset,
\* keeps the types.
LEMMA NextTypes == FirmwareInv /\ [Next]_vars => TypeOK'
<1> SUFFICES ASSUME FirmwareInv, [Next]_vars PROVE TypeOK'
  OBVIOUS
<1>1. TypeOK
  BY DEF FirmwareInv
<1>2. UnitTypeOK'
  BY UnitSteps, NextUnitInv DEF FirmwareInv, UnitInv
<1>3. CASE Boot \/ StartServer \/ SwitchRelay \/ UNCHANGED vars
  BY <1>1, <1>2, <1>3 DEF TypeOK, Boot, StartServer, SwitchRelay, vars
<1>4. CASE \E method \in Method, path \in Path : Serve(method, path)
  BY <1>1, <1>2, <1>4 DEF TypeOK, Serve, Answer, Status
<1>5. ASSUME NEW path \in ControlPath, ServeAtOnce(path) PROVE TypeOK'
  <2>1. done' \in [op: Service!Operation, cmd: {"none", "start", "stop"}, ok: BOOLEAN]
    BY <1>1, <1>5, RequestTypes DEF ServeAtOnce
  <2>2. asked' \in BOOLEAN /\ reply' \in Status \union {"lost", "waiting"}
    BY <1>5 DEF ServeAtOnce, Answer, Status
  <2> QED
    BY <1>1, <1>2, <1>5, <2>1, <2>2, RequestTypes DEF TypeOK, ServeAtOnce
<1>6. ASSUME NEW path \in ControlPath, ServeByCommand(path) PROVE TypeOK'
  BY <1>1, <1>2, <1>6, RequestTypes DEF TypeOK, ServeByCommand
<1>7. CASE Return
  <2>1. task.request \in ControlPath
    BY <1>7 DEF FirmwareInv, TaskInv, Return, ConfirmStart, ConfirmStop, OnStep, OffStep,
                ControlPath, ModePath, ModeOf
  <2>2. done' \in [op: Service!Operation, cmd: {"none", "start", "stop"}, ok: BOOLEAN]
    BY <1>1, <1>7, <2>1, RequestTypes, ReturnSucceeds DEF Return
  <2>3. asked' \in BOOLEAN /\ reply' \in Status \union {"lost", "waiting"}
    BY <1>7 DEF Return, Answer, Status
  <2>4. mode' = mode /\ task' = NoTask
    BY <1>7, ReturnSucceeds
  <2> QED
    BY <1>1, <1>2, <1>7, <2>2, <2>3, <2>4, Modes DEF TypeOK, Return, NoTask
<1>8. CASE Reset
  BY <1>2, <1>8, Modes DEF TypeOK, Reset, NoTask, Idle, Service!Operation
<1> QED
  BY <1>3, <1>4, <1>5, <1>6, <1>7, <1>8 DEF Next

\* A step keeps the request that is behind a unit call.
LEMMA NextTask == FirmwareInv /\ [Next]_vars => TaskInv'
<1> SUFFICES ASSUME FirmwareInv, [Next]_vars PROVE TaskInv'
  OBVIOUS
<1>1. TaskInv
  BY DEF FirmwareInv
<1> USE DEF CallStep, OnStep, OffStep
<1>2. CASE Boot
  BY <1>1, <1>2 DEF TaskInv, Boot, PresetLevel, ConfigureOutput, ConstructUnit
<1>3. CASE StartServer \/ UNCHANGED vars
  BY <1>1, <1>3 DEF TaskInv, StartServer, vars, unitVars
<1>4. CASE \E method \in Method, path \in Path : Serve(method, path)
  BY <1>1, <1>4 DEF TaskInv, Serve, unitVars
<1>5. ASSUME NEW path \in ControlPath, ServeAtOnce(path) PROVE TaskInv'
  BY <1>1, <1>5, ServeAtOnceKeeps DEF TaskInv, unitVars
<1>6. ASSUME NEW path \in ControlPath, ServeByCommand(path) PROVE TaskInv'
  <2>1. mode' = ModeSet(path) /\ task'.request = path /\ task'.previous = mode
    BY <1>6 DEF ServeByCommand
  <2> QED
    BY <2>1, <1>6, ServeByCommandStarts, Modes DEF TaskInv, ModeSet
<1>7. CASE SwitchRelay
  BY <1>1, <1>7 DEF TaskInv, SwitchRelay, RelayOn, RelayOff
<1>8. CASE Return
  BY <1>8, ReturnSucceeds DEF TaskInv
<1>9. CASE Reset
  BY <1>9 DEF TaskInv, Reset, UnitReset
<1> QED
  BY <1>2, <1>3, <1>4, <1>5, <1>6, <1>7, <1>8, <1>9 DEF Next

\* A step keeps what holds during the boot and between two requests.
LEMMA NextRest == FirmwareInv /\ [Next]_vars => RestInv'
<1> SUFFICES ASSUME FirmwareInv, [Next]_vars PROVE RestInv'
  OBVIOUS
<1>1. RestInv
  BY DEF FirmwareInv
<1> USE DEF BootStep
<1>2. CASE Boot
  BY <1>1, <1>2
  DEF FirmwareInv, UnitInv, BootPhase, RestInv, Boot, PresetLevel, ConfigureOutput, ConstructUnit
<1>3. CASE StartServer \/ UNCHANGED vars
  BY <1>1, <1>3 DEF RestInv, StartServer, vars, unitVars
<1>4. CASE \E method \in Method, path \in Path : Serve(method, path)
  BY <1>1, <1>4 DEF RestInv, Serve, unitVars
<1>5. ASSUME NEW path \in ControlPath, ServeAtOnce(path) PROVE RestInv'
  <2>1. step = "idle" /\ UNCHANGED <<step, unitState, serving>> /\ mode' = ModeSet(path)
    BY <1>5, ServeAtOnceKeeps DEF unitVars
  <2>2. asked => asked'
    BY <1>5 DEF ServeAtOnce
  <2>3. CASE path \notin ModePath
    BY <1>1, <2>1, <2>2, <2>3 DEF RestInv, ModeSet
  <2>4. CASE path \in ModePath
    <3>1. unitState = IF path = "forced_on" THEN "running" ELSE "stopped"
      BY <1>5, <2>4, AtRest, CommandCases, ServeAtOnceKeeps
    <3> QED
      BY <1>1, <2>1, <2>2, <2>4, <3>1, Modes DEF RestInv, ModeSet
  <2> QED
    BY <2>3, <2>4
<1>6. ASSUME NEW path \in ControlPath, ServeByCommand(path) PROVE RestInv'
  BY <1>1, <1>6, ServeByCommandStarts DEF RestInv, ServeByCommand
<1>7. CASE SwitchRelay
  BY <1>1, <1>7 DEF RestInv, SwitchRelay, RelayOn, RelayOff
<1>8. CASE Return
  <2>1. answer' = TRUE /\ step' = "idle" /\ mode' = mode
    BY <1>8, ReturnSucceeds
  <2>2. asked' = (asked \/ TurnsOn(task.request))
    BY <1>8, <2>1 DEF Return
  <2>3. CASE step = "confirm_start"
    <3>1. unitState' = "running" /\ TurnsOn(task.request) /\ mode # "forced_off"
      BY <1>8, <2>3, ReturnSucceeds DEF FirmwareInv, TaskInv, OnStep, TurnsOn
    <3> QED
      BY <2>1, <2>2, <3>1 DEF RestInv
  <2>4. CASE step = "confirm_stop"
    <3>1. unitState' = "stopped" /\ mode # "forced_on"
      BY <1>8, <2>4, ReturnSucceeds, Modes DEF FirmwareInv, TaskInv, OffStep
    <3> QED
      BY <2>1, <3>1 DEF RestInv
  <2> QED
    BY <1>8, <2>3, <2>4, ReturnSucceeds
<1>9. CASE Reset
  BY <1>9 DEF RestInv, Reset, UnitReset
<1> QED
  BY <1>2, <1>3, <1>4, <1>5, <1>6, <1>7, <1>8, <1>9 DEF Next

\* The phases of a unit call, the request behind it and what holds between
\* requests are kept together in every reachable state.
THEOREM FirmwareInvariance == Spec => []FirmwareInv
<1>1. FirmwareInv /\ [Next]_vars => FirmwareInv'
  BY UnitSteps, NextUnitInv, NextTypes, NextTask, NextRest DEF FirmwareInv
<1> QED
  BY <1>1, InitFirmware, PTL DEF Spec

\* Every variable of the firmware keeps its type.
THEOREM FirmwareTypeCorrect == Spec => []TypeOK
<1>1. FirmwareInv => TypeOK
  BY DEF FirmwareInv
<1> QED
  BY <1>1, FirmwareInvariance, PTL

\* Between requests an override mode is obeyed by the pin, for either polarity
\* of the relay.
THEOREM OverrideGovernsRelay == Spec => []ModeGovernsRelay
<1>1. FirmwareInv => ModeGovernsRelay
  <2> SUFFICES ASSUME FirmwareInv, serving, task = NoTask PROVE ModeGovernsRelay
    BY DEF ModeGovernsRelay
  <2>1. step = "idle"
    BY DEF FirmwareInv, TypeOK, UnitTypeOK, TaskInv, RestInv, NoTask, CallStep, OnStep, OffStep
  <2>2. Energised <=> unitState = "running"
    BY <2>1, Levels DEF FirmwareInv, UnitInv, PinPhase, Energised
  <2> QED
    BY <2>1, <2>2 DEF FirmwareInv, RestInv, ModeGovernsRelay
<1> QED
  BY <1>1, FirmwareInvariance, PTL

\* After a reset the relay stays off until somebody asks for the collector.
THEOREM RemainsOffAfterReset == Spec => []NoAutomaticRestart
<1>1. FirmwareInv => NoAutomaticRestart
  <2> SUFFICES ASSUME FirmwareInv, Energised PROVE NoAutomaticRestart
    BY DEF NoAutomaticRestart
  <2>1. step \in {"confirm_start", "relay_off"} \/ (step = "idle" /\ unitState = "running")
    BY Levels
    DEF FirmwareInv, UnitInv, UnitTypeOK, BootPhase, PinPhase, Energised, BootStep, CallStep
  <2>2. CASE step = "confirm_start"
    BY <2>2 DEF FirmwareInv, TaskInv, OnStep, TurnsOn, NoAutomaticRestart
  <2>3. CASE step = "relay_off"
    BY <2>3 DEF FirmwareInv, UnitInv, CallPhase, RestInv, NoAutomaticRestart
  <2>4. CASE step = "idle" /\ unitState = "running"
    BY <2>4 DEF FirmwareInv, RestInv, NoAutomaticRestart
  <2> QED
    BY <2>1, <2>2, <2>3, <2>4
<1> QED
  BY <1>1, FirmwareInvariance, PTL

-----------------------------------------------------------------------------
(* The firmware implements the atomic service.                             *)

\* The relay-backed unit carries a command out before it returns.
DoneAtOnce(unit) == [ok |-> TRUE, unit |-> unit, outstanding |-> {}]

\* The outcomes of a command that the relay-backed unit brings about.
LEMMA ServiceDeliveries ==
  /\ DoneAtOnce("running") \in Service!Deliveries("start")
  /\ DoneAtOnce("stopped") \in Service!Deliveries("stop")
  /\ DoneAtOnce(ServedUnitState) \in Service!Deliveries("none")
BY DEF Service!Deliveries, Service!Outcomes, DoneAtOnce

\* An accepted mode request of the service, whose pending start never exists.
LEMMA ServiceMode ==
  ASSUME NEW path \in ModePath, NEW unit,
         DoneAtOnce(unit) \in Service!Deliveries(CommandForMode(path)),
         ServedUnitState' = unit,
         ServedMode' = ModeOf[path],
         done' = [op |-> "request_mode", cmd |-> CommandForMode(path), ok |-> TRUE]
  PROVE  Service!RequestMode(ModeOf[path])
<1> DEFINE m == ModeOf[path]
           cmd == Service!Reconcile(m, FALSE, Service!NotPending, FALSE)
           r == DoneAtOnce(unit)
<1>1. Service!PendingOnChange(m) = Service!NotPending
  BY DEF Service!PendingOnChange, Service!NotPending
<1>2. \A changed :
        Service!Rollback(changed, TRUE,
          Service!PendingAfter(m, FALSE, Service!NotPending, FALSE, TRUE)) = Service!NotPending
  BY DEF Service!Rollback, Service!PendingAfter
<1>3. cmd = CommandForMode(path)
  BY DEF CommandForMode
<1>4. Service!Observe("request_mode", cmd, TRUE)
  BY <1>3 DEF Service!Observe
<1>5. r \in Service!Deliveries(cmd) /\ r.ok = TRUE /\ Service!Delivered(r)
  BY <1>3 DEF Service!Delivered, DoneAtOnce
<1>6. ServedMode' = Service!ModeAfter(m, TRUE)
  BY DEF Service!ModeAfter
<1>7. -1 = Service!NotPending
  BY DEF Service!NotPending
<1> HIDE DEF m, cmd, r
<1> QED
  BY <1>1, <1>2, <1>4, <1>5, <1>6, <1>7 DEF Service!RequestMode, m, cmd

\* What the service shows of the unit and of the mode while a call is made.
LEMMA ServedDuringCall ==
  ASSUME FirmwareInv
  PROVE  /\ step = "idle" => ServedMode = mode /\ ServedUnitState = unitState
         /\ step \in OnStep \union OffStep => ServedMode = task.previous
         /\ step \in OnStep => ServedUnitState = "stopped"
         /\ step \in OffStep => ServedUnitState = "running"
<1>1. step = "idle" => ServedMode = mode /\ ServedUnitState = unitState
  BY AtRest DEF ServedMode, ServedUnitState, NoTask
<1>2. step \in OnStep \union OffStep => task.request # "none"
  BY DEF FirmwareInv, TaskInv, OnStep, OffStep
<1>3. step \in OnStep => unitState = "starting"
  BY DEF FirmwareInv, UnitInv, CallPhase, OnStep
<1>4. step \in OffStep => unitState = "stopping"
  BY DEF FirmwareInv, UnitInv, CallPhase, OffStep
<1> QED
  BY <1>1, <1>2, <1>3, <1>4 DEF ServedMode, ServedUnitState

\* A request served at once is refused by the service, or sets a mode that
\* needs no command.
LEMMA AtOnceRefines ==
  ASSUME FirmwareInv, NEW path \in ControlPath, ServeAtOnce(path)
  PROVE  Service!Next
<1>1. /\ step = "idle" /\ task = NoTask
      /\ UNCHANGED <<step, unitState, task>>
      /\ mode' = ModeSet(path)
  BY ServeAtOnceKeeps DEF unitVars
<1>2. /\ ServedMode = mode /\ ServedUnitState = unitState
      /\ ServedMode' = mode' /\ ServedUnitState' = ServedUnitState
  BY <1>1, ServedDuringCall DEF ServedMode, ServedUnitState, NoTask
<1>3. CASE path = "start"
  <2>1. CommandFor(path) = "refuse" /\ mode' = mode
    BY <1>1, <1>3, ServeAtOnceKeeps, Modes DEF ModeSet
  <2>2. ~Service!StartPermitted(ServedMode)
    BY <1>2, <1>3, <2>1, CommandOf DEF Service!StartPermitted
  <2>3. done' = [op |-> "request_start", cmd |-> "none", ok |-> FALSE]
    BY <1>3, <2>1 DEF ServeAtOnce, OperationOf
  <2>4. Service!RequestStart
    BY <1>2, <2>1, <2>2, <2>3
    DEF Service!RequestStart, Service!Request, Service!Observe, Service!serviceVars, Service!unitVars
  <2> QED
    BY <2>4 DEF Service!Next
<1>4. CASE path = "stop"
  <2>1. CommandFor(path) = "refuse" /\ mode' = mode
    BY <1>1, <1>4, ServeAtOnceKeeps, Modes DEF ModeSet
  <2>2. ~Service!StopPermitted(ServedMode)
    BY <1>2, <1>4, <2>1, CommandOf DEF Service!StopPermitted
  <2>3. done' = [op |-> "request_stop", cmd |-> "none", ok |-> FALSE]
    BY <1>4, <2>1 DEF ServeAtOnce, OperationOf
  <2>4. Service!RequestStop
    BY <1>2, <2>1, <2>2, <2>3
    DEF Service!RequestStop, Service!Request, Service!Observe, Service!serviceVars, Service!unitVars
  <2> QED
    BY <2>4 DEF Service!Next
<1>5. CASE path \in ModePath
  <2>1. CommandFor(path) = "none" /\ CommandForMode(path) = "none" /\ mode' = ModeOf[path]
    BY <1>1, <1>5, ServeAtOnceKeeps, CommandOf DEF ModeSet
  <2>2. done' = [op |-> "request_mode", cmd |-> "none", ok |-> TRUE]
    BY <1>5, <2>1, Modes DEF ServeAtOnce, OperationOf
  <2>3. Service!RequestMode(ModeOf[path])
    BY <1>2, <1>5, <2>1, <2>2, ServiceMode, ServiceDeliveries
  <2> QED
    BY <1>5, <2>3, Modes DEF Service!Next
<1> QED
  BY <1>3, <1>4, <1>5 DEF ControlPath

\* A unit call that returns is the operation of the service that began it.
LEMMA ReturnRefines ==
  ASSUME FirmwareInv, Return
  PROVE  Service!Next
<1>1. /\ answer' = TRUE /\ step' = "idle" /\ mode' = mode /\ task' = NoTask
      /\ \/ step = "confirm_start" /\ unitState' = "running"
         \/ step = "confirm_stop" /\ unitState' = "stopped"
  BY ReturnSucceeds
<1>2. ServedMode = task.previous /\ ServedMode' = mode /\ ServedUnitState' = unitState'
  BY <1>1, ServedDuringCall DEF ServedMode, ServedUnitState, NoTask, OnStep, OffStep
<1>3. ASSUME step = "confirm_start" PROVE Service!Next
  <2>1. ServedUnitState = "stopped" /\ ServedUnitState' = "running"
    BY <1>1, <1>2, <1>3, ServedDuringCall DEF OnStep
  <2>2. done' = [op |-> OperationOf(task.request), cmd |-> "start", ok |-> TRUE]
    BY <1>1, <1>3 DEF Return
  <2>3. CASE task.request = "start" /\ mode = task.previous /\ mode # "forced_off"
    <3>1. done' = [op |-> "request_start", cmd |-> "start", ok |-> TRUE]
      BY <2>2, <2>3 DEF OperationOf
    <3>2. Service!StartPermitted(ServedMode)
      BY <1>2, <2>1, <2>3 DEF Service!StartPermitted
    <3>3. Service!Observe("request_start", "start", TRUE) /\ UNCHANGED Service!serviceVars
      BY <1>2, <2>3, <3>1 DEF Service!Observe, Service!serviceVars
    <3>4. Service!RequestStart
      BY <2>1, <3>2, <3>3, ServiceDeliveries DEF Service!RequestStart, Service!Request, Service!Delivered, DoneAtOnce
    <3> QED
      BY <3>4 DEF Service!Next
  <2>4. CASE task.request = "forced_on" /\ mode = "forced_on"
    <3>1. CommandForMode("forced_on") = "start"
      BY <2>1, ModeCommand, Modes
    <3>2. done' = [op |-> "request_mode", cmd |-> "start", ok |-> TRUE]
      BY <2>2, <2>4 DEF OperationOf
    <3>3. Service!RequestMode(ModeOf["forced_on"])
      BY <1>2, <2>1, <2>4, <3>1, <3>2, ServiceMode, ServiceDeliveries, Modes
    <3> QED
      BY <3>3, Modes DEF Service!Next
  <2> QED
    BY <1>3, <2>3, <2>4 DEF FirmwareInv, TaskInv, OnStep
<1>4. ASSUME step = "confirm_stop" PROVE Service!Next
  <2>1. ServedUnitState = "running" /\ ServedUnitState' = "stopped"
    BY <1>1, <1>2, <1>4, ServedDuringCall DEF OffStep
  <2>2. done' = [op |-> OperationOf(task.request), cmd |-> "stop", ok |-> TRUE]
    BY <1>1, <1>4 DEF Return
  <2>3. CASE task.request = "stop" /\ mode = task.previous /\ mode # "forced_on"
    <3>1. done' = [op |-> "request_stop", cmd |-> "stop", ok |-> TRUE]
      BY <2>2, <2>3 DEF OperationOf
    <3>2. Service!StopPermitted(ServedMode)
      BY <1>2, <2>1, <2>3 DEF Service!StopPermitted
    <3>3. Service!Observe("request_stop", "stop", TRUE) /\ UNCHANGED Service!serviceVars
      BY <1>2, <2>3, <3>1 DEF Service!Observe, Service!serviceVars
    <3>4. Service!RequestStop
      BY <2>1, <3>2, <3>3, ServiceDeliveries DEF Service!RequestStop, Service!Request, Service!Delivered, DoneAtOnce
    <3> QED
      BY <3>4 DEF Service!Next
  <2>4. CASE task.request \in {"auto", "forced_off"} /\ mode = ModeOf[task.request]
    <3>1. task.request \in ModePath /\ CommandForMode(task.request) = "stop"
      BY <2>1, <2>4, ModeCommand, Modes
    <3>2. done' = [op |-> "request_mode", cmd |-> "stop", ok |-> TRUE]
      BY <2>2, <2>4 DEF OperationOf
    <3>3. Service!RequestMode(ModeOf[task.request])
      BY <1>2, <2>1, <2>4, <3>1, <3>2, ServiceMode, ServiceDeliveries
    <3> QED
      BY <3>1, <3>3, Modes DEF Service!Next
  <2> QED
    BY <1>4, <2>3, <2>4 DEF FirmwareInv, TaskInv, OffStep
<1> QED
  BY <1>1, <1>3, <1>4

\* A request that begins a unit call shows nothing of it yet.
LEMMA ByCommandStutters ==
  ASSUME FirmwareInv, NEW path \in ControlPath, ServeByCommand(path)
  PROVE  UNCHANGED Service!vars
<1>1. /\ step = "idle"
      /\ \/ unitState = "stopped" /\ unitState' = "starting"
         \/ unitState = "running" /\ unitState' = "stopping"
  BY ServeByCommandStarts
<1>2. task'.request = path /\ task'.previous = mode /\ done' = done
  BY DEF ServeByCommand
<1>3. path # "none"
  BY Modes DEF ControlPath
<1>4. ServedMode = mode /\ ServedUnitState = unitState
  BY <1>1, ServedDuringCall
<1>5. ServedMode' = ServedMode /\ ServedUnitState' = ServedUnitState
  BY <1>1, <1>2, <1>3, <1>4 DEF ServedMode, ServedUnitState
<1> QED
  BY <1>2, <1>5 DEF Service!vars

\* Seen from outside the firmware is the Collector Service with atomic
\* operations, which a reset puts back into its initial state.
THEOREM FirmwareImplementsService == Spec => ImplementsService
<1>1. Init => Service!Init
  BY DEF Init, UnitInit, Machine!Init, NoTask, Idle, ServedMode, ServedUnitState,
         Service!Init, Service!Unit!Init, Service!NotPending
<1>2. FirmwareInv /\ [Next]_vars => [Service!Next \/ Service!Init']_Service!vars
  <2> SUFFICES ASSUME FirmwareInv, [Next]_vars
               PROVE  Service!Next \/ Service!Init' \/ UNCHANGED Service!vars
    OBVIOUS
  <2>1. CASE Boot
    BY <2>1
    DEF Boot, PresetLevel, ConfigureOutput, ConstructUnit, Service!vars, ServedMode, ServedUnitState
  <2>2. CASE StartServer \/ UNCHANGED vars
    BY <2>2 DEF StartServer, vars, unitVars, Service!vars, ServedMode, ServedUnitState
  <2>3. CASE \E method \in Method, path \in Path : Serve(method, path)
    BY <2>3 DEF Serve, unitVars, Service!vars, ServedMode, ServedUnitState
  <2>4. CASE \E path \in ControlPath : ServeAtOnce(path) \/ ServeByCommand(path)
    BY <2>4, AtOnceRefines, ByCommandStutters
  <2>5. CASE SwitchRelay
    BY <2>5 DEF SwitchRelay, RelayOn, RelayOff, Service!vars, ServedMode, ServedUnitState
  <2>6. CASE Return
    BY <2>6, ReturnRefines
  <2>7. CASE Reset
    BY <2>7 DEF Reset, UnitReset, NoTask, Idle, ServedMode, ServedUnitState,
                Service!Init, Service!Unit!Init, Service!NotPending
  <2> QED
    BY <2>1, <2>2, <2>3, <2>4, <2>5, <2>6, <2>7 DEF Next
<1> QED
  BY <1>1, <1>2, FirmwareInvariance, PTL DEF Spec, ImplementsService

-----------------------------------------------------------------------------
(* A request that is repeated.                                             *)

\* Between requests the last operation that succeeded is still in effect.
DoneInv ==
  /\ step \in BootStep => done = Idle
  /\ step = "idle" /\ done.ok =>
       /\ done.op = "request_start" => unitState = "running"
       /\ done.op = "request_stop" => unitState = "stopped"
       /\ done.op = "request_mode" =>
            unitState = IF mode = "forced_on" THEN "running" ELSE "stopped"

LEMMA InitDone == Init => DoneInv
BY DEF Init, DoneInv, Idle

LEMMA NextDone == FirmwareInv /\ DoneInv /\ [Next]_vars => DoneInv'
<1> SUFFICES ASSUME FirmwareInv, DoneInv, [Next]_vars PROVE DoneInv'
  OBVIOUS
<1>1. CASE Boot
  <2>1. step \in BootStep /\ done' = done
    BY <1>1 DEF Boot, PresetLevel, ConfigureOutput, ConstructUnit, BootStep
  <2> QED
    BY <2>1 DEF DoneInv, Idle
<1>2. CASE StartServer \/ UNCHANGED vars
  BY <1>2 DEF DoneInv, StartServer, vars, unitVars
<1>3. CASE \E method \in Method, path \in Path : Serve(method, path)
  BY <1>3 DEF DoneInv, Serve, unitVars
<1>4. ASSUME NEW path \in ControlPath, ServeAtOnce(path) PROVE DoneInv'
  <2>1. step = "idle" /\ UNCHANGED <<step, unitState>> /\ mode' = ModeSet(path)
    BY <1>4, ServeAtOnceKeeps DEF unitVars
  <2>2. step' \notin BootStep
    BY <2>1 DEF BootStep
  <2>3. CASE path \notin ModePath
    BY <1>4, <2>2, <2>3, ServeAtOnceKeeps DEF DoneInv
  <2>4. CASE path \in ModePath
    <3>1. unitState = IF path = "forced_on" THEN "running" ELSE "stopped"
      BY <1>4, <2>4, AtRest, CommandCases, ServeAtOnceKeeps
    <3>2. mode' = "forced_on" <=> path = "forced_on"
      BY <2>1, <2>4, Modes DEF ModeSet
    <3>3. done'.op = "request_mode"
      BY <1>4, <2>4, Modes DEF ServeAtOnce, OperationOf
    <3> QED
      BY <2>1, <2>2, <3>1, <3>2, <3>3 DEF DoneInv
  <2> QED
    BY <2>3, <2>4
<1>5. ASSUME NEW path \in ControlPath, ServeByCommand(path) PROVE DoneInv'
  BY <1>5, ServeByCommandStarts DEF DoneInv, BootStep
<1>6. CASE SwitchRelay
  BY <1>6 DEF DoneInv, SwitchRelay, RelayOn, RelayOff, BootStep
<1>7. CASE Return
  <2>1. step' = "idle" /\ mode' = mode /\ done'.op = OperationOf(task.request)
    BY <1>7, ReturnSucceeds DEF Return
  <2>2. CASE step = "confirm_start"
    <3>1. unitState' = "running"
      BY <1>7, <2>2, ReturnSucceeds
    <3>2. \/ OperationOf(task.request) = "request_start"
          \/ OperationOf(task.request) = "request_mode" /\ mode = "forced_on"
      BY <2>2 DEF FirmwareInv, TaskInv, OnStep, OperationOf
    <3> QED
      BY <2>1, <3>1, <3>2 DEF DoneInv, BootStep
  <2>3. CASE step = "confirm_stop"
    <3>1. unitState' = "stopped"
      BY <1>7, <2>3, ReturnSucceeds
    <3>2. \/ OperationOf(task.request) = "request_stop"
          \/ OperationOf(task.request) = "request_mode" /\ mode # "forced_on"
      BY <2>3, Modes DEF FirmwareInv, TaskInv, OffStep, OperationOf
    <3> QED
      BY <2>1, <3>1, <3>2 DEF DoneInv, BootStep
  <2> QED
    BY <1>7, <2>2, <2>3, ReturnSucceeds
<1>8. CASE Reset
  BY <1>8 DEF DoneInv, Reset, UnitReset, Idle
<1> QED
  BY <1>1, <1>2, <1>3, <1>4, <1>5, <1>6, <1>7, <1>8 DEF Next

\* A repeated request finds nothing left to do.
LEMMA RepeatBringsNothing ==
  ASSUME FirmwareInv, DoneInv, NEW path \in ControlPath, step = "idle", Repeats(path)
  PROVE  CommandFor(path) = IF path \in ModePath THEN "none" ELSE "refuse"
<1>1. unitState \in {"stopped", "running"}
  BY AtRest
<1>2. ServedUnitState = unitState
  BY <1>1 DEF ServedUnitState
<1>3. CASE path = "start"
  BY <1>2, <1>3, CommandOf, Modes DEF Repeats, OperationOf, DoneInv
<1>4. CASE path = "stop"
  BY <1>2, <1>4, CommandOf, Modes DEF Repeats, OperationOf, DoneInv
<1>5. CASE path \in ModePath
  <2>1. done.op = "request_mode" /\ done.ok /\ mode = ModeOf[path]
    BY <1>5, Modes DEF Repeats, OperationOf
  <2>2. unitState = IF path = "forced_on" THEN "running" ELSE "stopped"
    BY <1>5, <2>1, Modes DEF DoneInv
  <2> QED
    BY <1>2, <1>5, <2>2, CommandOf, ModeCommand
<1> QED
  BY <1>3, <1>4, <1>5 DEF ControlPath

\* The request accepted last, served once more after its answer was lost, does
\* not reach the unit, and a mode is accepted again.
THEOREM RepeatsAreHarmless == Spec => RepeatIsHarmless
<1>1. ASSUME FirmwareInv, DoneInv, NEW path \in ControlPath,
             ServeAtOnce(path) \/ ServeByCommand(path), Repeats(path)
      PROVE  UNCHANGED unitVars /\ (path \in ModePath => done'.ok)
  <2>1. step = "idle"
    BY <1>1 DEF ServeAtOnce, ServeByCommand, Ready
  <2>2. CommandFor(path) = IF path \in ModePath THEN "none" ELSE "refuse"
    BY <1>1, <2>1, RepeatBringsNothing
  <2>3. ~ServeByCommand(path)
    BY <2>2 DEF ServeByCommand
  <2>4. UNCHANGED unitVars /\ done'.ok = (CommandFor(path) = "none")
    BY <1>1, <2>3 DEF ServeAtOnce
  <2> QED
    BY <2>2, <2>4
<1>2. FirmwareInv /\ DoneInv =>
        [ \A path \in ControlPath :
            (ServeAtOnce(path) \/ ServeByCommand(path)) /\ Repeats(path)
              => UNCHANGED unitVars /\ (path \in ModePath => done'.ok) ]_vars
  BY <1>1
<1> QED
  BY <1>2, InitDone, NextDone, FirmwareInvariance, PTL DEF Spec, RepeatIsHarmless
=============================================================================
