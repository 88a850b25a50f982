------------------------------ MODULE RelayUnit ------------------------------
(***************************************************************************)
(* The production Collector Unit: RelayBackedCollectorUnit on top of       *)
(* EspRelayDriver and the GPIO pin of the relay, one action per statement  *)
(* that touches the pin or the state machine, so that a reset may come     *)
(* between any two of them.  A failing gpio_* call aborts the program      *)
(* (ESP_ERROR_CHECK) and is such a reset too.                              *)
(***************************************************************************)
EXTENDS Integers

CONSTANTS
  ActiveLow,       \* EspRelayConfig::polarity is active_low
  CounterModulus   \* 2^32: the counters of CollectorDiagnostics are uint32_t

ASSUME RelayAssumption ==
  /\ ActiveLow \in BOOLEAN
  /\ CounterModulus \in Nat \ {0, 1}

VARIABLES
  step,        \* the next statement of the constructor or of start()/stop()
  output,      \* the pin is configured as an output
  level,       \* the level last set for the pin
  relayState,  \* EspRelayDriver::state_
  unitState,   \* state_ of the unit's CollectorStateMachine
  starts,      \* diagnostics_.successful_starts
  stops,       \* diagnostics_.successful_stops
  answer       \* what the last start() or stop() returned

unitVars == <<step, output, level, relayState, unitState, starts, stops, answer>>

Machine == INSTANCE CollectorStateMachine WITH state <- unitState

BootStep == {"preset", "configure", "construct"}

CallStep == {"relay_on", "confirm_start", "relay_off", "confirm_stop"}

\* The relay's coil: driven only by an output pin at the active level.
Energised == output /\ level = IF ActiveLow THEN 0 ELSE 1

UnitTypeOK ==
  /\ step \in BootStep \union CallStep \union {"idle"}
  /\ output \in BOOLEAN
  /\ level \in {0, 1}
  /\ relayState \in {"on", "off"}
  /\ unitState \in Machine!CollectorState
  /\ starts \in 0 .. CounterModulus - 1
  /\ stops \in 0 .. CounterModulus - 1
  /\ answer \in BOOLEAN

\* After a reset every pin is an input and its output register is clear.
UnitInit ==
  /\ step = "preset"
  /\ output = FALSE
  /\ level = 0
  /\ relayState = "off"
  /\ Machine!Init
  /\ starts = 0
  /\ stops = 0
  /\ answer = FALSE

-----------------------------------------------------------------------------
\* Mutant: the polarity is the wrong way round.
LevelForInverted(relay) == IF (relay = "on") = ActiveLow THEN 1 ELSE 0

\* The level that EspRelayDriver computes for a relay state.
LevelFor(relay) == IF (relay = "on") = ActiveLow THEN 0 ELSE 1

\* EspRelayDriver::set_state
SetRelay(relay) ==
  /\ level' = LevelFor(relay)
  /\ relayState' = relay

\* Mutant: the pin becomes an output before its off level is set.
ConfigureFirst ==
  /\ step = "preset"
  /\ step' = "configure"
  /\ output' = TRUE
  /\ UNCHANGED <<level, relayState, unitState, starts, stops, answer>>

\* EspRelayDriver::EspRelayDriver: the off level first, then the output mode.
PresetLevel ==
  /\ step = "preset"
  /\ step' = "configure"
  /\ level' = LevelFor("off")
  /\ UNCHANGED <<output, relayState, unitState, starts, stops, answer>>

ConfigureOutput ==
  /\ step = "configure"
  /\ step' = "construct"
  /\ output' = TRUE
  /\ relayState' = "off"
  /\ UNCHANGED <<level, unitState, starts, stops, answer>>

\* RelayBackedCollectorUnit::RelayBackedCollectorUnit
ConstructUnit ==
  /\ step = "construct"
  /\ step' = "idle"
  /\ SetRelay("off")
  /\ UNCHANGED <<output, unitState, starts, stops, answer>>

-----------------------------------------------------------------------------
(* RelayBackedCollectorUnit::start and ::stop.                             *)

Increment(counter) == (counter + 1) % CounterModulus

\* Mutant: a refused call is counted as a start.
RefuseCounted ==
  /\ answer' = FALSE
  /\ starts' = Increment(starts)
  /\ UNCHANGED <<step, output, level, relayState, unitState, stops>>

Refuse ==
  /\ answer' = FALSE
  /\ UNCHANGED <<step, output, level, relayState, unitState, starts, stops>>

BeginStart ==
  /\ step = "idle"
  /\ \/ /\ Machine!RequestStart
        /\ step' = "relay_on"
        /\ UNCHANGED <<output, level, relayState, starts, stops, answer>>
     \/ /\ unitState # "stopped"
        /\ Refuse

RelayOn ==
  /\ step = "relay_on"
  /\ step' = "confirm_start"
  /\ SetRelay("on")
  /\ UNCHANGED <<output, unitState, starts, stops, answer>>

ConfirmStart ==
  /\ step = "confirm_start"
  /\ step' = "idle"
  /\ IF unitState = "starting"
     THEN /\ Machine!ConfirmStarted
          /\ starts' = Increment(starts)
          /\ answer' = TRUE
          /\ UNCHANGED <<level, relayState>>
     ELSE /\ SetRelay("off")
          /\ unitState' = "faulted"
          /\ answer' = FALSE
          /\ UNCHANGED starts
  /\ UNCHANGED <<output, stops>>

BeginStop ==
  /\ step = "idle"
  /\ \/ /\ Machine!RequestStop
        /\ step' = "relay_off"
        /\ UNCHANGED <<output, level, relayState, starts, stops, answer>>
     \/ /\ unitState # "running"
        /\ Refuse

\* Mutant: a stop that confirms without switching the relay.
RelayForgotten ==
  /\ step = "relay_off"
  /\ step' = "confirm_stop"
  /\ relayState' = "off"
  /\ UNCHANGED <<level, output, unitState, starts, stops, answer>>

RelayOff ==
  /\ step = "relay_off"
  /\ step' = "confirm_stop"
  /\ SetRelay("off")
  /\ UNCHANGED <<output, unitState, starts, stops, answer>>

ConfirmStop ==
  /\ step = "confirm_stop"
  /\ step' = "idle"
  /\ IF unitState = "stopping"
     THEN /\ Machine!ConfirmStopped
          /\ stops' = Increment(stops)
          /\ answer' = TRUE
     ELSE /\ unitState' = "faulted"
          /\ answer' = FALSE
          /\ UNCHANGED stops
  /\ UNCHANGED <<output, level, relayState, starts>>

\* Power loss, watchdog or abort: everything above starts over.
UnitReset ==
  /\ step' = "preset"
  /\ output' = FALSE
  /\ level' = 0
  /\ relayState' = "off"
  /\ unitState' = "stopped"
  /\ starts' = 0
  /\ stops' = 0
  /\ answer' = FALSE

-----------------------------------------------------------------------------
UnitNext ==
  \/ PresetLevel \/ ConfigureOutput \/ ConstructUnit
  \/ BeginStart \/ RelayOn \/ ConfirmStart
  \/ BeginStop \/ RelayOff \/ ConfirmStop
  \/ UnitReset

UnitSpec == UnitInit /\ [][UnitNext]_unitVars

-----------------------------------------------------------------------------
\* The relay is energised only inside or after an accepted start: never while
\* the driver and the unit are being constructed, for either polarity, and
\* never after the stop has switched it (docs/implementation/collector-api.md,
\* lines 61-64: "active-low relays are not briefly energized").
EnergisedOnlyWhenCommanded ==
  Energised =>
    \/ step = "idle" /\ unitState = "running"
    \/ step = "confirm_start" /\ unitState = "starting"
    \/ step = "relay_off" /\ unitState = "stopping"

\* Between two calls the reported state is the state of the pin: running
\* exactly when the relay is energised, never a transient or faulted state.
ReportedStateIsOutput ==
  step = "idle" =>
    /\ unitState \in {"stopped", "running"}
    /\ unitState = "running" <=> Energised
    /\ relayState = "on" <=> Energised

\* The counters stay one apart while the unit runs and equal while it is
\* stopped, also after both have wrapped around.
CountersBalance ==
  step = "idle" =>
    (starts - stops) % CounterModulus = IF unitState = "running" THEN 1 ELSE 0
=============================================================================
