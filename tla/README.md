# Verification of the dust-extraction controller

TLA+ models of the firmware in `src/firmware`, checked with TLC on small
instances and, where a theorem is listed, proved with TLAPS for every value of
the constants. Every definition is translated from the code; file and lines
are in `PROJECT.json` under `map`.

    tlc -workers 2 -config CollectorApi.cfg CollectorApi
    tlapm CollectorServiceProofs.tla

## The system

| Component | State | Operations | What makes it correct |
| --- | --- | --- | --- |
| `collector_service` | mode, demand, pending start (time stamp) | `request_start/stop/mode`, `update_demand`, `process`, `report_fault` | start delay kept, overrides obeyed, failed commands roll back, output follows mode and demand |
| `collector_state_machine` | one of five states | request/confirm start and stop, fault, recover | only the listed transitions |
| `relay_backed_collector_unit` | state machine, counters | constructor, `start`, `stop` | reported state = relay state; counters balance |
| `esp_relay_driver` | pin level and direction, `state_` | constructor, `on`, `off` | relay not energised during construction, either polarity |
| `command_dispatcher` | recipients | register, unregister, `dispatch` | one recipient per uid, synchronous result |
| `event_dispatcher` | subscriptions, next id | subscribe, unsubscribe, `publish` | every subscriber at the time of publication called once, in order |
| `http_server` | native handle, the httpd behind it | start, stop, destructor, dispatch | results tell what happened; nothing left running, nothing called after destruction |
| `http_routes`, `collector_api` | none | handle | a request reaches its operation, the answer reports its result and the state at that moment; only accepted requests change the mode |
| `main` | statics | `app_main` | off after reset, wiring |
| `demand_aggregator`, `machine_demand_source` | set of active units under a mutex | start, stop, queries | set semantics across tasks |
| `adc`, `esp_adc_driver` | oneshot handle | block read | samples on schedule, stop at first failure |
| `event`, `command`, `collector_commands`, `collector_events`, `event_id_generator` | none (values) | construct, parse | what is made is accepted by its parser and loses no information |
| `event_json` | the JSON object under construction | serialize | complete text or none; no memory lost |
| `collector_page` | the state and the message shown in the browser | click, poll, answer | shows only confirmed states, in the end the present one; a failed command stays visible |
| `scripts/` | release assets; GitHub | packaging; bootstrap | assets flash what was built; a mixture of two runs is detected as far as the checksums reach |

How they interact. An HTTP request is handled on the single httpd task: server
-> routes -> API -> service. The service never changes the unit itself; it
builds a command and dispatches it synchronously to the recipient that `main`
registered, which calls `start()` or `stop()` of the relay-backed unit; the
Boolean result travels back up the same stack, the service rolls a failed mode
change back, the API answers 202 or 409. Demand enters through
`update_demand()`, and `process()` is meant to be called periodically
(`docs/implementation/collector-api.md`, lines 38-39). The wiring in `main`
calls neither, so today's firmware has manual control and modes only; the
service on its own is modelled with both.

What is hard here: a pending automatic start that must die with its demand but
survive a failed command; a mode change accepted while the unit is in transit
or faulted; resets between any two statements; answers lost after the effect;
handlers that publish or unsubscribe inside a delivery; answers that overtake
each other in the page. `PROJECT.json` lists
these under `hazards`, each at its line with the properties that cover it.

## Modules

**CollectorStateMachine** - the transition table. Instantiated by the two
modules below; a refused operation is simply not enabled.

**CollectorService** - one action per operation of the service. The whole
handler is one action: the class has no lock and its callers serialise its
operations, and a command's delivery is synchronous. `Deliveries` gives what a
delivery may return and where it leaves the unit: an asynchronous unit is left
`starting`/`stopping`, a synchronous one `running`/`stopped`, and one that has
not taken the command up yet where it was, as in the service's tests
(`test_collector_service.cpp`, lines 155-165) and in `collector-api.md`, lines
9-12. Such a command is then `outstanding`: `TakeUp` carries it out at any later
time, in any order with others, or drops it. A failed delivery changes nothing
or faults the unit. `Reconcile` (which command), `PendingAfter`
(what is left pending) and `Wanted` are `reconcile()`. Between operations the
unit confirms, faults and recovers and the clock ticks. The code compares only
`clock_() - pending_demand_since_` with the delay; the model keeps that
difference, cut off at the delay, so time is unbounded. The clock never goes
back: nothing in the firmware sets it. `demandAge`, `overridden` and `last` are
history variables no guard reads.

**RelayUnit** - the relay-backed unit on the ESP relay driver, one action per
statement that touches pin, state machine or counters, and a reset at any
point (power, watchdog, `ESP_ERROR_CHECK`).

**CollectorFirmware** - `main`'s wiring on top of RelayUnit: boot, the HTTP
task, the routes and status codes, the service's decision, the unit call, the
return with roll back and answer, lost answers, resets. It uses
CollectorService twice: its operators decide the command, and the whole module
is the abstract specification: with `ServedMode` and `ServedUnitState` (the
mode and unit state as of the last completed operation) the firmware's steps
are steps of `CollectorService!Next`, stutters, or a reset to its initial state.

**CollectorApi** - the API on the whole Collector Service, demand and
`process()` included: a request is one action with the operation it calls, and
its answer is a status and, without an error, the state document as it is after
the operation. There are many clients; `document` is what one of them received
last, since an answer may go to another client or be lost. So a client knows
the mode only by polling. `granted` is a history variable, the mode that was
accepted last by anybody. CollectorFirmware follows a request down to the pin,
and has the resets; CollectorApi is about what is answered. Both start from
`CollectorApi::handle`.

**HttpServer** - one server object and the httpd behind it. The owner's calls
go step by step, one step per httpd call, each of which may fail; the httpd
task dispatches requests in between. What httpd itself does (`HttpdStop`,
`Unrouted`) is external: stopping waits for the request being served, as
ESP-IDF's does. `refused` remembers that httpd refused to stop.

**EventIdentifiers** - the making and the parsing of UUIDs and Device UIDs as
operators on sequences of characters, each applied once to every input of a
bounded set. Initial states are the inputs.

**EventJson** - `serialize()` allocation by allocation, on a heap of a few
cells that the rest of the firmware uses and frees as well.

**ReleasePackage** - `package_esp32_release.py`, one action per asset written,
killed before or within any file and run again with another of `Builds` in the
same directory. `flash_args` is the sequence of the places of images in it, each
with its line: the parser does not see the lines, the rewriting does. An image
is named by its first mention, which is the order in which the images are
written; `Order` is the order of the assets. An image's content is what the build
directory holds, so two builds may share bytes, and a checksum equals another
exactly when the bytes do. `writer` and `released` are history variables: which
run wrote an asset last, and which build the manifest is of. An asset that a
killed run had opened is empty. Images may be named `README.md`, which stands
for the names of the texts; `flash_args` and `manifest.json` as names of images
are left out.

**AdcSampling** - the block read of the ADC driver: schedule in whole
microseconds, conversions that take time or fail, waits that are overrun. All
times are relative to the call. `room` is `count`, or 0 for a null buffer. The
sample values are left out: no property tells them apart.

**MCStandAlone** - the four modules above have no state in common with the
rest or with one another. This module instantiates them side by side for one
run: `part` says which of them acts in a behaviour, the others stay where
they are. It declares their constants and the assumptions on them, and
`SampleBuilds`, the builds of the run.

**EventDispatcher** - subscriptions as a sequence, the call stack of `publish()`
as a sequence of frames. The matching subscriptions that `publish()` copies keep
the place they had, so a frame's next delivery is the copy with the least place.
Code runs outside the dispatcher whenever the stack is empty or its top frame is
inside a handler; there it may subscribe, unsubscribe or publish. Handlers are
numbered by their `subscribe()` call.

**CommandRouting, CommandDispatcher** - what the dispatcher promises (a binding
of UIDs to recipients; a command runs the recipient bound at that moment), and
the vector searched from the front that implements it. A recipient is foreign
code: while its command runs it may register, unregister and dispatch, so the
commands under way are a stack. `outcome` is what the last operation returned, and
for which UID.

**DemandSet, DemandAggregator** - an atomic set of active Units shared by tasks,
and the aggregator: each task calls an operation, waits for the mutex, executes
the operation statement by statement (`stop()` finds and erases in two steps)
and unlocks. The abstract operation takes effect between call and return.
Nothing in the repository feeds the aggregator into the service yet, so the two
are not composed.

**CollectorPage** - the script of the control page. What a click or a poll does
up to its `await` is one action, what follows the answer another; the two
awaits in a row (`fetch`, `json`) are one, because nothing happens between
them. Requests under way sit in slots, are served in any order and return in
any order, or are lost on either way. The controller is reduced to the state it
reports, which also moves without the page. `since` (the states the collector
was in since a request was sent) and `failed` are history variables.

**CollectorServiceProofs** (service and API), **CollectorFirmwareProofs** (relay
unit and firmware), **CommandDispatcherProofs, DemandAggregatorProofs,
CollectorPageProofs, EventDispatcherProofs, HttpServerProofs** and
**StandAloneProofs** (the four components of MCStandAlone) - theorems, see below.

Definitions introduced by the comment "Mutant" are plausible slips of the
definition that follows them. They are used by no action: replacing the
definition by its mutant must make TLC refute the property the mutant is listed
with in `PROJECT.json`, which shows that the property depends on that code.

## Runs

| Run | Instance | Shows |
| --- | --- | --- |
| `collector_service` | delay 3, fairness | pending start belongs to the present demand; a missing pending start is accounted for; no automatic start before the delay; overrides hold; failures keep the intent; FORCED_ON settles running, AUTO serves demand and release, also when commands are taken up late |
| `collector_api` | delay 1, fairness | the mode in force is the one accepted last; what is accepted is under way or done; polling shows the outcome of FORCED_OFF to a client that loses answers |
| `service_run_on` | delay 1, violation | REQ-DC-004's run-on period does not exist |
| `relay_unit` | active low, counters modulo 16 | no energising without an accepted start; state = pin; counters balance across the wrap |
| `firmware` | active high, counters modulo 3 | implements the atomic service; modes govern the pin; off after reset; repeated requests harmless |
| `event_dispatch` | 2 types, 4 subscriptions, 3 publications, ids modulo 3 | audience served exactly once in order under re-entrancy; ids unique until the counter wraps |
| `event_order` | 2 subscriptions, 2 publications, violation | recursive publication reorders events |
| `command_dispatcher` | 3 UIDs, 2 recipients, commands nested to depth 2 | every result, and every recipient reached, is that of a binding of UIDs |
| `demand_aggregator` | 2 tasks, 2 Units, fairness | operations look atomic to concurrent tasks; the mutex is always given back |
| `collector_page` | 2 requests under way, the 4 states of a synchronous unit, fairness | only confirmed states shown; failures stay visible; a lasting state is shown in the end |
| `http_server` | both targets, valid and zero port, with and without handler, fairness | results are honest; no request outlives the server; leftovers only when httpd refuses; every call returns |
| `stand_alone` | UUIDs and MACs of zeros but for two bytes from 5 values; texts of up to 5 of 5 characters; 8 heap cells; 2 packaging runs, builds that differ from the usual one in a line, a file or the bytes of the boot loader; 3000 Hz, up to 4 samples, conversions of 40, 333, 400 or 1000 us, overruns 0 or 10 us | made identifiers are accepted and keep their bits, the Device UID parser is exact; complete JSON text or none, no cell lost; assets flash what was built, mixtures are detected but for one case; no sample early or later than it must be, waits positive and within a period, honest count |

The service is checked alone, which is as good as beneath its API:
`ApiRefinesService` shows that the API adds no behaviour to it. The type
invariants of the other modules are theorems and not checked again; those of EventDispatcher and
HttpServer are both. `NeverEarly` (implied by `NoDrift`) and `UniqueRecipients`
are theorems too.

Why the bounds are enough. The service compares the pending age with the delay
only, so a delay of 3 has every case: fresh, in between, one before due, due
(delay 0 and negative delays are covered by the proofs). None of the API's own
properties is about the length of the delay, only about a start being due or
not, for which 1 is enough. The unit, mode and
demand are finite and unbounded in time. Three is the smallest counter modulus
at which a wrap differs from zero and one; 16 lets both counters wrap at
different moments. Three publications give a delivery interrupted twice or
inside an interruption; four subscriptions with identifiers modulo 3 reach the
first reuse of an identifier. Three UIDs let the erased recipient be the first,
the middle or the last of the vector; depth 2 lets a recipient that runs inside
another be unregistered or replaced. Two tasks are enough for every pair of
operations to meet; the proof covers any number. A period of 333 us with
conversions shorter than, equal to, slightly and several times longer than it
gives early, punctual and late samples and a catch-up within four samples. Two
requests under way let any answer overtake any other; the page's proofs cover
any number. Two varying bytes meet every pair of places of an identifier, which
no code relates to a third; the values include 0, one digit's and two digits'
largest and both halves of a letter. Texts of five characters with two
hexadecimal digits at the end have up to three characters before the last dash:
none, one or several, dashes among them. An event needs six cells and a seventh
for its text, so a heap of eight runs out at each allocation, or at none. Two
packaging runs are enough for a mixture; the proofs cover any number.

Fairness. For the service, `collector_service` and `collector_api` assume that `process()` keeps being called (the
documented duty of the integrator), that a command which is due again and again
is not lost every time (strong fairness on its delivery; a single delivery may
fail any number of times), that of the commands taken up late not every one is
dropped (how late is left open), that the unit confirms what it has begun and
that time passes. `main` does not call `process()` yet: what holds under this
assumption holds for an integration that does its duty. Requests, demand changes, faults and recoveries carry no fairness.
`demand_aggregator` assumes that the
task that holds the mutex is scheduled, and nothing about which waiting task
gets it next. `collector_page` assumes that the timer keeps firing (strongly fair,
because the model's slots may all be taken and the browser's are not), that
every request ends one way or another, and that not every poll is lost; nothing
is assumed of clicks, commands or the collector. `collector_api` assumes besides
that the client polls, which the page does every 2000 ms, and that not every
answer to it is lost.
`http_server` assumes that the owner's task and the httpd task run, and that
httpd, when it is not going to refuse, sooner or later stops between two
requests (it takes no new one while it is stopping; the model lets it).

Deadlock is checked except for `event_dispatch` and `event_order`, where the
bounds on calls let the system come to rest, `http_server`, where the object may
be gone, and `stand_alone`, where each identifier is made once, the block read
returns and the packaging runs are bounded.

Divergences between documents and code (`findings`):
`update_demand(false)` stops the collector at once, although REQ-DC-004 and the
state-machine specification require a run-on period; and `publish()` is
recursive, although the event model forbids recursive processing and requires
queueing. Not given a run, because absence needs no model: the event model
requires that the completion of a command is confirmed by events, and no code
in the repository publishes CollectorStarted or CollectorStopped. Observations:
the sampler cuts the period to whole microseconds, so a configured rate that
does not divide 1000000 is exceeded (44000 Hz gives 22 us, or 45454 Hz); and
"Controller unreachable" after a lost poll stays on the page until the next
click, also when later polls succeed. A subscription's identifier is given out
again when the 32-bit counter comes around, whether or not it is still in use;
`IdsNameOneSubscription` is about the time before that.

What the manifest of a release does not detect: it has checksums of the images
and none of `flash_args`. A build whose images are those of the previous one and
whose `flash_args` differs, packaged into the same directory and killed between
`flash_args` and the manifest, leaves the old manifest, which every image
matches, beside the new arguments; so do further runs that put the images back
and are killed before `flash_args`. `MixtureIsConfined` says that nothing else
goes undetected: a run after the manifest's has replaced `flash_args`, and no
image named there was last written by an earlier run than that. Further, nothing refuses an image whose
file name is that of a text asset, which replaces it; `Flashable` excludes it.

## Proofs

*Collector Service* (assumption: the configured delay is an integer). The
inductive invariant `IInv` is `TypeOK`, `PendingIsPresentDemand` and
`DelayAccountedFor`. The last two need each other: dropping a pending start is
right because it is exactly as old as the demand; restoring it in a roll back
is right because a demand with a pending start has met no override. From `IInv`
follow `StartDelayRespected` and `FailureKeepsIntent` as action properties, one
step per action; `OverrideHolds` needs no invariant, and excepts commands that
were delivered before the override and are taken up during it.

*Relay unit* (assumptions: the polarity is a Boolean, the counter modulus at
least 2). `UnitInv` says for each statement about to be executed where state
machine, pin, level and counters are. TLC checked that it is an invariant; one
conjunct (`output` while the unit is constructed) is there only to make it
inductive. The three safety properties follow from it, for both polarities and
every counter width.

*Firmware* (the relay unit's assumptions). `FirmwareInv` joins `UnitInv`, the
types, `TaskInv` (a unit call under way belongs to one control request, and
the mode in force is the one that request set or found) and `RestInv` (between
requests an override has the unit where it wants it, and a running unit was
asked for). TLC checked the conjunction first. The relay's steps are steps of
RelayUnit, so its step lemma is used as it is. `RepeatIsHarmless` needs
`DoneInv` besides: between requests the operation that succeeded last is still in
effect, so the same request finds nothing to command. `ModeGovernsRelay` and
`NoAutomaticRestart` follow, and so does the refinement: a request answered at
once and the return of a unit call are operations of the service, everything
else inside a request leaves `ServedMode` and `ServedUnitState` alone.

*Command dispatcher* (assumption: the empty function is no recipient). Types
and `UniqueRecipients` are inductive together; uniqueness is what makes the
first match the only one, and erasing it the removal of the binding.

*Demand aggregator* (assumptions: finitely many Units, `Free` is no task). The
invariant says who holds the mutex at each step, and that a Unit found by
`stop()` is still there when it is erased. Each operation's linearization point
is the statement that fixes its result.

*Control page* (assumption: the states reported are states of the unit). The
invariant says that an answer on its way names a state the collector was in
since its request was sent; with it every shown state is a confirmed one.

*Collector API* (assumption: the configured delay is an integer). Each step
with the API is a step of the service or leaves it alone, so `ApiSpec` implies
the service's `Spec` and its invariant `IInv`. `ModeIsTheGrantedOne` is
inductive: only mode requests change the mode, a failed one restores it, and one
that is accepted is granted. `AcceptedIsUnderWay` follows from what
`reconcile()` issues for each mode and from `Deliveries`: a command that was
delivered has moved the unit or is outstanding. It promises no more than that,
as the document does.

*Event dispatcher* (assumptions: identifiers are counted modulo at least 2, the
bounds are natural numbers). `DispatcherInv` has two halves. The subscriptions
stand in the order of their `subscribe()` calls, and until the counter has come
around an identifier is the number of its call modulo the width; hence
`IdsNameOneSubscription`. Of every publication under way, at any depth, what was
delivered and the copies still due together are its audience, every due handler
is later than every one called, and frames further in are of later publications;
hence nobody is called twice, left out or called out of order
(`AudienceServed`), although handlers subscribe, unsubscribe and publish.

*HTTP server* (no assumption). `ServerInv` says for each httpd call of the owner
under way what the object holds and what httpd runs (between `httpd_start` and
the registration a server nobody routes to, for instance), that between calls
the two agree unless httpd refused to stop, that a request is only served while
the route is registered, and that the result reported last is still true. The
three safety properties follow.

*The four components of MCStandAlone.* Every lemma is about one of them alone;
the system runs each by its own steps.
Block read (a valid rate; times are natural numbers): the invariant ties the
schedule to the number of samples begun and each begin to the end before it; it
holds for every rate from 1 to 1000000 Hz.
JSON of events (any heap size): free, held and foreign cells add up to the heap,
only a call under way holds any, and the object under construction is a prefix
of the event's members.
Identifiers: the layout of an id and of a Device UID is computed group by group
(which characters are digits of which byte); from it `IdUsable` and `UidUsable`
hold for all 2^128 byte arrays and all MACs, of which the run has some two thousand.
`ParserIsExact` holds for any alphabet, length and number of digits: the last
dash is unique, so the documented form and the parser's search agree.
Release packaging (any set of builds, any number of runs): `PackagingInv` says
what the run under way has written. An image once written stays because the
checks before the first asset make the names of different images differ.
The asset of an image named `README.md` is of the run, though its bytes may not be.
For `MixtureIsConfined`, `MixtureInv` joins two facts. The arguments are never
younger than an image they name (`ArgsAreOldest`): when they are written, all
their images have been. And the manifest in the directory is that of `released`,
no younger than the arguments, and as long as both are of one run the arguments
are those of `released`, too (`ManifestInv`); so matching images are flashed as
that build would. This is where the order of the assets matters.

Only model-checked is liveness, which is beyond this prover
(`ForcedOnSettles`, `DemandServed`, `ReleaseServed`, `PollingShowsOutcome`,
`MutexReleased`, `SettledStateShown`, `CallsReturn`). Every other property of
the passing runs is a theorem. What the proofs take from bounds in the models:
the kinds of image and the members of an event are fixed sets, and the
number of publications, subscriptions and nested commands is bounded by a
constant, but by any.

## Plan

Done, in this order: the service, the relay unit, the firmware, the event
dispatcher, the command dispatcher, the demand aggregator, the sampler, the
control page, the HTTP server, the identifiers, the JSON of events, the API, the
release package, and the theorems above. Next:

1. CollectorPolicy: the control specification of `docs/specification/
   04-state-machines.md` as an abstract machine that the service implements,
   with the refinement proved.
2. CollectorApi and CollectorFirmware describe one API at two depths: prove that
   a request of the firmware is answered as the API answers it.
3. DemandPath, once the repository connects the aggregator to the service.

## Not modelled

Wording, escaping and layout of JSON and of the page; the value types that only
store what they are given; the ADC driver's constructor and destructor, which
only call ESP-IDF and abort on an error; build files and CI;
`scripts/github-bootstrap.sh`, run once by hand, whose behaviour on a second run
is that of GitHub's search index. `machine_demand_source` is an interface that
nothing implements. That two random identifiers differ is a matter of
probability. Concurrent callers of the service: the repository has none, so the
models assume that its operations do not overlap.
