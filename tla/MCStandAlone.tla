------------------------------ MODULE MCStandAlone -----------------------------
(***************************************************************************)
(* Four components that share no state with the rest of the system nor     *)
(* with one another, checked side by side: the identifiers (firmware/      *)
(* components/event, command and event_id_generator), the JSON of events   *)
(* (event_json), the release packaging (scripts) and the block read of the *)
(* ADC driver (adc, esp_adc_driver).  In a behaviour one of them runs and  *)
(* the others rest.                                                        *)
(***************************************************************************)
EXTENDS Integers, Sequences

CONSTANTS
  Byte, Letter, MaxLength, HexLength,                       \* EventIdentifiers
  HeapSize,                                                 \* EventJson
  MaxRuns, Builds,                                          \* ReleasePackage
  Rate, MaxCount, Durations, Overruns                       \* AdcSampling

ASSUME IdentifiersAssumption ==
  Byte \subseteq 0 .. 255 /\ MaxLength \in Nat /\ HexLength \in Nat

ASSUME HeapAssumption == HeapSize \in Nat

ASSUME MaxRunsAssumption == MaxRuns \in Nat

VARIABLES
  part,                                                     \* the one that runs
  input, output,                                            \* EventIdentifiers
  event, members, free, held, others, jsonStep, result,     \* EventJson
  build, run, step, pos, out, outcome, writer, released,    \* ReleasePackage
  pc, room, stored, next, now, begun, ended, failed         \* AdcSampling

Identifiers == INSTANCE EventIdentifiers
Json == INSTANCE EventJson WITH step <- jsonStep
Release == INSTANCE ReleasePackage
Sampling == INSTANCE AdcSampling

ASSUME BuildsAssumption == \A b \in Builds : Release!IsBuild(b)

ASSUME SamplingAssumption ==
  /\ Sampling!ValidRate
  /\ MaxCount \in Nat
  /\ Durations \subseteq Nat
  /\ Overruns \subseteq Nat

identifiersVars == <<input, output>>
jsonVars == <<event, members, free, held, others, jsonStep, result>>
releaseVars == <<build, run, step, pos, out, outcome, writer, released>>
samplingVars == <<pc, room, stored, next, now, begun, ended, failed>>
vars == <<part, identifiersVars, jsonVars, releaseVars, samplingVars>>

\* A component that rests stays in a first state, without input.
Init ==
  /\ part \in {"identifiers", "json", "release", "sampling"}
  /\ Json!Init
  /\ Release!Init
  /\ IF part = "identifiers"
     THEN Identifiers!Init
     ELSE input = [kind |-> "none"] /\ output = <<"none">>
  /\ Sampling!Init
  /\ part # "sampling" => room = 0

IdentifiersRun ==
  /\ part = "identifiers"
  /\ Identifiers!Next
  /\ UNCHANGED <<part, jsonVars, releaseVars, samplingVars>>

JsonRuns ==
  /\ part = "json"
  /\ Json!Next
  /\ UNCHANGED <<part, identifiersVars, releaseVars, samplingVars>>

ReleaseRuns ==
  /\ part = "release"
  /\ Release!Next
  /\ UNCHANGED <<part, identifiersVars, jsonVars, samplingVars>>

SamplingRuns ==
  /\ part = "sampling"
  /\ Sampling!Next
  /\ UNCHANGED <<part, identifiersVars, jsonVars, releaseVars>>

Next == IdentifiersRun \/ JsonRuns \/ ReleaseRuns \/ SamplingRuns

Spec == Init /\ [][Next]_vars

-----------------------------------------------------------------------------
\* For TLC: the usual build, and builds that differ from it in at most one line,
\* which is put before or behind the others or replaces one, and in one file or
\* two; and some of these with another boot loader, the other bytes unchanged.
Place(line, address, image) == [line |-> line, address |-> address, image |-> image]

UsualPlaces == <<Place(1, 1, "boot"), Place(2, 2, "table"), Place(3, 3, "app")>>

OddLine(line) ==
  { <<>>, <<Place(line, 3, "app")>>, <<Place(line, 4, "app")>>, <<Place(line, 4, "ota")>>,
    <<Place(line, 4, "extra")>>, <<Place(line, 4, "README.md")>>, <<Place(line, 4, "../boot")>>,
    <<Place(line, 4, "boot"), Place(line, 5, "extra")>> }

\* What a build writes into an image tells the image and its version.
Files(images, changed) ==
  [image \in images |-> <<image, IF image \in changed THEN "new" ELSE "old">>]

Usual == {"boot", "table", "app"}

Unusual == {"ota", "extra", "README.md"}

SampleBuilds ==
  [places: {odd \o UsualPlaces : odd \in OddLine(0)}
             \union {UsualPlaces \o odd : odd \in OddLine(4)}
             \union UNION {{SubSeq(UsualPlaces, 1, n - 1) \o odd \o SubSeq(UsualPlaces, n + 1, 3) :
                              odd \in OddLine(n)} : n \in 1 .. 3},
   files: {Files(Usual \union Unusual \union {"../boot"}, {}), Files({"boot", "app"} \union Unusual, {}),
           Files(Usual, {})}]
  \union
  [places: {UsualPlaces \o odd : odd \in OddLine(4)}, files: {Files(Usual \union Unusual, {"boot"})}]

-----------------------------------------------------------------------------
\* Every id and every Device UID that the firmware makes is accepted by its own
\* parser and keeps what it is made from: no command is lost for its id, and
\* app_main does not stop for the UID of its board.
MadeIdentifiersUsable == Identifiers!GeneratedIdsUsable /\ Identifiers!DeviceUidsUsable

\* The Device UID parser accepts exactly the form that is documented.
ParserIsExact == Identifiers!ParserIsExact

\* An allocation that fails leaves neither a partial JSON text nor lost memory.
FailureLeavesNothing == Json!HeapIsGivenBack /\ Json!CompleteOrNothing

\* The assets of a successful run flash what was built.
Flashable == Release!Flashable

\* Images that match the manifest are flashed as its build would flash them,
\* unless a later run was cut off right after it had replaced flash_args.
MixtureIsConfined == Release!MixtureIsConfined

\* A wait between two samples is positive and fits the 32 bits it is converted to.
WaitFits == Sampling!WaitFits

\* Samples come late, but the schedule does not drift.
NoDrift == Sampling!NoDrift

\* The number returned says how many samples there are, and why not more.
CountIsHonest == Sampling!CountIsHonest
=============================================================================
