--------------------------- MODULE StandAloneProofs ---------------------------
(***************************************************************************)
(* Proofs about the components that share no state: the block read of the  *)
(* ADC driver, the JSON of events, the identifiers and the release         *)
(* packaging.  Each is first proved of the component alone; the system of  *)
(* all of them runs every component by its own steps.                      *)
(***************************************************************************)
EXTENDS MCStandAlone, SequenceTheorems, WellFoundedInduction, TLAPS

-----------------------------------------------------------------------------
(* Each component runs as it does alone.                                   *)

LEMMA RunsSampling == Spec => Sampling!Spec
<1>1. Init => Sampling!Init
  BY DEF Init
<1>2. [Next]_vars => [Sampling!Next]_Sampling!vars
  BY DEF Next, vars, IdentifiersRun, JsonRuns, ReleaseRuns, SamplingRuns,
         samplingVars, Sampling!vars, Sampling!history
<1> QED
  BY <1>1, <1>2, PTL DEF Spec, Sampling!Spec

LEMMA RunsJson == Spec => Json!Spec
<1>1. Init => Json!Init
  BY DEF Init
<1>2. [Next]_vars => [Json!Next]_Json!vars
  BY DEF Next, vars, IdentifiersRun, JsonRuns, ReleaseRuns, SamplingRuns,
         jsonVars, Json!vars, Json!heap
<1> QED
  BY <1>1, <1>2, PTL DEF Spec, Json!Spec

-----------------------------------------------------------------------------
(* The block read, for every valid sample rate, every number of samples    *)
(* and all durations of conversions and overruns of waits.                 *)

\* When the conversion after n samples is due.
Due(n) == n * Sampling!Period

\* The schedule is n periods ahead after n samples, and never later than the
\* clock by more than a period.
ScheduleInv ==
  /\ next = Due(stored)
  /\ pc = "read" => now >= next
  /\ pc = "pace" => now + Sampling!Period >= next

\* There are as many conversions as samples, and a failed one at the end.
CountInv ==
  /\ pc = "read" => ~failed /\ stored < room
  /\ pc = "pace" => ~failed
  /\ Len(begun) = IF failed THEN stored + 1 ELSE stored
  /\ pc = "returned" => failed \/ stored = room

\* The clock is where the last conversion or the wait after it has left it.
ClockInv ==
  /\ pc = "pace" => stored > 0 /\ now = ended[stored]
  /\ pc = "read" /\ stored > 0 =>
       \E overrun \in Overruns :
         now = overrun + (IF ended[stored] < Due(stored) THEN Due(stored) ELSE ended[stored])

SamplingInv == Sampling!TypeOK /\ ScheduleInv /\ CountInv /\ ClockInv /\ Sampling!NeverEarly /\ Sampling!NoDrift

-----------------------------------------------------------------------------
\* The period of a valid rate, and the schedule it makes.
LEMMA DueSchedule ==
  /\ Sampling!Period \in Nat
  /\ Due(0) = 0
  /\ \A n \in Nat : Due(n) \in Nat /\ Due(n + 1) = Due(n) + Sampling!Period
<1>1. Sampling!Period \in Nat
  <2>1. \A m \in Nat, r \in Nat \ {0} : m \div r \in Nat
    OBVIOUS
  <2>2. Sampling!Million \in Nat
    BY SMT DEF Sampling!Million
  <2>3. Rate \in Nat \ {0}
    BY <2>2, SamplingAssumption DEF Sampling!ValidRate
  <2> QED
    BY <2>1, <2>2, <2>3 DEF Sampling!Period
<1> HIDE DEF Sampling!Period
<1>2. \A p \in Nat, n \in Nat :
        n * p \in Nat /\ 0 * p = 0 /\ (n + 1) * p = n * p + p
  OBVIOUS
<1> QED
  BY <1>1, <1>2 DEF Due

\* A call begins with the schedule at the clock.
LEMMA InitSampling == Sampling!Init => SamplingInv
<1> SUFFICES ASSUME Sampling!Init PROVE SamplingInv
  OBVIOUS
<1>1. Sampling!TypeOK
  <2>1. begun \in Seq(Nat) /\ ended \in Seq(Nat) /\ Len(begun) = Len(ended)
    BY EmptySeq DEF Sampling!Init
  <2>2. pc \in {"read", "pace", "returned"} /\ room \in 0 .. MaxCount /\ stored \in 0 .. room
    BY SamplingAssumption DEF Sampling!Init, Sampling!Loop
  <2> QED
    BY <2>1, <2>2 DEF Sampling!Init, Sampling!TypeOK
<1>2. ScheduleInv /\ CountInv /\ ClockInv
  BY DueSchedule, SamplingAssumption DEF Sampling!Init, ScheduleInv, CountInv, ClockInv, Sampling!Loop
<1>3. Sampling!NeverEarly /\ Sampling!NoDrift
  BY DEF Sampling!Init, Sampling!NeverEarly, Sampling!NoDrift
<1> QED
  BY <1>1, <1>2, <1>3 DEF SamplingInv

\* What a conversion, failed or not, adds to the history: it begins no earlier
\* than it is due and no later than the schedule and its predecessor demand.
LEMMA ConversionKeeps ==
  ASSUME SamplingInv, pc = "read", NEW duration \in Durations,
         now' = now + duration, begun' = Append(begun, now), ended' = Append(ended, now')
  PROVE  /\ now' \in Nat
         /\ begun' \in Seq(Nat) /\ ended' \in Seq(Nat)
         /\ Len(begun') = stored + 1 /\ Len(ended') = stored + 1
         /\ ended'[stored + 1] = now'
         /\ Sampling!NeverEarly' /\ Sampling!NoDrift'
<1>1. /\ now \in Nat /\ now' \in Nat /\ stored \in Nat
      /\ begun \in Seq(Nat) /\ ended \in Seq(Nat)
      /\ Len(begun) = stored /\ Len(ended) = stored
  BY SamplingAssumption, LenProperties DEF SamplingInv, Sampling!TypeOK, CountInv
<1>2. /\ begun' \in Seq(Nat) /\ ended' \in Seq(Nat)
      /\ Len(begun') = stored + 1 /\ Len(ended') = stored + 1
      /\ DOMAIN begun' = 1 .. stored + 1
      /\ begun'[stored + 1] = now /\ ended'[stored + 1] = now'
      /\ \A k \in 1 .. stored : begun'[k] = begun[k] /\ ended'[k] = ended[k]
  BY <1>1, AppendProperties, LenProperties
<1>3. DOMAIN begun = 1 .. stored
  BY <1>1, LenProperties
<1>4. now >= Due(stored)
  BY DEF SamplingInv, ScheduleInv
<1>5. Sampling!NeverEarly'
  <2> SUFFICES ASSUME NEW k \in 1 .. stored + 1
               PROVE  begun'[k] >= (k - 1) * Sampling!Period
    BY <1>2 DEF Sampling!NeverEarly, Sampling!Period
  <2>1. CASE k \in 1 .. stored
    BY <2>1, <1>2, <1>3 DEF SamplingInv, Sampling!NeverEarly
  <2>2. CASE k = stored + 1
    BY <2>2, <1>1, <1>2, <1>4 DEF Due
  <2> QED
    BY <2>1, <2>2, <1>1
<1>6. Sampling!NoDrift'
  <2> SUFFICES ASSUME NEW k \in 1 .. stored + 1, k > 1
               PROVE  \E overrun \in Overruns :
                        begun'[k] = overrun + (IF ended'[k - 1] < Due(k - 1)
                                               THEN Due(k - 1) ELSE ended'[k - 1])
    BY <1>2 DEF Sampling!NoDrift, Sampling!Period, Due
  <2>1. k - 1 \in 1 .. stored /\ ended'[k - 1] = ended[k - 1]
    BY <1>1, <1>2
  <2>2. CASE k \in 1 .. stored
    BY <2>1, <2>2, <1>2, <1>3 DEF SamplingInv, Sampling!NoDrift, Due
  <2>3. CASE k = stored + 1
    <3>1. stored > 0 /\ k - 1 = stored
      BY <2>3, <1>1
    <3>2. PICK overrun \in Overruns :
            now = overrun + (IF ended[stored] < Due(stored) THEN Due(stored) ELSE ended[stored])
      BY <3>1 DEF SamplingInv, ClockInv
    <3>3. begun'[k] = now /\ ended'[k - 1] = ended[stored]
      BY <2>1, <2>3, <3>1, <1>2
    <3> QED
      BY <3>1, <3>2, <3>3
  <2> QED
    BY <2>2, <2>3, <1>1, SMTT(30)
<1> QED
  BY <1>1, <1>2, <1>5, <1>6

\* Every step of the block read keeps the invariant.
LEMMA StepSampling == SamplingInv /\ [Sampling!Next]_Sampling!vars => SamplingInv'
<1> SUFFICES ASSUME SamplingInv, [Sampling!Next]_Sampling!vars PROVE SamplingInv'
  OBVIOUS
<1>1. /\ stored \in Nat /\ room \in 0 .. MaxCount /\ now \in Nat /\ next \in Nat
      /\ stored <= room /\ Len(begun) \in Nat
  BY SamplingAssumption, LenProperties DEF SamplingInv, Sampling!TypeOK
<1>2. ASSUME NEW duration \in Durations, Sampling!Convert(duration)
      PROVE  SamplingInv'
  <2>1. /\ pc = "read" /\ pc' = "pace" /\ now' = now + duration
        /\ begun' = Append(begun, now) /\ ended' = Append(ended, now')
        /\ stored' = stored + 1 /\ next' = next + Sampling!Period
        /\ UNCHANGED <<room, failed>>
    BY <1>2 DEF Sampling!Convert, Sampling!Store, Sampling!Schedule
  <2>2. /\ now' \in Nat /\ begun' \in Seq(Nat) /\ ended' \in Seq(Nat)
        /\ Len(begun') = stored' /\ Len(ended') = stored' /\ ended'[stored'] = now'
        /\ Sampling!NeverEarly' /\ Sampling!NoDrift'
    BY <2>1, ConversionKeeps
  <2>3. stored < room /\ ~failed
    BY <2>1 DEF SamplingInv, CountInv
  <2>4. Sampling!TypeOK'
    BY <1>1, <2>1, <2>2, <2>3, DueSchedule DEF SamplingInv, Sampling!TypeOK
  <2>5. ScheduleInv'
    <3>1. now >= next /\ next = Due(stored) /\ duration \in Nat
      BY <2>1, SamplingAssumption DEF SamplingInv, ScheduleInv
    <3> QED
      <4>1. next + Sampling!Period = Due(stored + 1)
        BY <1>1, <3>1, DueSchedule
      <4>2. Sampling!Period \in Nat
        BY DueSchedule
      <4>3. now' + Sampling!Period >= next'
        BY <1>1, <2>1, <3>1, <4>2, SMTT(30)
      <4> QED
        BY <2>1, <4>1, <4>3 DEF ScheduleInv, Due, Sampling!Period
  <2>6. CountInv' /\ ClockInv'
    BY <1>1, <2>1, <2>2, <2>3 DEF CountInv, ClockInv
  <2> QED
    BY <2>2, <2>4, <2>5, <2>6 DEF SamplingInv
<1>3. ASSUME NEW duration \in Durations, Sampling!FailedConversion(duration)
      PROVE  SamplingInv'
  <2>1. /\ pc = "read" /\ pc' = "returned" /\ now' = now + duration /\ failed' = TRUE
        /\ begun' = Append(begun, now) /\ ended' = Append(ended, now')
        /\ UNCHANGED <<room, stored, next>>
    BY <1>3 DEF Sampling!FailedConversion
  <2>2. /\ now' \in Nat /\ begun' \in Seq(Nat) /\ ended' \in Seq(Nat)
        /\ Len(begun') = stored + 1 /\ Len(ended') = stored + 1
        /\ Sampling!NeverEarly' /\ Sampling!NoDrift'
    BY <2>1, ConversionKeeps
  <2>3. Sampling!TypeOK'
    BY <1>1, <2>1, <2>2 DEF SamplingInv, Sampling!TypeOK
  <2>4. ScheduleInv' /\ CountInv' /\ ClockInv'
    BY <2>1, <2>2 DEF SamplingInv, ScheduleInv, CountInv, ClockInv, Due, Sampling!Period
  <2> QED
    BY <2>2, <2>3, <2>4 DEF SamplingInv
<1>4. ASSUME NEW overrun \in Overruns, Sampling!Pace(overrun)
      PROVE  SamplingInv'
  <2>1. /\ pc = "pace" /\ pc' = Sampling!Loop
        /\ now' = overrun + (IF stored < room /\ next - now > 0 THEN next ELSE now)
        /\ UNCHANGED <<room, stored, next, begun, ended, failed>>
    BY <1>4 DEF Sampling!Pace, Sampling!Waits, Sampling!Wait, Sampling!history
  <2>2. overrun \in Nat /\ now' \in Nat /\ ~failed
    BY <1>1, <2>1, SamplingAssumption DEF SamplingInv, CountInv
  <2>3. pc' \in {"read", "returned"} /\ (pc' = "read" <=> stored < room)
    BY <2>1 DEF Sampling!Loop
  <2>4. Sampling!TypeOK'
    BY <2>1, <2>2, <2>3 DEF SamplingInv, Sampling!TypeOK
  <2>5. ScheduleInv'
    BY <1>1, <2>1, <2>2, <2>3 DEF SamplingInv, ScheduleInv, Due, Sampling!Period
  <2>6. CountInv'
    BY <1>1, <2>1, <2>2, <2>3 DEF SamplingInv, CountInv
  <2>7. ClockInv'
    <3>1. next = Due(stored) /\ now = ended[stored]
      BY <2>1 DEF SamplingInv, ScheduleInv, ClockInv
    <3>2. stored < room =>
            now' = overrun + (IF ended[stored] < Due(stored) THEN Due(stored) ELSE ended[stored])
      BY <1>1, <2>1, <3>1
    <3> QED
      BY <2>1, <2>3, <3>2 DEF ClockInv, Due, Sampling!Period
  <2>8. Sampling!NeverEarly' /\ Sampling!NoDrift'
    BY <2>1 DEF SamplingInv, Sampling!NeverEarly, Sampling!NoDrift, Sampling!Period
  <2> QED
    BY <2>4, <2>5, <2>6, <2>7, <2>8 DEF SamplingInv
<1>5. ASSUME UNCHANGED Sampling!vars
      PROVE  SamplingInv'
  BY <1>5
     DEF Sampling!vars, Sampling!history, SamplingInv, Sampling!TypeOK, ScheduleInv, CountInv,
         ClockInv, Sampling!NeverEarly, Sampling!NoDrift, Due, Sampling!Period
<1> QED
  BY <1>2, <1>3, <1>4, <1>5 DEF Sampling!Next

\* The invariant of the block read.
LEMMA SamplingInvariance == Sampling!Spec => []SamplingInv
BY InitSampling, StepSampling, PTL DEF Sampling!Spec

\* No sample is taken before it is due, at any valid rate.
THEOREM SamplesNeverEarly == Spec => []Sampling!NeverEarly
<1>1. SamplingInv => Sampling!NeverEarly
  BY DEF SamplingInv
<1> QED
  BY <1>1, SamplingInvariance, RunsSampling, PTL

\* Late samples do not move the schedule.
THEOREM SamplesDoNotDrift == Spec => []NoDrift
<1>1. SamplingInv => NoDrift
  BY DEF SamplingInv, NoDrift
<1> QED
  BY <1>1, SamplingInvariance, RunsSampling, PTL

\* A wait is never negative, and at most one period.
THEOREM WaitsFit == Spec => []WaitFits
<1>1. SamplingInv => WaitFits
  <2> SUFFICES ASSUME SamplingInv, pc = "pace", Sampling!Waits
               PROVE  Sampling!Wait \in 1 .. Sampling!Period
    BY DEF WaitFits, Sampling!WaitFits
  <2>1. /\ next \in Nat /\ now \in Nat /\ now + Sampling!Period >= next
        /\ Sampling!Period \in Nat
    BY DueSchedule DEF SamplingInv, Sampling!TypeOK, ScheduleInv
  <2>2. next - now > 0
    BY DEF Sampling!Waits, Sampling!Wait
  <2> HIDE DEF Sampling!Period
  <2> QED
    BY <2>1, <2>2 DEF Sampling!Wait
<1> QED
  BY <1>1, SamplingInvariance, RunsSampling, PTL

\* The number returned counts the samples stored.
THEOREM CountsAreHonest == Spec => []CountIsHonest
<1>1. SamplingInv => CountIsHonest
  BY LenProperties, SamplingAssumption
     DEF SamplingInv, Sampling!TypeOK, CountInv, CountIsHonest, Sampling!CountIsHonest
<1> QED
  BY <1>1, SamplingInvariance, RunsSampling, PTL

\* The buffer never holds more samples than it has room for, and every
\* conversion begun has an end.
THEOREM SamplingTypeCorrect == Spec => []Sampling!TypeOK
<1>1. SamplingInv => Sampling!TypeOK
  BY DEF SamplingInv
<1> QED
  BY <1>1, SamplingInvariance, RunsSampling, PTL

-----------------------------------------------------------------------------
(* The JSON of events, for every size of the heap.                         *)

MemberName ==
  {"event_id", "event_type", "occurred_at_unix_ms", "originating_device", "reason"}

\* The object under construction has the first members of its event.
Partial ==
  /\ members \in Seq(MemberName)
  /\ Len(members) <= Len(Json!MembersOf(event))
  /\ \A i \in 1 .. Len(members) : members[i] = Json!MembersOf(event)[i]

JsonInv ==
  /\ free \in Nat /\ held \in Nat /\ others \in Nat
  /\ free + held + others = HeapSize
  /\ jsonStep \in {"idle", "create", "add"}
  /\ jsonStep # "idle" => event \in Json!EventType
  /\ jsonStep # "add" => held = 0 /\ members = <<>>
  /\ jsonStep = "idle" => result = Json!Nothing \/ result = Json!MembersOf(event)
  /\ jsonStep = "add" => Partial

LEMMA EventMembers ==
  ASSUME NEW type \in Json!EventType
  PROVE  Json!MembersOf(type) \in Seq(MemberName) /\ Len(Json!MembersOf(type)) \in Nat \ {0}
<1> DEFINE common == <<"event_id", "event_type", "occurred_at_unix_ms", "originating_device">>
<1>1. common \in Seq(MemberName) /\ Len(common) = 4
  BY DEF MemberName
<1>2. <<"reason">> \in Seq(MemberName) /\ Len(<<"reason">>) = 1
  BY DEF MemberName
<1>3. Json!Reason(type) \in Seq(MemberName) /\ Len(Json!Reason(type)) \in Nat
  BY <1>2, EmptySeq DEF Json!Reason
<1>4. Json!MembersOf(type) = common \o Json!Reason(type)
  BY DEF Json!MembersOf
<1> HIDE DEF common
<1> QED
  BY <1>1, <1>3, <1>4, ConcatProperties

LEMMA InitJson == Json!Init => JsonInv
BY HeapAssumption DEF Json!Init, JsonInv

\* Every return gives the cells back.
LEMMA ReturnGivesBack ==
  ASSUME JsonInv, NEW value, Json!Return(value),
         value = Json!Nothing \/ value = Json!MembersOf(event)
  PROVE  JsonInv'
BY DEF JsonInv, Json!Return

LEMMA StepJson == JsonInv /\ [Json!Next]_Json!vars => JsonInv'
<1> SUFFICES ASSUME JsonInv, [Json!Next]_Json!vars PROVE JsonInv'
  OBVIOUS
<1>1. ASSUME NEW type \in Json!EventType, Json!Serialize(type) PROVE JsonInv'
  BY <1>1 DEF JsonInv, Json!Serialize, Json!heap
<1>2. CASE Json!Create
  <2>1. CASE Json!Allocate /\ jsonStep' = "add" /\ UNCHANGED <<event, members, result>>
    <3>1. Partial'
      <4>1. members' = <<>> /\ event' \in Json!EventType
        BY <1>2, <2>1 DEF JsonInv, Json!Create
      <4> QED
        BY <4>1, EventMembers, EmptySeq DEF Partial
    <3> QED
      BY <1>2, <2>1, <3>1 DEF JsonInv, Json!Allocate, Json!Create
  <2>2. CASE Json!Return(Json!Nothing)
    BY <2>2, ReturnGivesBack
  <2> QED
    BY <1>2, <2>1, <2>2 DEF Json!Create
<1>3. CASE Json!AddMember
  <2> DEFINE all == Json!MembersOf(event)
             n   == Len(members)
  <2>1. /\ jsonStep = "add" /\ event \in Json!EventType
        /\ n < Len(all) /\ n \in Nat
        /\ all \in Seq(MemberName) /\ Len(all) \in Nat /\ members \in Seq(MemberName)
    BY <1>3, EventMembers, LenProperties DEF Json!AddMember, Json!Incomplete, JsonInv, Partial
  <2>2. CASE /\ Json!Allocate
             /\ members' = Append(members, all[n + 1])
             /\ UNCHANGED <<event, jsonStep, result>>
    <3>1. n + 1 \in 1 .. Len(all) /\ all[n + 1] \in MemberName
      BY <2>1, ElementOfSeq
    <3>2. /\ members' \in Seq(MemberName) /\ Len(members') = n + 1
          /\ members'[n + 1] = all[n + 1]
          /\ \A i \in 1 .. n : members'[i] = members[i]
      BY <2>1, <2>2, <3>1, AppendProperties
    <3>3. Partial'
      <4>1. ASSUME NEW i \in 1 .. n + 1 PROVE members'[i] = all[i]
        <5>1. i \in 1 .. n \/ i = n + 1
          BY <2>1
        <5> QED
          BY <2>1, <3>2, <5>1 DEF JsonInv, Partial
      <4> QED
        BY <2>1, <2>2, <3>1, <3>2, <4>1 DEF Partial
    <3> QED
      BY <2>1, <2>2, <3>3 DEF JsonInv, Json!Allocate
  <2>3. CASE Json!Return(Json!Nothing)
    BY <2>3, ReturnGivesBack
  <2> QED
    BY <1>3, <2>2, <2>3 DEF Json!AddMember
<1>4. CASE Json!PrintText
  <2>1. jsonStep = "add" /\ event \in Json!EventType /\ ~Json!Incomplete /\ Partial
    BY <1>4 DEF Json!PrintText, JsonInv
  <2>2. Json!MembersOf(event) \in Seq(MemberName) /\ Len(Json!MembersOf(event)) = Len(members)
    BY <2>1, EventMembers, LenProperties DEF Json!Incomplete, Partial
  <2>3. members = Json!MembersOf(event)
    BY <2>1, <2>2, SeqEqual DEF Partial
  <2> QED
    BY <1>4, <2>3, ReturnGivesBack DEF Json!PrintText
<1>5. CASE Json!OthersRun
  BY <1>5 DEF JsonInv, Partial, Json!OthersRun
<1>6. CASE UNCHANGED Json!vars
  BY <1>6 DEF JsonInv, Partial, Json!vars, Json!heap
<1> QED
  BY <1>1, <1>2, <1>3, <1>4, <1>5, <1>6 DEF Json!Next

\* The invariant of the JSON of events.
LEMMA JsonInvariance == Json!Spec => []JsonInv
BY InitJson, StepJson, PTL DEF Json!Spec

\* Wherever serialize() runs out of memory, on a heap of any size that the rest
\* of the firmware uses too, it gives back what it held and returns no text.
THEOREM FailureAlwaysLeavesNothing == Spec => []FailureLeavesNothing
<1>1. JsonInv => FailureLeavesNothing
  BY DEF JsonInv, FailureLeavesNothing, Json!HeapIsGivenBack, Json!CompleteOrNothing
<1> QED
  BY <1>1, JsonInvariance, RunsJson, PTL

-----------------------------------------------------------------------------
(* The identifiers.                                                        *)

LEMMA LeastNatural ==
  ASSUME NEW T, T \subseteq Nat, T # {}
  PROVE  \E x \in T : \A y \in T : x <= y
<1> DEFINE Below == OpToRel(<, Nat)
<1>1. IsWellFoundedOn(Below, Nat)
  BY NatLessThanWellFounded
<1>2. ASSUME NEW x \in Nat, NEW y \in Nat, y < x
      PROVE  <<y, x>> \in Below
  BY <1>2 DEF OpToRel
<1> HIDE DEF Below
<1>3. PICK x \in T : \A y \in T : ~(<<y, x>> \in Below)
  BY <1>1, WFMin
<1>4. ASSUME NEW y \in T PROVE x <= y
  <2>1. x \in Nat /\ y \in Nat
    OBVIOUS
  <2>2. ~(y < x)
    BY <1>2, <1>3, <2>1
  <2> QED
    BY <2>1, <2>2
<1> QED
  BY <1>4

LEMMA GreatestBelow ==
  ASSUME NEW n \in Nat, NEW T, T \subseteq 1 .. n, T # {}
  PROVE  \E x \in T : \A y \in T : x >= y
<1> DEFINE U == {n - x : x \in T}
<1>1. U \subseteq Nat /\ U # {}
  <2>1. PICK x \in T : TRUE
    OBVIOUS
  <2>2. n - x \in U
    BY <2>1
  <2>3. \A y \in T : n - y \in Nat
    OBVIOUS
  <2> QED
    BY <2>2, <2>3
<1>2. PICK u \in U : \A v \in U : u <= v
  BY <1>1, LeastNatural
<1>3. PICK x \in T : u = n - x
  BY <1>2
<1>4. ASSUME NEW y \in T PROVE x >= y
  <2>1. n - x <= n - y
    BY <1>2, <1>3
  <2> QED
    BY <2>1
<1> QED
  BY <1>4

\* Where the parser finds the last dash.
LEMMA LastDash ==
  ASSUME NEW S, NEW text \in Seq(S)
  PROVE  LET separator == Identifiers!SelectLastInSeq(text, LAMBDA c : c = "-")
         IN  \/ separator = 0 /\ \A i \in 1 .. Len(text) : text[i] # "-"
             \/ /\ separator \in 1 .. Len(text)
                /\ text[separator] = "-"
                /\ \A i \in separator + 1 .. Len(text) : text[i] # "-"
<1> DEFINE dashes == {i \in 1 .. Len(text) : text[i] = "-"}
           separator == Identifiers!SelectLastInSeq(text, LAMBDA c : c = "-")
<1> SUFFICES \/ separator = 0 /\ \A i \in 1 .. Len(text) : text[i] # "-"
             \/ /\ separator \in 1 .. Len(text)
                /\ text[separator] = "-"
                /\ \A i \in separator + 1 .. Len(text) : text[i] # "-"
  OBVIOUS
<1>1. separator = IF dashes # {} THEN Identifiers!Max(dashes) ELSE 0
  BY DEF Identifiers!SelectLastInSeq
<1>2. CASE dashes = {}
  BY <1>1, <1>2
<1>3. CASE dashes # {}
  <2>1. Len(text) \in Nat
    BY LenProperties
  <2>2. \E x \in dashes : \A y \in dashes : x >= y
    BY <1>3, <2>1, GreatestBelow
  <2>3. separator \in dashes /\ \A y \in dashes : separator >= y
    BY <1>1, <1>3, <2>2 DEF Identifiers!Max
  <2> HIDE DEF separator
  <2> QED
    BY <2>1, <2>3
<1> QED
  BY <1>2, <1>3

\* A dash is no character of the type nor a digit.
LEMMA HexDigits ==
  /\ DOMAIN Identifiers!LowerHex = 1 .. 16 /\ DOMAIN Identifiers!UpperHex = 1 .. 16
  /\ \A d \in 1 .. 16 : Identifiers!LowerHex[d] # "-" /\ Identifiers!UpperHex[d] # "-"
BY DEF Identifiers!LowerHex, Identifiers!UpperHex

LEMMA DashIsNoCharacter ==
  ~Identifiers!IsHexadecimal("-") /\ ~Identifiers!IsDeviceTypeCharacter("-")
BY HexDigits DEF Identifiers!IsHexadecimal, Identifiers!IsDeviceTypeCharacter, Identifiers!ToSet

\* The form of a Device UID: a type, the dash at n, and the hexadecimal digits.
DocumentedForm(text, n, hexLength) ==
  LET type == SubSeq(text, 1, n - 1)
      hex  == SubSeq(text, n + 1, Len(text))
  IN  /\ text[n] = "-"
      /\ type # <<>> /\ \A i \in DOMAIN type : Identifiers!IsDeviceTypeCharacter(type[i])
      /\ Len(hex) = hexLength /\ \A i \in DOMAIN hex : Identifiers!IsHexadecimal(hex[i])

LEMMA FormByPositions ==
  ASSUME NEW S, NEW text \in Seq(S), NEW n \in 1 .. Len(text), NEW hexLength
  PROVE  DocumentedForm(text, n, hexLength) <=>
           /\ text[n] = "-"
           /\ n > 1 /\ \A i \in 1 .. n - 1 : Identifiers!IsDeviceTypeCharacter(text[i])
           /\ Len(text) - n = hexLength
           /\ \A i \in n + 1 .. Len(text) : Identifiers!IsHexadecimal(text[i])
<1> DEFINE type == SubSeq(text, 1, n - 1)
           hex  == SubSeq(text, n + 1, Len(text))
<1>1. Len(text) \in Nat /\ \A i \in 1 .. Len(text) : text[i] \in S
  BY LenProperties, ElementOfSeq
<1>2. /\ type \in Seq(S) /\ Len(type) = n - 1
      /\ \A i \in 1 .. n - 1 : type[i] = text[i]
  BY <1>1, SubSeqProperties
<1>3. /\ hex \in Seq(S) /\ Len(hex) = Len(text) - n
      /\ \A i \in 1 .. Len(text) - n : hex[i] = text[n + i]
  BY <1>1, SubSeqProperties
<1>4. DOMAIN type = 1 .. n - 1 /\ DOMAIN hex = 1 .. Len(text) - n
  BY <1>2, <1>3, LenProperties
<1>5. type # <<>> <=> n > 1
  BY <1>1, <1>2, EmptySeq
<1> HIDE DEF type, hex
<1>6. (\A i \in DOMAIN type : Identifiers!IsDeviceTypeCharacter(type[i]))
        <=> \A i \in 1 .. n - 1 : Identifiers!IsDeviceTypeCharacter(text[i])
  BY <1>2, <1>4
<1>7. (\A i \in DOMAIN hex : Identifiers!IsHexadecimal(hex[i]))
        <=> \A i \in n + 1 .. Len(text) : Identifiers!IsHexadecimal(text[i])
  <2>1. \A i \in n + 1 .. Len(text) : i - n \in 1 .. Len(text) - n /\ n + (i - n) = i
    BY <1>1
  <2>2. \A i \in 1 .. Len(text) - n : n + i \in n + 1 .. Len(text)
    BY <1>1
  <2>3. ASSUME \A i \in DOMAIN hex : Identifiers!IsHexadecimal(hex[i]),
               NEW i \in n + 1 .. Len(text)
        PROVE  Identifiers!IsHexadecimal(text[i])
    <3>1. hex[i - n] = text[i]
      BY <1>3, <2>1
    <3> QED
      BY <1>4, <2>1, <2>3, <3>1
  <2> QED
    BY <1>3, <1>4, <2>2, <2>3
<1> QED
  BY <1>3, <1>5, <1>6, <1>7 DEF DocumentedForm, type, hex

\* The parser looks for the last dash, and a text of the documented form has
\* only one.
LEMMA ParserAcceptsForm ==
  ASSUME NEW S, NEW text \in Seq(S), NEW hexLength \in Nat
  PROVE  Identifiers!IsDeviceUid(text, hexLength)
           <=> \E n \in 1 .. Len(text) : DocumentedForm(text, n, hexLength)
<1> DEFINE separator == Identifiers!SelectLastInSeq(text, LAMBDA c : c = "-")
<1>1. \/ separator = 0 /\ \A i \in 1 .. Len(text) : text[i] # "-"
      \/ /\ separator \in 1 .. Len(text)
         /\ text[separator] = "-"
         /\ \A i \in separator + 1 .. Len(text) : text[i] # "-"
  BY LastDash
<1>2. Identifiers!IsDeviceUid(text, hexLength) <=>
        /\ separator > 1
        /\ Len(text) = separator + hexLength
        /\ \A i \in 1 .. separator - 1 : Identifiers!IsDeviceTypeCharacter(text[i])
        /\ \A i \in separator + 1 .. Len(text) : Identifiers!IsHexadecimal(text[i])
  BY DEF Identifiers!IsDeviceUid
<1> HIDE DEF separator
<1>3. Len(text) \in Nat
  BY LenProperties
<1>4. ASSUME Identifiers!IsDeviceUid(text, hexLength)
      PROVE  \E n \in 1 .. Len(text) : DocumentedForm(text, n, hexLength)
  <2>1. separator \in 1 .. Len(text)
    BY <1>1, <1>2, <1>4
  <2>2. Len(text) - separator = hexLength
    BY <1>2, <1>3, <1>4, <2>1
  <2>3. DocumentedForm(text, separator, hexLength)
    BY <1>1, <1>2, <1>4, <2>1, <2>2, FormByPositions
  <2> QED
    BY <2>1, <2>3
<1>5. ASSUME NEW n \in 1 .. Len(text), DocumentedForm(text, n, hexLength)
      PROVE  Identifiers!IsDeviceUid(text, hexLength)
  <2>1. /\ text[n] = "-"
        /\ n > 1 /\ \A i \in 1 .. n - 1 : Identifiers!IsDeviceTypeCharacter(text[i])
        /\ Len(text) - n = hexLength
        /\ \A i \in n + 1 .. Len(text) : Identifiers!IsHexadecimal(text[i])
    BY <1>5, FormByPositions
  <2>2. separator = n
    <3>1. separator \in 1 .. Len(text)
      BY <1>1, <2>1
    <3>2. ~(separator > n)
      BY <1>1, <2>1, <3>1, DashIsNoCharacter
    <3>3. ~(separator < n)
      BY <1>1, <1>3, <2>1, <3>1
    <3> QED
      BY <3>1, <3>2, <3>3
  <2> QED
    BY <1>2, <1>3, <2>1, <2>2
<1> QED
  BY <1>4, <1>5

-----------------------------------------------------------------------------
\* What is made, and what the parser answers once it has been asked.
IdentifiersInv ==
  /\ input.kind = "random" =>
       /\ input.bytes \in [0 .. 15 -> 0 .. 255]
       /\ LET id == Identifiers!FromBytes(Identifiers!Marked(input.bytes))
          IN  output \in {<<"none">>, Identifiers!Parsed(id, Identifiers!IsUuid(id))}
  /\ input.kind = "mac" =>
       /\ input.bytes \in [0 .. 5 -> 0 .. 255]
       /\ LET uid == Identifiers!DeviceUidString(input.bytes)
          IN  output \in {<<"none">>, Identifiers!Parsed(uid, Identifiers!IsDeviceUid(uid, 12))}
  /\ input.kind = "text" =>
       /\ input.text \in Seq(Letter)
       /\ output \in {<<"none">>,
                      Identifiers!Parsed(input.text, Identifiers!IsDeviceUid(input.text, HexLength))}

LEMMA BytesAreBytes ==
  ASSUME NEW n, NEW last, last = n - 1
  PROVE  Identifiers!Bytes(n) \subseteq [0 .. last -> 0 .. 255]
<1> SUFFICES ASSUME NEW bytes \in Identifiers!Bytes(n) PROVE bytes \in [0 .. n - 1 -> 0 .. 255]
  OBVIOUS
<1>1. PICK i \in 0 .. n - 1, j \in 0 .. n - 1, a \in Byte, b \in Byte :
        bytes = [k \in 0 .. n - 1 |-> IF k = i THEN a ELSE IF k = j THEN b ELSE 0]
  BY DEF Identifiers!Bytes
<1>2. a \in 0 .. 255 /\ b \in 0 .. 255 /\ 0 \in 0 .. 255
  BY IdentifiersAssumption
<1> QED
  BY <1>1, <1>2

LEMMA TextsAreSequences == Identifiers!BoundedSeq(Letter, MaxLength) \subseteq Seq(Letter)
<1> SUFFICES ASSUME NEW m \in 0 .. MaxLength, NEW text \in [1 .. m -> Letter]
             PROVE  text \in Seq(Letter)
  BY DEF Identifiers!BoundedSeq, Identifiers!SeqOf
<1> QED
  BY SeqDef

LEMMA InitIdentifiers == Init => IdentifiersInv
<1> SUFFICES ASSUME Init PROVE IdentifiersInv
  OBVIOUS
<1>1. CASE input = [kind |-> "none"]
  BY <1>1 DEF IdentifiersInv
<1>2. CASE Identifiers!Init
  <2>1. output = <<"none">>
    BY <1>2, SMTT(30) DEF Identifiers!Init
  <2>2. CASE input \in [kind: {"random"}, bytes: Identifiers!Bytes(16)]
    <3>1. input.kind = "random" /\ input.bytes \in Identifiers!Bytes(16)
      BY <2>2, SMTT(30)
    <3>2. input.bytes \in [0 .. 15 -> 0 .. 255]
      <4>1. 15 = 16 - 1
        OBVIOUS
      <4>2. Identifiers!Bytes(16) \subseteq [0 .. 15 -> 0 .. 255]
        BY <4>1, BytesAreBytes, ZenonT(60)
      <4> QED
        BY <3>1, <4>2
    <3> QED
      BY <2>1, <3>1, <3>2 DEF IdentifiersInv
  <2>3. CASE input \in [kind: {"mac"}, bytes: Identifiers!Bytes(6)]
    <3>1. input.kind = "mac" /\ input.bytes \in Identifiers!Bytes(6)
      BY <2>3
    <3>2. input.bytes \in [0 .. 5 -> 0 .. 255]
      <4>1. 5 = 6 - 1
        OBVIOUS
      <4>2. Identifiers!Bytes(6) \subseteq [0 .. 5 -> 0 .. 255]
        BY <4>1, BytesAreBytes, ZenonT(60)
      <4> QED
        BY <3>1, <4>2
    <3> QED
      BY <2>1, <3>1, <3>2 DEF IdentifiersInv
  <2>4. CASE input \in [kind: {"text"}, text: Identifiers!BoundedSeq(Letter, MaxLength)]
    BY <2>1, <2>4, TextsAreSequences DEF IdentifiersInv
  <2> QED
    BY <1>2, <2>2, <2>3, <2>4 DEF Identifiers!Init
<1> QED
  BY <1>1, <1>2 DEF Init

LEMMA StepIdentifiers == IdentifiersInv /\ [Next]_vars => IdentifiersInv'
<1> SUFFICES ASSUME IdentifiersInv, [Next]_vars PROVE IdentifiersInv'
  OBVIOUS
<1>1. CASE Identifiers!MakeCommandId
  BY <1>1, ZenonT(60) DEF IdentifiersInv, Identifiers!MakeCommandId
<1>2. CASE Identifiers!MakeDeviceUid
  BY <1>2, SMTT(30) DEF IdentifiersInv, Identifiers!MakeDeviceUid
<1>3. CASE Identifiers!ParseDeviceUid
  BY <1>3, SMTT(30) DEF IdentifiersInv, Identifiers!ParseDeviceUid
<1>4. CASE UNCHANGED identifiersVars
  BY <1>4, ZenonT(60) DEF IdentifiersInv, identifiersVars
<1> QED
  BY <1>1, <1>2, <1>3, <1>4
     DEF Next, vars, IdentifiersRun, JsonRuns, ReleaseRuns, SamplingRuns, Identifiers!Next

\* The invariant of the identifiers.
LEMMA IdentifiersInvariance == Spec => []IdentifiersInv
BY InitIdentifiers, StepIdentifiers, PTL DEF Spec

\* What the parser accepts has a type and a dash, so it is not mistaken for the
\* answer of a parser that refuses.
LEMMA AcceptedIsNotRefused ==
  ASSUME NEW S, NEW text \in Seq(S), NEW hexLength \in Nat, Identifiers!IsDeviceUid(text, hexLength)
  PROVE  text # <<"refused">>
<1>1. PICK n \in 1 .. Len(text) : DocumentedForm(text, n, hexLength)
  BY ParserAcceptsForm
<1>2. n > 1
  BY <1>1, FormByPositions
<1>3. Len(<<"refused">>) = 1
  OBVIOUS
<1>4. Len(text) \in Nat
  BY LenProperties
<1> DEFINE length == Len(text)
<1> HIDE DEF length
<1>5. length \in Nat /\ n \in 1 .. length
  BY <1>4 DEF length
<1>6. length # 1
  BY <1>2, <1>5
<1> QED
  BY <1>3, <1>6 DEF length

\* The Device UID parser accepts exactly the documented form, over any alphabet
\* and for texts of any length.
THEOREM ParserAlwaysExact == Spec => []ParserIsExact
<1>1. IdentifiersInv => ParserIsExact
  <2> SUFFICES ASSUME IdentifiersInv, input.kind = "text", output # <<"none">>
               PROVE  output # <<"refused">> <=>
                        \E n \in 1 .. Len(input.text) : DocumentedForm(input.text, n, HexLength)
    BY DEF ParserIsExact, Identifiers!ParserIsExact, Identifiers!Made, DocumentedForm
  <2>1. input.text \in Seq(Letter) /\ HexLength \in Nat
    BY IdentifiersAssumption DEF IdentifiersInv
  <2>2. output = IF Identifiers!IsDeviceUid(input.text, HexLength)
                 THEN input.text ELSE <<"refused">>
    BY DEF IdentifiersInv, Identifiers!Parsed
  <2>3. output # <<"refused">> <=> Identifiers!IsDeviceUid(input.text, HexLength)
    BY <2>1, <2>2, AcceptedIsNotRefused
  <2> QED
    BY <2>1, <2>3, ParserAcceptsForm
<1> QED
  BY <1>1, IdentifiersInvariance, PTL

-----------------------------------------------------------------------------
\* The digits of a byte, in either case of letters, tell the byte.
LEMMA DigitsAreHexadecimal ==
  \A d \in 0 .. 15 :
    /\ Identifiers!IsHexadecimal(Identifiers!LowerHex[d + 1])
    /\ Identifiers!IsHexadecimal(Identifiers!UpperHex[d + 1])
<1>1. \A d \in 0 .. 15 : d + 1 \in DOMAIN Identifiers!LowerHex /\ d + 1 \in DOMAIN Identifiers!UpperHex
  BY HexDigits
<1> QED
  BY <1>1 DEF Identifiers!IsHexadecimal, Identifiers!ToSet

LEMMA DigitsDiffer ==
  \A d \in 0 .. 15, e \in 0 .. 15 :
    \/ Identifiers!LowerHex[d + 1] \in {Identifiers!LowerHex[e + 1], Identifiers!UpperHex[e + 1]}
    \/ Identifiers!UpperHex[d + 1] \in {Identifiers!LowerHex[e + 1], Identifiers!UpperHex[e + 1]}
    => d = e
BY SMTT(60) DEF Identifiers!LowerHex, Identifiers!UpperHex

LEMMA DigitValues ==
  ASSUME NEW d \in 0 .. 15
  PROVE  /\ Identifiers!DigitValue(Identifiers!LowerHex[d + 1]) = d
         /\ Identifiers!DigitValue(Identifiers!UpperHex[d + 1]) = d
BY DigitsDiffer DEF Identifiers!DigitValue

LEMMA ByteOfDigits ==
  ASSUME NEW b \in 0 .. 255
  PROVE  /\ b \div 16 \in 0 .. 15 /\ b % 16 \in 0 .. 15
         /\ 16 * (b \div 16) + (b % 16) = b
OBVIOUS

\* Where Digits puts the digits of a byte.
HoldsDigits(digits, bytes, k, first, hex) ==
  /\ digits[2 * (k - first) + 1] = hex[bytes[k] \div 16 + 1]
  /\ digits[2 * (k - first) + 2] = hex[(bytes[k] % 16) + 1]

LEMMA DigitsByPosition ==
  ASSUME NEW first \in Nat, NEW last \in Nat, first <= last,
         NEW bytes, NEW hex, NEW k \in first .. last
  PROVE  HoldsDigits(Identifiers!Digits(bytes, first, last, hex), bytes, k, first, hex)
<1> DEFINE i == 2 * (k - first) + 1
<1>1. /\ i \in 1 .. 2 * (last - first + 1) /\ i + 1 \in 1 .. 2 * (last - first + 1)
      /\ first + ((i - 1) \div 2) = k /\ (i - 1) % 2 = 0
      /\ first + ((i + 1 - 1) \div 2) = k /\ (i + 1 - 1) % 2 = 1
      /\ i + 1 = 2 * (k - first) + 2
  OBVIOUS
<1> HIDE DEF i
<1>2. \A p \in 1 .. 2 * (last - first + 1) :
        Identifiers!Digits(bytes, first, last, hex)[p] =
          Identifiers!TwoDigits(bytes[first + ((p - 1) \div 2)], hex)[((p - 1) % 2) + 1]
  BY DEF Identifiers!Digits
<1>3. /\ Identifiers!Digits(bytes, first, last, hex)[i] = Identifiers!TwoDigits(bytes[k], hex)[0 + 1]
      /\ Identifiers!Digits(bytes, first, last, hex)[i + 1] = Identifiers!TwoDigits(bytes[k], hex)[1 + 1]
  BY <1>1, <1>2
<1>4. /\ Identifiers!TwoDigits(bytes[k], hex)[1] = hex[bytes[k] \div 16 + 1]
      /\ Identifiers!TwoDigits(bytes[k], hex)[2] = hex[(bytes[k] % 16) + 1]
  BY DEF Identifiers!TwoDigits
<1> QED
  BY <1>1, <1>3, <1>4 DEF i, HoldsDigits

\* A text holds the digits of the bytes from first to last behind so many other
\* characters.
HoldsBytes(text, bytes, first, last, hex, shift) ==
  \A k \in first .. last :
    /\ text[2 * k + 1 + shift] = hex[bytes[k] \div 16 + 1]
    /\ text[2 * k + 2 + shift] = hex[(bytes[k] % 16) + 1]

IsHex(hex) == hex \in {Identifiers!LowerHex, Identifiers!UpperHex}

LEMMA HexDigit ==
  ASSUME NEW hex, IsHex(hex), NEW d \in 0 .. 15
  PROVE  /\ Identifiers!IsHexadecimal(hex[d + 1])
         /\ Identifiers!DigitValue(hex[d + 1]) = d
BY DigitsAreHexadecimal, DigitValues DEF IsHex

\* Where two texts are found in their concatenation.
LEMMA ConcatParts ==
  ASSUME NEW Char, NEW s \in Seq(Char), NEW t \in Seq(Char)
  PROVE  /\ s \o t \in Seq(Char) /\ Len(s \o t) = Len(s) + Len(t)
         /\ \A i \in 1 .. Len(s) : (s \o t)[i] = s[i]
         /\ \A i \in Len(s) + 1 .. Len(s) + Len(t) : (s \o t)[i] = t[i - Len(s)]
<1> DEFINE both == s \o t
<1>1. /\ both \in Seq(Char) /\ Len(both) = Len(s) + Len(t)
      /\ \A i \in 1 .. Len(s) + Len(t) :
           both[i] = IF i <= Len(s) THEN s[i] ELSE t[i - Len(s)]
  BY ConcatProperties, Zenon
<1> HIDE DEF both
<1>2. Len(s) \in Nat /\ Len(t) \in Nat
  BY LenProperties
<1>3. ASSUME NEW i \in 1 .. Len(s) PROVE both[i] = s[i]
  BY <1>1, <1>2
<1>4. ASSUME NEW i \in Len(s) + 1 .. Len(s) + Len(t) PROVE both[i] = t[i - Len(s)]
  <2>1. i \in 1 .. Len(s) + Len(t) /\ ~(i <= Len(s))
    BY <1>2
  <2> QED
    BY <1>1, <2>1
<1> QED
  BY <1>1, <1>3, <1>4 DEF both

\* What putting the digits of bytes behind a text does.
LEMMA AppendDigits ==
  ASSUME NEW Char, NEW text \in Seq(Char),
         NEW first \in Nat, NEW last \in Nat, first <= last, NEW shift \in Nat,
         Len(text) = 2 * first + shift,
         NEW bytes, \A k \in first .. last : bytes[k] \in 0 .. 255,
         NEW hex, IsHex(hex), \A d \in 0 .. 15 : hex[d + 1] \in Char
  PROVE  LET longer == text \o Identifiers!Digits(bytes, first, last, hex)
         IN  /\ longer \in Seq(Char) /\ Len(longer) = 2 * last + 2 + shift
             /\ \A i \in 1 .. Len(text) : longer[i] = text[i]
             /\ \A i \in Len(text) + 1 .. Len(longer) : Identifiers!IsHexadecimal(longer[i])
             /\ HoldsBytes(longer, bytes, first, last, hex, shift)
<1> DEFINE size   == 2 * (last - first + 1)
           digits == Identifiers!Digits(bytes, first, last, hex)
           longer == text \o digits
<1>1. size \in Nat
  OBVIOUS
<1>2. ASSUME NEW i \in 1 .. size
      PROVE  \E k \in first .. last :
               i = 2 * (k - first) + 1 \/ i = 2 * (k - first) + 2
  <2>1. first + ((i - 1) \div 2) \in first .. last
    OBVIOUS
  <2>2. \/ i = 2 * ((first + ((i - 1) \div 2)) - first) + 1
        \/ i = 2 * ((first + ((i - 1) \div 2)) - first) + 2
    OBVIOUS
  <2> QED
    BY <2>1, <2>2
<1>3. ASSUME NEW k \in first .. last
      PROVE  /\ bytes[k] \div 16 \in 0 .. 15 /\ bytes[k] % 16 \in 0 .. 15
             /\ digits[2 * (k - first) + 1] = hex[bytes[k] \div 16 + 1]
             /\ digits[2 * (k - first) + 2] = hex[(bytes[k] % 16) + 1]
  <2>1. bytes[k] \in 0 .. 255
    OBVIOUS
  <2>2. bytes[k] \div 16 \in 0 .. 15 /\ bytes[k] % 16 \in 0 .. 15
    BY <2>1, ByteOfDigits
  <2>3. HoldsDigits(digits, bytes, k, first, hex)
    BY DigitsByPosition
  <2> QED
    BY <2>2, <2>3 DEF HoldsDigits
<1>4. \A i \in 1 .. size : digits[i] \in Char /\ Identifiers!IsHexadecimal(digits[i])
  <2> SUFFICES ASSUME NEW i \in 1 .. size
               PROVE  digits[i] \in Char /\ Identifiers!IsHexadecimal(digits[i])
    OBVIOUS
  <2>1. \E d \in 0 .. 15 : digits[i] = hex[d + 1]
    <3>1. PICK k \in first .. last : i = 2 * (k - first) + 1 \/ i = 2 * (k - first) + 2
      BY <1>2
    <3> HIDE DEF digits
    <3> QED
      BY <1>3, <3>1
  <2> QED
    BY <2>1, HexDigit
<1>5. digits \in Seq(Char) /\ Len(digits) = size
  <2>1. digits = [i \in 1 .. size |-> digits[i]]
    BY DEF Identifiers!Digits
  <2> HIDE DEF digits, size
  <2>2. digits \in [1 .. size -> Char]
    BY <1>4, <2>1
  <2>3. DOMAIN digits = 1 .. size
    BY <2>2
  <2> QED
    BY <1>1, <2>2, <2>3, SeqDef, LenProperties
<1> HIDE DEF digits
<1>6. /\ longer \in Seq(Char) /\ Len(longer) = Len(text) + Len(digits)
      /\ \A i \in 1 .. Len(text) : longer[i] = text[i]
      /\ \A i \in Len(text) + 1 .. Len(text) + Len(digits) : longer[i] = digits[i - Len(text)]
  BY <1>5, ConcatParts
<1> HIDE DEF longer
<1>7. Len(text) = 2 * first + shift /\ Len(longer) = 2 * last + 2 + shift
  <2>1. Len(longer) = (2 * first + shift) + size
    BY <1>5, <1>6
  <2> QED
    BY <2>1
<1>8. ASSUME NEW i \in Len(text) + 1 .. Len(longer)
      PROVE  Identifiers!IsHexadecimal(longer[i])
  <2>1. i - Len(text) \in 1 .. size /\ i \in Len(text) + 1 .. Len(text) + Len(digits)
    BY <1>5, <1>6, <1>7
  <2> QED
    BY <1>4, <1>6, <2>1
<1>9. HoldsBytes(longer, bytes, first, last, hex, shift)
  <2> SUFFICES ASSUME NEW k \in first .. last
               PROVE  /\ longer[2 * k + 1 + shift] = hex[bytes[k] \div 16 + 1]
                      /\ longer[2 * k + 2 + shift] = hex[(bytes[k] % 16) + 1]
    BY DEF HoldsBytes
  <2>1. /\ 2 * k + 1 + shift \in Len(text) + 1 .. Len(text) + Len(digits)
        /\ 2 * k + 2 + shift \in Len(text) + 1 .. Len(text) + Len(digits)
        /\ (2 * k + 1 + shift) - Len(text) = 2 * (k - first) + 1
        /\ (2 * k + 2 + shift) - Len(text) = 2 * (k - first) + 2
    BY <1>5, <1>7
  <2> QED
    BY <1>3, <1>6, <2>1
<1> QED
  BY <1>6, <1>7, <1>8, <1>9 DEF longer, digits

\* Characters put behind a text leave in place what it holds.
LEMMA StillHolds ==
  ASSUME NEW text, NEW longer, NEW bytes, NEW hex, NEW n \in Nat,
         NEW first \in Nat, NEW last \in Nat, NEW shift \in Nat, 2 * last + 2 + shift <= n,
         HoldsBytes(text, bytes, first, last, hex, shift),
         \A i \in 1 .. n : longer[i] = text[i]
  PROVE  HoldsBytes(longer, bytes, first, last, hex, shift)
<1> SUFFICES ASSUME NEW k \in first .. last
             PROVE  /\ longer[2 * k + 1 + shift] = hex[bytes[k] \div 16 + 1]
                    /\ longer[2 * k + 2 + shift] = hex[(bytes[k] % 16) + 1]
  BY DEF HoldsBytes
<1>1. 2 * k + 1 + shift \in 1 .. n /\ 2 * k + 2 + shift \in 1 .. n
  OBVIOUS
<1> QED
  BY <1>1 DEF HoldsBytes

\* The characters of identifiers.
Character ==
  Identifiers!ToSet(Identifiers!LowerHex) \union Identifiers!ToSet(Identifiers!UpperHex)
    \union {"C", "E", "L", "O", "R", "T", "-"}

LEMMA DigitsAreCharacters ==
  \A d \in 0 .. 15 : Identifiers!LowerHex[d + 1] \in Character /\ Identifiers!UpperHex[d + 1] \in Character
<1>1. \A d \in 0 .. 15 : d + 1 \in DOMAIN Identifiers!LowerHex /\ d + 1 \in DOMAIN Identifiers!UpperHex
  BY HexDigits
<1> QED
  BY <1>1 DEF Character, Identifiers!ToSet

\* The same for digits and a dash.
LEMMA AppendGroup ==
  ASSUME NEW text \in Seq(Character),
         NEW first \in Nat, NEW last \in Nat, first <= last, NEW shift \in Nat,
         Len(text) = 2 * first + shift,
         NEW bytes, \A k \in first .. last : bytes[k] \in 0 .. 255
  PROVE  LET longer == text \o Identifiers!Digits(bytes, first, last, Identifiers!LowerHex) \o <<"-">>
         IN  /\ longer \in Seq(Character) /\ Len(longer) = 2 * last + 3 + shift
             /\ \A i \in 1 .. Len(text) : longer[i] = text[i]
             /\ \A i \in Len(text) + 1 .. Len(longer) - 1 : Identifiers!IsHexadecimal(longer[i])
             /\ longer[Len(longer)] = "-"
             /\ HoldsBytes(longer, bytes, first, last, Identifiers!LowerHex, shift)
<1> DEFINE middle == text \o Identifiers!Digits(bytes, first, last, Identifiers!LowerHex)
           longer == middle \o <<"-">>
<1>1. /\ middle \in Seq(Character) /\ Len(middle) = 2 * last + 2 + shift
      /\ \A i \in 1 .. Len(text) : middle[i] = text[i]
      /\ \A i \in Len(text) + 1 .. Len(middle) : Identifiers!IsHexadecimal(middle[i])
      /\ HoldsBytes(middle, bytes, first, last, Identifiers!LowerHex, shift)
  <2>1. IsHex(Identifiers!LowerHex)
    BY DEF IsHex
  <2> QED
    BY <2>1, DigitsAreCharacters, AppendDigits, Zenon
<1> HIDE DEF middle
<1>2. Len(middle) \in Nat /\ <<"-">> \in Seq(Character) /\ Len(<<"-">>) = 1 /\ <<"-">>[1] = "-"
  <2>1. "-" \in Character
    BY DEF Character
  <2> QED
    BY <1>1, <2>1
<1>3. /\ longer \in Seq(Character) /\ Len(longer) = Len(middle) + Len(<<"-">>)
      /\ \A i \in 1 .. Len(middle) + Len(<<"-">>) :
           longer[i] = IF i <= Len(middle) THEN middle[i] ELSE <<"-">>[i - Len(middle)]
  BY <1>1, <1>2, ConcatProperties, Zenon
<1> HIDE DEF longer
<1>4. /\ Len(longer) = Len(middle) + 1
      /\ \A i \in 1 .. Len(middle) : longer[i] = middle[i]
      /\ longer[Len(middle) + 1] = "-"
  BY <1>2, <1>3
<1>5. HoldsBytes(longer, bytes, first, last, Identifiers!LowerHex, shift)
  <2>1. 2 * last + 2 + shift <= Len(middle)
    BY <1>1
  <2> QED
    BY <1>1, <1>2, <1>4, <2>1, StillHolds, Zenon
<1>6. /\ Len(longer) = 2 * last + 3 + shift /\ longer[Len(longer)] = "-"
      /\ \A i \in 1 .. Len(text) : longer[i] = text[i]
      /\ \A i \in Len(text) + 1 .. Len(longer) - 1 : Identifiers!IsHexadecimal(longer[i])
  <2>1. Len(longer) = 2 * last + 3 + shift
    BY <1>1, <1>4
  <2>2. longer[Len(longer)] = "-"
    BY <1>4
  <2>3. ASSUME NEW i \in 1 .. Len(text) PROVE longer[i] = text[i]
    <3>1. i \in 1 .. Len(middle)
      BY <1>1
    <3> QED
      BY <1>1, <1>4, <3>1
  <2>4. ASSUME NEW i \in Len(text) + 1 .. Len(longer) - 1
        PROVE  Identifiers!IsHexadecimal(longer[i])
    <3>1. i \in 1 .. Len(middle) /\ i \in Len(text) + 1 .. Len(middle)
      BY <1>1, <1>4, SMTT(30)
    <3> QED
      BY <1>1, <1>4, <3>1
  <2> QED
    BY <2>1, <2>2, <2>3, <2>4
<1> QED
  BY <1>3, <1>5, <1>6 DEF longer, middle

\* The layout of an id: four groups that end in a dash, and the last six bytes.
LEMMA IdLayout ==
  ASSUME NEW bytes \in [0 .. 15 -> 0 .. 255]
  PROVE  LET id == Identifiers!FromBytes(bytes)
         IN  /\ id \in Seq(Character) /\ Len(id) = 36
             /\ \A i \in (1 .. 8) \union (10 .. 13) \union (15 .. 18) \union (20 .. 23) \union (25 .. 36) :
                  Identifiers!IsHexadecimal(id[i])
             /\ \A i \in {9, 14, 19, 24} : id[i] = "-"
             /\ HoldsBytes(id, bytes, 0, 3, Identifiers!LowerHex, 0)
             /\ HoldsBytes(id, bytes, 4, 5, Identifiers!LowerHex, 1)
             /\ HoldsBytes(id, bytes, 6, 7, Identifiers!LowerHex, 2)
             /\ HoldsBytes(id, bytes, 8, 9, Identifiers!LowerHex, 3)
             /\ HoldsBytes(id, bytes, 10, 15, Identifiers!LowerHex, 4)
<1> DEFINE Group(first, last) == Identifiers!Digits(bytes, first, last, Identifiers!LowerHex)
           text0 == <<>>
           text1 == text0 \o Group(0, 3) \o <<"-">>
           text2 == text1 \o Group(4, 5) \o <<"-">>
           text3 == text2 \o Group(6, 7) \o <<"-">>
           text4 == text3 \o Group(8, 9) \o <<"-">>
           text5 == text4 \o Group(10, 15)
<1>0. text0 \in Seq(Character) /\ Len(text0) = 2 * 0 + 0 /\ text0 = <<>>
  OBVIOUS
<1> HIDE DEF text0
<1>1. /\ 0 \in Nat /\ 1 \in Nat /\ 2 \in Nat /\ 3 \in Nat /\ 4 \in Nat /\ 5 \in Nat /\ 6 \in Nat
      /\ 7 \in Nat /\ 8 \in Nat /\ 9 \in Nat /\ 10 \in Nat /\ 15 \in Nat
      /\ 0 <= 3 /\ 4 <= 5 /\ 6 <= 7 /\ 8 <= 9 /\ 10 <= 15
  OBVIOUS
<1>2. /\ \A k \in 0 .. 3 : bytes[k] \in 0 .. 255
      /\ \A k \in 4 .. 5 : bytes[k] \in 0 .. 255
      /\ \A k \in 6 .. 7 : bytes[k] \in 0 .. 255
      /\ \A k \in 8 .. 9 : bytes[k] \in 0 .. 255
      /\ \A k \in 10 .. 15 : bytes[k] \in 0 .. 255
  OBVIOUS
<1>3. /\ text1 \in Seq(Character) /\ Len(text1) = 2 * 3 + 3 + 0
      /\ \A i \in 1 .. Len(text0) : text1[i] = text0[i]
      /\ \A i \in Len(text0) + 1 .. Len(text1) - 1 : Identifiers!IsHexadecimal(text1[i])
      /\ text1[Len(text1)] = "-"
      /\ HoldsBytes(text1, bytes, 0, 3, Identifiers!LowerHex, 0)
  BY <1>0, <1>1, <1>2, AppendGroup, Zenon
<1> HIDE DEF text1
<1>4. /\ Len(text1) = 9 /\ Len(text1) = 2 * 4 + 1
      /\ \A i \in 1 .. 8 : Identifiers!IsHexadecimal(text1[i])
      /\ text1[9] = "-"
  <2>1. Len(text1) = 9 /\ Len(text1) = 2 * 4 + 1 /\ Len(text0) + 1 = 1 /\ Len(text1) - 1 = 8
    BY <1>0, <1>3
  <2> QED
    BY <1>0, <1>3, <2>1
<1>5. /\ text2 \in Seq(Character) /\ Len(text2) = 2 * 5 + 3 + 1
      /\ \A i \in 1 .. Len(text1) : text2[i] = text1[i]
      /\ \A i \in Len(text1) + 1 .. Len(text2) - 1 : Identifiers!IsHexadecimal(text2[i])
      /\ text2[Len(text2)] = "-"
      /\ HoldsBytes(text2, bytes, 4, 5, Identifiers!LowerHex, 1)
  BY <1>1, <1>2, <1>3, <1>4, AppendGroup, Zenon
<1> HIDE DEF text2
<1>6. /\ Len(text2) = 14 /\ Len(text2) = 2 * 6 + 2
      /\ \A i \in 10 .. 13 : Identifiers!IsHexadecimal(text2[i])
      /\ text2[14] = "-"
      /\ \A i \in 1 .. 9 : text2[i] = text1[i]
  <2>1. Len(text2) = 14 /\ Len(text2) = 2 * 6 + 2 /\ Len(text1) + 1 = 10 /\ Len(text2) - 1 = 13
    BY <1>4, <1>5
  <2> QED
    BY <1>4, <1>5, <2>1
<1>7. /\ text3 \in Seq(Character) /\ Len(text3) = 2 * 7 + 3 + 2
      /\ \A i \in 1 .. Len(text2) : text3[i] = text2[i]
      /\ \A i \in Len(text2) + 1 .. Len(text3) - 1 : Identifiers!IsHexadecimal(text3[i])
      /\ text3[Len(text3)] = "-"
      /\ HoldsBytes(text3, bytes, 6, 7, Identifiers!LowerHex, 2)
  BY <1>1, <1>2, <1>5, <1>6, AppendGroup, Zenon
<1> HIDE DEF text3
<1>8. /\ Len(text3) = 19 /\ Len(text3) = 2 * 8 + 3
      /\ \A i \in 15 .. 18 : Identifiers!IsHexadecimal(text3[i])
      /\ text3[19] = "-"
      /\ \A i \in 1 .. 14 : text3[i] = text2[i]
  <2>1. Len(text3) = 19 /\ Len(text3) = 2 * 8 + 3 /\ Len(text2) + 1 = 15 /\ Len(text3) - 1 = 18
    BY <1>6, <1>7
  <2> QED
    BY <1>6, <1>7, <2>1
<1>9. /\ text4 \in Seq(Character) /\ Len(text4) = 2 * 9 + 3 + 3
      /\ \A i \in 1 .. Len(text3) : text4[i] = text3[i]
      /\ \A i \in Len(text3) + 1 .. Len(text4) - 1 : Identifiers!IsHexadecimal(text4[i])
      /\ text4[Len(text4)] = "-"
      /\ HoldsBytes(text4, bytes, 8, 9, Identifiers!LowerHex, 3)
  BY <1>1, <1>2, <1>7, <1>8, AppendGroup, Zenon
<1> HIDE DEF text4
<1>10. /\ Len(text4) = 24 /\ Len(text4) = 2 * 10 + 4
       /\ \A i \in 20 .. 23 : Identifiers!IsHexadecimal(text4[i])
       /\ text4[24] = "-"
       /\ \A i \in 1 .. 19 : text4[i] = text3[i]
  <2>1. Len(text4) = 24 /\ Len(text4) = 2 * 10 + 4 /\ Len(text3) + 1 = 20 /\ Len(text4) - 1 = 23
    BY <1>8, <1>9
  <2> QED
    BY <1>8, <1>9, <2>1
<1>11. /\ text5 \in Seq(Character) /\ Len(text5) = 2 * 15 + 2 + 4
       /\ \A i \in 1 .. Len(text4) : text5[i] = text4[i]
       /\ \A i \in Len(text4) + 1 .. Len(text5) : Identifiers!IsHexadecimal(text5[i])
       /\ HoldsBytes(text5, bytes, 10, 15, Identifiers!LowerHex, 4)
  <2>1. IsHex(Identifiers!LowerHex)
    BY DEF IsHex
  <2> QED
    BY <1>1, <1>2, <1>9, <1>10, <2>1, DigitsAreCharacters, AppendDigits, ZenonT(60)
<1>12. Identifiers!FromBytes(bytes) = text5
  <2>1. text0 \o Group(0, 3) = Group(0, 3)
    <3>1. Group(0, 3) = [i \in 1 .. 8 |-> Group(0, 3)[i]]
      BY DEF Identifiers!Digits
    <3> HIDE DEF Group
    <3> DEFINE group == Group(0, 3)
               size  == 8
               S     == {group[i] : i \in 1 .. size}
    <3>2. group = [i \in 1 .. size |-> group[i]] /\ size \in Nat
      BY <3>1
    <3> HIDE DEF group, size
    <3>3. group \in [1 .. size -> S] /\ size \in Nat
      BY <3>2
    <3> HIDE DEF S
    <3>4. group \in Seq(S)
      BY <3>3, SeqDef, SMTT(30)
    <3> QED
      BY <1>0, <3>4, ConcatEmptySeq DEF group
  <2>2. text1 = Group(0, 3) \o <<"-">>
    BY <2>1, SMTT(30) DEF text1
  <2> QED
    BY <2>2 DEF Identifiers!FromBytes, text2, text3, text4
<1> HIDE DEF text5
<1>13. Len(text5) = 36
  BY <1>11, SMTT(30)
<1>14. /\ \A i \in 1 .. 24 : text5[i] = text4[i]
       /\ \A i \in 1 .. 19 : text5[i] = text3[i]
       /\ \A i \in 1 .. 14 : text5[i] = text2[i]
       /\ \A i \in 1 .. 9 : text5[i] = text1[i]
  <2>1. \A i \in 1 .. 24 : text5[i] = text4[i]
    BY <1>10, <1>11
  <2>2. \A i \in 1 .. 19 : text5[i] = text3[i]
    BY <1>10, <2>1
  <2>3. \A i \in 1 .. 14 : text5[i] = text2[i]
    BY <1>8, <2>2
  <2>4. \A i \in 1 .. 9 : text5[i] = text1[i]
    BY <1>6, <2>3, SMTT(30)
  <2> QED
    BY <2>1, <2>2, <2>3, <2>4, SMTT(30)
<1>15. /\ \A i \in 1 .. 8 : Identifiers!IsHexadecimal(text5[i])
       /\ \A i \in 10 .. 13 : Identifiers!IsHexadecimal(text5[i])
       /\ \A i \in 15 .. 18 : Identifiers!IsHexadecimal(text5[i])
       /\ \A i \in 20 .. 23 : Identifiers!IsHexadecimal(text5[i])
       /\ \A i \in 25 .. 36 : Identifiers!IsHexadecimal(text5[i])
  <2>1. \A i \in 1 .. 8 : Identifiers!IsHexadecimal(text5[i])
    BY <1>4, <1>14
  <2>2. \A i \in 10 .. 13 : Identifiers!IsHexadecimal(text5[i])
    BY <1>6, <1>14
  <2>3. \A i \in 15 .. 18 : Identifiers!IsHexadecimal(text5[i])
    BY <1>8, <1>14
  <2>4. \A i \in 20 .. 23 : Identifiers!IsHexadecimal(text5[i])
    BY <1>10, <1>14, SMTT(30)
  <2>5. \A i \in 25 .. 36 : Identifiers!IsHexadecimal(text5[i])
    <3>1. Len(text4) + 1 = 25 /\ Len(text5) = 36
      BY <1>10, <1>13
    <3> QED
      BY <1>11, <3>1
  <2> QED
    BY <2>1, <2>2, <2>3, <2>4, <2>5
<1>16. \A i \in {9, 14, 19, 24} : text5[i] = "-"
  <2>1. text1[9] = "-" /\ text2[14] = "-" /\ text3[19] = "-" /\ text4[24] = "-"
    BY <1>4, <1>6, <1>8, <1>10
  <2> QED
    BY <2>1, <1>14, SMTT(30)
<1>17. /\ HoldsBytes(text5, bytes, 0, 3, Identifiers!LowerHex, 0)
       /\ HoldsBytes(text5, bytes, 4, 5, Identifiers!LowerHex, 1)
       /\ HoldsBytes(text5, bytes, 6, 7, Identifiers!LowerHex, 2)
       /\ HoldsBytes(text5, bytes, 8, 9, Identifiers!LowerHex, 3)
  <2>2. HoldsBytes(text5, bytes, 0, 3, Identifiers!LowerHex, 0)
    <3>1. \A k \in 0 .. 3 : 2 * k + 1 + 0 \in 1 .. 9 /\ 2 * k + 2 + 0 \in 1 .. 9
      OBVIOUS
    <3> QED
      BY <1>3, <1>14, <3>1, Zenon DEF HoldsBytes
  <2>3. HoldsBytes(text5, bytes, 4, 5, Identifiers!LowerHex, 1)
    <3> DEFINE shift == 1
    <3>1. \A k \in 4 .. 5 : 2 * k + 1 + shift \in 1 .. 14 /\ 2 * k + 2 + shift \in 1 .. 14
      OBVIOUS
    <3>2. HoldsBytes(text2, bytes, 4, 5, Identifiers!LowerHex, shift)
      BY <1>5
    <3> HIDE DEF shift
    <3>3. HoldsBytes(text5, bytes, 4, 5, Identifiers!LowerHex, shift)
      BY <1>14, <3>1, <3>2, Zenon DEF HoldsBytes
    <3> QED
      BY <3>3 DEF shift
  <2>4. HoldsBytes(text5, bytes, 6, 7, Identifiers!LowerHex, 2)
    <3>1. \A k \in 6 .. 7 : 2 * k + 1 + 2 \in 1 .. 19 /\ 2 * k + 2 + 2 \in 1 .. 19
      OBVIOUS
    <3> QED
      BY <1>7, <1>14, <3>1, Zenon DEF HoldsBytes
  <2>5. HoldsBytes(text5, bytes, 8, 9, Identifiers!LowerHex, 3)
    <3>1. \A k \in 8 .. 9 : 2 * k + 1 + 3 \in 1 .. 24 /\ 2 * k + 2 + 3 \in 1 .. 24
      OBVIOUS
    <3> QED
      BY <1>9, <1>14, <3>1, Zenon DEF HoldsBytes
  <2> QED
    BY <2>2, <2>3, <2>4, <2>5
<1> QED
  BY <1>11, <1>12, <1>13, <1>15, <1>16, <1>17, ZenonT(60)

\* The layout of a Device UID: its type, a dash and the digits of the MAC.
LEMMA UidLayout ==
  ASSUME NEW mac \in [0 .. 5 -> 0 .. 255]
  PROVE  LET uid == Identifiers!DeviceUidString(mac)
         IN  /\ uid \in Seq(Character) /\ Len(uid) = 22
             /\ \A i \in 1 .. 9 : Identifiers!IsDeviceTypeCharacter(uid[i])
             /\ uid[10] = "-"
             /\ \A i \in 11 .. 22 : Identifiers!IsHexadecimal(uid[i])
             /\ HoldsBytes(uid, mac, 0, 5, Identifiers!UpperHex, 10)
<1> DEFINE type == <<"C", "O", "L", "L", "E", "C", "T", "O", "R", "-">>
           uid  == type \o Identifiers!Digits(mac, 0, 5, Identifiers!UpperHex)
<1>1. type \in Seq(Character) /\ Len(type) = 10 /\ type[10] = "-"
  <2>1. {"C", "O", "L", "E", "T", "R", "-"} \subseteq Character
    BY DEF Character
  <2> QED
    BY <2>1
<1>2. \A i \in 1 .. 9 : Identifiers!IsDeviceTypeCharacter(type[i])
  <2>1. Identifiers!UpperHex[13] = "C" /\ Identifiers!UpperHex[15] = "E"
    BY DEF Identifiers!UpperHex
  <2>2. 13 \in DOMAIN Identifiers!UpperHex /\ 15 \in DOMAIN Identifiers!UpperHex
    BY HexDigits
  <2>3. {"C", "O", "L", "E", "T", "R"}
          \subseteq Identifiers!ToSet(Identifiers!UpperHex) \union {"G", "L", "O", "R", "T", "_"}
    BY <2>1, <2>2 DEF Identifiers!ToSet
  <2>4. \A i \in 1 .. 9 : type[i] \in {"C", "O", "L", "E", "T", "R"}
    OBVIOUS
  <2> QED
    BY <2>3, <2>4 DEF Identifiers!IsDeviceTypeCharacter
<1>3. /\ 0 \in Nat /\ 5 \in Nat /\ 10 \in Nat /\ 0 <= 5 /\ Len(type) = 2 * 0 + 10
      /\ \A k \in 0 .. 5 : mac[k] \in 0 .. 255
      /\ IsHex(Identifiers!UpperHex)
  BY <1>1 DEF IsHex
<1> HIDE DEF type
<1>4. /\ uid \in Seq(Character) /\ Len(uid) = 2 * 5 + 2 + 10
      /\ \A i \in 1 .. Len(type) : uid[i] = type[i]
      /\ \A i \in Len(type) + 1 .. Len(uid) : Identifiers!IsHexadecimal(uid[i])
      /\ HoldsBytes(uid, mac, 0, 5, Identifiers!UpperHex, 10)
  BY <1>1, <1>3, DigitsAreCharacters, AppendDigits, ZenonT(60)
<1>5. Identifiers!DeviceUidString(mac) = uid
  BY DEF Identifiers!DeviceUidString, type
<1> HIDE DEF uid
<1>6. Len(uid) = 22 /\ Len(type) + 1 = 11
  BY <1>1, <1>4
<1>7. \A i \in 1 .. 10 : uid[i] = type[i]
  BY <1>1, <1>4
<1>8. \A i \in 11 .. 22 : Identifiers!IsHexadecimal(uid[i])
  BY <1>4, <1>6
<1> QED
  BY <1>1, <1>2, <1>4, <1>5, <1>6, <1>7, <1>8

\* A reader finds the bytes that a text holds.
LEMMA BytesReadBack ==
  ASSUME NEW text, NEW bytes, NEW first, NEW last, NEW hex, NEW shift,
         HoldsBytes(text, bytes, first, last, hex, shift),
         IsHex(hex), first \in Nat, last \in Nat, shift \in Nat,
         NEW k \in first .. last, bytes[k] \in 0 .. 255
  PROVE  Identifiers!ReadByte(text, 2 * k + 1 + shift) = bytes[k]
<1>1. /\ bytes[k] \div 16 \in 0 .. 15 /\ bytes[k] % 16 \in 0 .. 15
      /\ 16 * (bytes[k] \div 16) + (bytes[k] % 16) = bytes[k]
  BY ByteOfDigits
<1>2. /\ text[2 * k + 1 + shift] = hex[bytes[k] \div 16 + 1]
      /\ text[2 * k + 2 + shift] = hex[(bytes[k] % 16) + 1]
  BY DEF HoldsBytes
<1>3. /\ Identifiers!DigitValue(text[2 * k + 1 + shift]) = bytes[k] \div 16
      /\ Identifiers!DigitValue(text[2 * k + 2 + shift]) = bytes[k] % 16
  BY <1>1, <1>2, HexDigit
<1>4. (2 * k + 1 + shift) + 1 = 2 * k + 2 + shift
  OBVIOUS
<1> QED
  BY <1>1, <1>3, <1>4 DEF Identifiers!ReadByte

\* A Device UID is accepted and keeps the MAC, whatever the MAC.
THEOREM UidUsable ==
  ASSUME NEW mac \in [0 .. 5 -> 0 .. 255]
  PROVE  LET uid == Identifiers!DeviceUidString(mac)
         IN  /\ Identifiers!IsDeviceUid(uid, 12) /\ uid # <<"refused">>
             /\ \A k \in 0 .. 5 : Identifiers!ReadByte(uid, 11 + 2 * k) = mac[k]
<1> DEFINE uid == Identifiers!DeviceUidString(mac)
<1>1. /\ uid \in Seq(Character) /\ Len(uid) = 22
      /\ \A i \in 1 .. 9 : Identifiers!IsDeviceTypeCharacter(uid[i])
      /\ uid[10] = "-"
      /\ \A i \in 11 .. 22 : Identifiers!IsHexadecimal(uid[i])
      /\ HoldsBytes(uid, mac, 0, 5, Identifiers!UpperHex, 10)
  BY UidLayout, Zenon
<1> HIDE DEF uid
<1>2. Identifiers!IsDeviceUid(uid, 12)
  <2>1. 10 \in 1 .. Len(uid) /\ 10 > 1 /\ 10 - 1 = 9 /\ 10 + 1 = 11 /\ Len(uid) - 10 = 12
    BY <1>1
  <2>2. DocumentedForm(uid, 10, 12)
    BY <1>1, <2>1, FormByPositions
  <2>3. 12 \in Nat
    OBVIOUS
  <2> QED
    BY <1>1, <2>1, <2>2, <2>3, ParserAcceptsForm, Zenon
<1>3. uid # <<"refused">>
  <2>1. 12 \in Nat
    OBVIOUS
  <2> QED
    BY <1>1, <1>2, <2>1, AcceptedIsNotRefused, Zenon
<1>4. ASSUME NEW k \in 0 .. 5
      PROVE  Identifiers!ReadByte(uid, 11 + 2 * k) = mac[k]
  <2>1. HoldsBytes(uid, mac, 0, 5, Identifiers!UpperHex, 10)
    BY <1>1
  <2>2. mac[k] \in 0 .. 255 /\ IsHex(Identifiers!UpperHex)
    BY DEF IsHex
  <2>3. Identifiers!ReadByte(uid, 2 * k + 1 + 10) = mac[k]
    BY <2>1, <2>2, BytesReadBack, SMTT(30)
  <2>4. 11 + 2 * k = 2 * k + 1 + 10
    OBVIOUS
  <2> QED
    BY <2>3, <2>4, Zenon
<1> QED
  BY <1>2, <1>3, <1>4 DEF uid

\* A generated id is a UUID of version 4 and keeps the random bits, whatever
\* they are.
THEOREM IdUsable ==
  ASSUME NEW random \in [0 .. 15 -> 0 .. 255]
  PROVE  LET id == Identifiers!FromBytes(Identifiers!Marked(random))
         IN  /\ Identifiers!IsUuid(id) /\ id # <<"refused">>
             /\ id[15] = "4" /\ id[20] \in {"8", "9", "a", "b"}
             /\ \A k \in 0 .. 15 :
                  LET modulus == CASE k = 6 -> 16 [] k = 8 -> 64 [] OTHER -> 256
                  IN  Identifiers!ReadByte(id, 2 * k + 1 + Identifiers!DashesBefore(k)) % modulus
                        = random[k] % modulus
<1> DEFINE bytes == Identifiers!Marked(random)
           id    == Identifiers!FromBytes(bytes)
<1>1. /\ bytes[6] = (random[6] % 16) + 64
      /\ bytes[8] = (random[8] % 64) + 128
      /\ \A k \in 0 .. 15 : k # 6 /\ k # 8 => bytes[k] = random[k]
      /\ DOMAIN bytes = 0 .. 15
  BY DEF Identifiers!Marked
<1>2. bytes = [k \in 0 .. 15 |-> bytes[k]]
  BY DEF Identifiers!Marked
<1> HIDE DEF bytes
<1>3. bytes[6] \in 64 .. 79 /\ bytes[8] \in 128 .. 191
  <2>1. random[6] \in 0 .. 255 /\ random[8] \in 0 .. 255
    OBVIOUS
  <2> QED
    BY <1>1, <2>1
<1>4. \A k \in 0 .. 15 : bytes[k] \in 0 .. 255
  BY <1>1, <1>3, SMTT(30)
<1>5. bytes \in [0 .. 15 -> 0 .. 255]
  BY <1>2, <1>4
<1>6. /\ id \in Seq(Character) /\ Len(id) = 36
      /\ \A i \in (1 .. 8) \union (10 .. 13) \union (15 .. 18) \union (20 .. 23) \union (25 .. 36) :
           Identifiers!IsHexadecimal(id[i])
      /\ \A i \in {9, 14, 19, 24} : id[i] = "-"
      /\ HoldsBytes(id, bytes, 0, 3, Identifiers!LowerHex, 0)
      /\ HoldsBytes(id, bytes, 4, 5, Identifiers!LowerHex, 1)
      /\ HoldsBytes(id, bytes, 6, 7, Identifiers!LowerHex, 2)
      /\ HoldsBytes(id, bytes, 8, 9, Identifiers!LowerHex, 3)
      /\ HoldsBytes(id, bytes, 10, 15, Identifiers!LowerHex, 4)
  BY <1>5, IdLayout, ZenonT(60)
<1> HIDE DEF id
<1>7. Identifiers!IsUuid(id)
  <2>1. ASSUME NEW i \in 1 .. 36
        PROVE  IF i \in {9, 14, 19, 24} THEN id[i] = "-" ELSE Identifiers!IsHexadecimal(id[i])
    <3>1. \/ i \in {9, 14, 19, 24}
          \/ i \in (1 .. 8) \union (10 .. 13) \union (15 .. 18) \union (20 .. 23) \union (25 .. 36)
      BY SMTT(30)
    <3>2. i \in {9, 14, 19, 24} => id[i] = "-"
      BY <1>6
    <3> QED
      BY <1>6, <3>1, <3>2, Zenon
  <2> QED
    BY <1>6, <2>1, ZenonT(60) DEF Identifiers!IsUuid, Identifiers!DashAt
<1>8. id # <<"refused">>
  <2>1. Len(<<"refused">>) = 1 /\ Len(id) = 36
    BY <1>6
  <2> QED
    BY <2>1
<1>9. id[15] = "4"
  <2>1. id[15] = Identifiers!LowerHex[bytes[6] \div 16 + 1]
    <3>1. 6 \in 6 .. 7 /\ 2 * 6 + 1 + 2 = 15
      OBVIOUS
    <3> QED
      BY <1>6, <3>1 DEF HoldsBytes
  <2>2. bytes[6] \div 16 = 4
    BY <1>3
  <2> QED
    BY <2>1, <2>2, SMTT(30) DEF Identifiers!LowerHex
<1>10. id[20] \in {"8", "9", "a", "b"}
  <2>1. id[20] = Identifiers!LowerHex[bytes[8] \div 16 + 1]
    <3>1. 8 \in 8 .. 9 /\ 2 * 8 + 1 + 3 = 20
      OBVIOUS
    <3> QED
      BY <1>6, <3>1 DEF HoldsBytes
  <2>2. bytes[8] \div 16 \in {8, 9, 10, 11}
    BY <1>3
  <2> QED
    BY <2>1, <2>2, SMTT(30) DEF Identifiers!LowerHex
<1>11. ASSUME NEW k \in 0 .. 15
       PROVE  Identifiers!ReadByte(id, 2 * k + 1 + Identifiers!DashesBefore(k)) = bytes[k]
  <2>1. IsHex(Identifiers!LowerHex) /\ bytes[k] \in 0 .. 255
    BY <1>4 DEF IsHex
  <2>2. CASE k \in 0 .. 3
    <3>1. Identifiers!DashesBefore(k) = 0
      BY <2>2, SMTT(30) DEF Identifiers!DashesBefore
    <3>2. HoldsBytes(id, bytes, 0, 3, Identifiers!LowerHex, 0)
      BY <1>6
    <3>3. Identifiers!ReadByte(id, 2 * k + 1 + 0) = bytes[k]
      BY <2>1, <2>2, <3>2, BytesReadBack, SMTT(30)
    <3> QED
      BY <3>1, <3>3, Zenon
  <2>3. CASE k \in 4 .. 5
    <3>1. Identifiers!DashesBefore(k) = 1
      BY <2>3 DEF Identifiers!DashesBefore
    <3>2. HoldsBytes(id, bytes, 4, 5, Identifiers!LowerHex, 1)
      BY <1>6
    <3>3. Identifiers!ReadByte(id, 2 * k + 1 + 1) = bytes[k]
      BY <2>1, <2>3, <3>2, BytesReadBack, SMT
    <3> QED
      BY <3>1, <3>3, Zenon
  <2>4. CASE k \in 6 .. 7
    <3>1. Identifiers!DashesBefore(k) = 2
      BY <2>4, SMTT(30) DEF Identifiers!DashesBefore
    <3>2. HoldsBytes(id, bytes, 6, 7, Identifiers!LowerHex, 2)
      BY <1>6
    <3>3. Identifiers!ReadByte(id, 2 * k + 1 + 2) = bytes[k]
      BY <2>1, <2>4, <3>2, BytesReadBack, SMT
    <3> QED
      BY <3>1, <3>3, Zenon
  <2>5. CASE k \in 8 .. 9
    <3>1. Identifiers!DashesBefore(k) = 3
      BY <2>5, SMTT(30) DEF Identifiers!DashesBefore
    <3>2. HoldsBytes(id, bytes, 8, 9, Identifiers!LowerHex, 3)
      BY <1>6
    <3>3. Identifiers!ReadByte(id, 2 * k + 1 + 3) = bytes[k]
      BY <2>1, <2>5, <3>2, BytesReadBack, SMT
    <3> QED
      BY <3>1, <3>3, Zenon
  <2>6. CASE k \in 10 .. 15
    <3>1. Identifiers!DashesBefore(k) = 4
      BY <2>6, SMTT(30) DEF Identifiers!DashesBefore
    <3>2. HoldsBytes(id, bytes, 10, 15, Identifiers!LowerHex, 4)
      BY <1>6
    <3>3. Identifiers!ReadByte(id, 2 * k + 1 + 4) = bytes[k]
      BY <2>1, <2>6, <3>2, BytesReadBack, SMT
    <3> QED
      BY <3>1, <3>3, Zenon
  <2> QED
    BY <2>2, <2>3, <2>4, <2>5, <2>6
<1>12. ASSUME NEW k \in 0 .. 15
       PROVE  LET modulus == CASE k = 6 -> 16 [] k = 8 -> 64 [] OTHER -> 256
              IN  bytes[k] % modulus = random[k] % modulus
  <2>1. CASE k = 6
    <3>1. random[6] \in 0 .. 255 /\ bytes[6] = (random[6] % 16) + 64
      BY <1>1
    <3>2. bytes[6] % 16 = random[6] % 16
      BY <3>1
    <3> QED
      BY <2>1, <3>2
  <2>2. CASE k = 8
    <3>1. random[8] \in 0 .. 255 /\ bytes[8] = (random[8] % 64) + 128
      BY <1>1
    <3>2. bytes[8] % 64 = random[8] % 64
      BY <3>1
    <3> QED
      BY <2>2, <3>2
  <2>3. CASE k # 6 /\ k # 8
    BY <1>1, <2>3, SMTT(30)
  <2> QED
    BY <2>1, <2>2, <2>3
<1> QED
  BY <1>7, <1>8, <1>9, <1>10, <1>11, <1>12, SMTT(30) DEF id, bytes

\* Every id and every Device UID that the firmware makes, of any random bytes
\* and of any MAC, is accepted and keeps what it is made from.
THEOREM MadeIdentifiersAlwaysUsable == Spec => []MadeIdentifiersUsable
<1>1. IdentifiersInv => Identifiers!GeneratedIdsUsable
  <2> SUFFICES ASSUME IdentifiersInv, input.kind = "random", output # <<"none">>
               PROVE  /\ output # <<"refused">>
                      /\ output[15] = "4" /\ output[20] \in {"8", "9", "a", "b"}
                      /\ \A k \in 0 .. 15 :
                           LET modulus == CASE k = 6 -> 16 [] k = 8 -> 64 [] OTHER -> 256
                           IN  Identifiers!ReadByte(output, 2 * k + 1 + Identifiers!DashesBefore(k)) % modulus
                                 = input.bytes[k] % modulus
    BY DEF Identifiers!GeneratedIdsUsable, Identifiers!Made
  <2>1. input.bytes \in [0 .. 15 -> 0 .. 255]
    BY SMTT(30) DEF IdentifiersInv
  <2>2. output = Identifiers!FromBytes(Identifiers!Marked(input.bytes))
    BY <2>1, IdUsable DEF IdentifiersInv, Identifiers!Parsed
  <2> QED
    BY <2>1, <2>2, IdUsable, SMTT(30)
<1>2. IdentifiersInv => Identifiers!DeviceUidsUsable
  <2> SUFFICES ASSUME IdentifiersInv, input.kind = "mac", output # <<"none">>
               PROVE  /\ output # <<"refused">>
                      /\ \A k \in 0 .. 5 : Identifiers!ReadByte(output, 11 + 2 * k) = input.bytes[k]
    BY DEF Identifiers!DeviceUidsUsable, Identifiers!Made
  <2>1. input.bytes \in [0 .. 5 -> 0 .. 255]
    BY DEF IdentifiersInv
  <2>2. output = Identifiers!DeviceUidString(input.bytes)
    BY <2>1, UidUsable DEF IdentifiersInv, Identifiers!Parsed
  <2> QED
    BY <2>1, <2>2, UidUsable
<1>3. IdentifiersInv => MadeIdentifiersUsable
  BY <1>1, <1>2 DEF MadeIdentifiersUsable
<1> QED
  BY <1>3, IdentifiersInvariance, PTL


-----------------------------------------------------------------------------
(* The release packaging, for any number of runs: every run may package      *)
(* another of any set of builds, be refused, or be killed anywhere.          *)

ImageOf(i) == Release!FlashImages(build)[i].image

\* The asset of the image mentioned at i is the one of this run, though the
\* text of the same name may have replaced its bytes.
Written(i) ==
  /\ writer[Release!Name(ImageOf(i))] = run
  /\ ImageOf(i) # "README.md" => out[Release!Name(ImageOf(i))] = build.files[ImageOf(i)]

ImagesDone == step \in {"flash_args", "README.md", "manifest.json"} \/ outcome = "packaged"
ArgsDone   == step \in {"README.md", "manifest.json"} \/ outcome = "packaged"
ReadmeDone == step = "manifest.json" \/ outcome = "packaged"

\* What the present or last run has written so far.
PackagingInv ==
  /\ run \in Nat /\ Release!IsBuild(build)
  /\ step \in {"idle", "images", "flash_args", "README.md", "manifest.json"}
  /\ out = [asset \in Release!Asset |-> out[asset]]
  /\ writer \in [Release!Asset -> Nat]
  /\ step # "idle" => Release!Valid(build) /\ outcome = "none"
  /\ outcome = "packaged" => Release!Valid(build) /\ step = "idle"
  /\ step = "images" =>
       /\ pos \in Release!Referenced(build)
       /\ \A i \in Release!Referenced(build) : i < pos => Written(i)
  /\ ImagesDone => \A i \in Release!Referenced(build) : Written(i)
  /\ ArgsDone => Release!Args = Release!RewrittenArgs(build) /\ writer["flash_args"] = run
  /\ ReadmeDone => out["README.md"] = <<"FLASHING.md">>
  /\ outcome = "packaged" => Release!Manifest = Release!ManifestImages(build)

\* No asset that the arguments name is older than they are.
ArgsAreOldest ==
  \A i \in DOMAIN Release!Args :
    /\ Release!Args[i].name \in Release!Asset \ {"flash_args", "manifest.json"}
    /\ writer["flash_args"] <= writer[Release!Args[i].name]

\* A manifest is that of a build, and so are the arguments as long as no later
\* run has written them; a run under way is later.
ManifestInv ==
  Release!Manifest # <<>> =>
    /\ Release!IsBuild(released)
    /\ Release!Manifest = Release!ManifestImages(released)
    /\ writer["manifest.json"] <= writer["flash_args"]
    /\ writer["flash_args"] = writer["manifest.json"] =>
         Release!Args = Release!RewrittenArgs(released)
    /\ step # "idle" => writer["manifest.json"] < run

MixtureInv ==
  /\ \A asset \in Release!Asset : writer[asset] <= run
  /\ ArgsAreOldest
  /\ ManifestInv

LEMMA RunsRelease == Spec => Release!Spec
<1>1. Init => Release!Init
  BY DEF Init
<1>2. [Next]_vars => [Release!Next]_Release!vars
  BY DEF Next, vars, IdentifiersRun, JsonRuns, ReleaseRuns, SamplingRuns,
         releaseVars, Release!vars
<1> QED
  BY <1>1, <1>2, PTL DEF Spec, Release!Spec

\* The order in which the assets are written.
LEMMA FollowingSteps ==
  /\ Release!Following("idle") = "images"
  /\ Release!Following("images") = "flash_args"
  /\ Release!Following("flash_args") = "README.md"
  /\ Release!Following("README.md") = "manifest.json"
  /\ Release!Following("manifest.json") = "idle"
BY DEF Release!Following, Release!Order

\* The assets of images are not flash_args and the manifest.
LEMMA NamesOfImages ==
  ASSUME NEW image \in Release!Image \ {"../boot"}
  PROVE  /\ Release!Name(image) \in Release!Asset \ {"flash_args", "manifest.json"}
         /\ Release!Name(image) = "README.md" <=> image = "README.md"
BY DEF Release!Image, Release!Name, Release!Asset

LEMMA PlacesOfBuild ==
  ASSUME NEW b, Release!IsBuild(b)
  PROVE  /\ Len(b.places) \in Nat /\ DOMAIN b.places = 1 .. Len(b.places)
         /\ \A i \in DOMAIN b.places : b.places[i].image \in Release!Image
         /\ DOMAIN Release!FlashImages(b) = DOMAIN b.places
         /\ Len(Release!FlashImages(b)) = Len(b.places)
         /\ \A i \in DOMAIN b.places :
              /\ Release!FlashImages(b)[i].image = b.places[i].image
              /\ Release!FlashImages(b)[i].address = b.places[i].address
<1>1. b.places \in Seq([line: Nat, address: Nat, image: Release!Image])
  BY DEF Release!IsBuild
<1>2. \A i \in 1 .. Len(b.places) : b.places[i] \in [line: Nat, address: Nat, image: Release!Image]
  BY <1>1, ElementOfSeq
<1>3. Len(b.places) \in Nat /\ DOMAIN b.places = 1 .. Len(b.places)
  BY <1>1, LenProperties
<1>4. /\ DOMAIN Release!FlashImages(b) = DOMAIN b.places
      /\ Len(Release!FlashImages(b)) = Len(b.places)
      /\ \A i \in DOMAIN b.places :
           /\ Release!FlashImages(b)[i].image = b.places[i].image
           /\ Release!FlashImages(b)[i].address = b.places[i].address
  BY <1>3 DEF Release!FlashImages
<1> QED
  BY <1>1, <1>2, <1>3, <1>4, LenProperties

LEMMA ReferencedPlaces ==
  ASSUME NEW b, Release!IsBuild(b)
  PROVE  \A i \in Release!Referenced(b) :
           /\ i \in DOMAIN b.places
           /\ Release!FlashImages(b)[i].image = b.places[i].image
BY PlacesOfBuild DEF Release!Referenced

\* Every image has a first mention, and an address.
LEMMA FirstMention ==
  ASSUME NEW b, Release!IsBuild(b), NEW i \in DOMAIN b.places
  PROVE  \E j \in Release!Referenced(b) : b.places[j].image = b.places[i].image
<1> DEFINE T == {j \in DOMAIN b.places : b.places[j].image = b.places[i].image}
<1>1. T \subseteq Nat /\ T # {}
  BY PlacesOfBuild
<1>2. PICK j \in T : \A k \in T : j <= k
  BY <1>1, LeastNatural
<1>3. j \in Release!Referenced(b)
  <2>1. ASSUME NEW k \in 1 .. j - 1, b.places[k].image = b.places[j].image
        PROVE  FALSE
    <3>1. k \in DOMAIN b.places
      BY PlacesOfBuild
    <3>2. k \in T
      BY <1>2, <2>1, <3>1
    <3> QED
      BY <1>1, <1>2, <3>2
  <2> QED
    BY <1>2, <2>1, PlacesOfBuild DEF Release!Referenced
<1> QED
  BY <1>2, <1>3

LEMMA LastMention ==
  ASSUME NEW b, Release!IsBuild(b), NEW i \in DOMAIN b.places
  PROVE  \E k \in DOMAIN b.places :
           /\ b.places[k].image = b.places[i].image
           /\ b.places[k].address = Release!FlashAddress(b, b.places[i].image)
<1> DEFINE images == Release!FlashImages(b)
           image  == b.places[i].image
           T == {j \in DOMAIN images : images[j].image = image}
           IsLast(j) == /\ images[j].image = image
                        /\ \A k \in DOMAIN images : images[k].image = image => k <= j
           last == CHOOSE j \in DOMAIN images : IsLast(j)
<1>1. /\ Len(b.places) \in Nat /\ DOMAIN images = 1 .. Len(b.places)
      /\ DOMAIN b.places = 1 .. Len(b.places)
      /\ \A j \in DOMAIN images :
           images[j].image = b.places[j].image /\ images[j].address = b.places[j].address
  BY PlacesOfBuild
<1>2. Release!FlashAddress(b, image) = images[last].address
  BY DEF Release!FlashAddress
<1> HIDE DEF images
<1>3. T \subseteq 1 .. Len(b.places) /\ T # {}
  BY <1>1
<1>4. \E j \in T : \A k \in T : j >= k
  BY <1>1, <1>3, GreatestBelow
<1>5. \E j \in DOMAIN images : IsLast(j)
  <2>1. PICK j \in T : \A k \in T : j >= k
    BY <1>4
  <2>2. \A k \in T : k <= j
    BY <1>1, <1>3, <2>1
  <2> QED
    BY <2>1, <2>2
<1>6. last \in DOMAIN images /\ IsLast(last)
  BY <1>5
<1> HIDE DEF last, T
<1>7. /\ last \in DOMAIN b.places /\ b.places[last].image = image
      /\ b.places[last].address = images[last].address
  BY <1>1, <1>6
<1> QED
  BY <1>2, <1>7

LEMMA ArgsRewritten ==
  ASSUME NEW b, Release!IsBuild(b)
  PROVE  Release!RewrittenArgs(b) =
           [i \in DOMAIN b.places |->
              [address |-> b.places[i].address, name |-> Release!Name(b.places[i].image)]]
<1> DEFINE entry(i) == [address |-> Release!FlashImages(b)[i].address,
                        name    |-> Release!Name(Release!FlashImages(b)[i].image)]
<1>1. Release!RewrittenArgs(b) = [i \in DOMAIN Release!FlashImages(b) |-> entry(i)]
  BY DEF Release!RewrittenArgs
<1>2. DOMAIN Release!FlashImages(b) = DOMAIN b.places
  BY PlacesOfBuild
<1>3. \A i \in DOMAIN b.places :
        entry(i) = [address |-> b.places[i].address, name |-> Release!Name(b.places[i].image)]
  BY PlacesOfBuild
<1> HIDE DEF entry
<1> QED
  BY <1>1, <1>2, <1>3


\* What the checks before the first asset ensure.
LEMMA ValidBuild ==
  ASSUME NEW b, Release!IsBuild(b), Release!Valid(b)
  PROVE  /\ \A i \in Release!Referenced(b) :
              i \in DOMAIN b.places /\ b.places[i].image \in Release!Image \ {"../boot"}
         /\ \A i, j \in Release!Referenced(b) :
              Release!Name(b.places[i].image) = Release!Name(b.places[j].image) => i = j
         /\ 1 \in Release!Referenced(b)
         /\ \E i \in Release!Referenced(b) : b.places[i].image = "boot"
<1>1. Release!ReferencedImages(b) = {b.places[i].image : i \in DOMAIN b.places}
  BY PlacesOfBuild DEF Release!ReferencedImages, Release!ToSet
<1>2. \A i \in Release!Referenced(b) : i \in DOMAIN b.places
  BY PlacesOfBuild DEF Release!Referenced
<1>3. \A i \in DOMAIN b.places : b.places[i].image \in Release!Image \ {"../boot"}
  BY <1>1, PlacesOfBuild DEF Release!Valid
<1>4. ASSUME NEW i \in Release!Referenced(b), NEW j \in Release!Referenced(b),
             Release!Name(b.places[i].image) = Release!Name(b.places[j].image)
      PROVE  i = j
  <2>1. b.places[i].image = b.places[j].image
    BY <1>1, <1>2, <1>4 DEF Release!Valid
  <2>2. ~(j \in 1 .. i - 1) /\ ~(i \in 1 .. j - 1)
    BY <2>1, PlacesOfBuild DEF Release!Referenced
  <2> QED
    BY <1>2, <2>2, PlacesOfBuild
<1>5. PICK k \in DOMAIN b.places : b.places[k].image = "boot"
  BY <1>1 DEF Release!Valid, Release!Required
<1>6. \E i \in Release!Referenced(b) : b.places[i].image = "boot"
  BY <1>5, FirstMention
<1>7. 1 \in Release!Referenced(b)
  BY <1>5, PlacesOfBuild DEF Release!Referenced
<1> QED
  BY <1>2, <1>3, <1>4, <1>6, <1>7

LEMMA InitRelease == Release!Init => PackagingInv /\ MixtureInv
<1> SUFFICES ASSUME Release!Init
             PROVE  PackagingInv /\ MixtureInv
  OBVIOUS
<1>1. Release!IsBuild(build)
  BY EmptySeq DEF Release!Init, Release!IsBuild, Release!NoBuild
<1>2. Release!Manifest = <<>> /\ Release!Args = <<>>
  BY DEF Release!Init, Release!Manifest, Release!Args, Release!Asset
<1>3. /\ out = [asset \in Release!Asset |-> out[asset]]
      /\ writer \in [Release!Asset -> Nat]
      /\ \A asset \in Release!Asset : writer[asset] = 0
  BY DEF Release!Init
<1>4. ArgsAreOldest
  BY <1>2 DEF ArgsAreOldest
<1> QED
  BY <1>1, <1>2, <1>3, <1>4
     DEF Release!Init, PackagingInv, MixtureInv, ManifestInv, ImagesDone, ArgsDone, ReadmeDone

\* One asset is written: which of the others stay.
LEMMA WriteKeeps ==
  ASSUME NEW asset \in Release!Asset, NEW content, Release!WriteFile(asset, content), PackagingInv
  PROVE  /\ build' = build /\ run' = run
         /\ out' = [a \in Release!Asset |-> out'[a]]
         /\ writer' \in [Release!Asset -> Nat]
         /\ out'[asset] = content /\ writer'[asset] = run
         /\ \A a \in Release!Asset \ {asset} : out'[a] = out[a] /\ writer'[a] = writer[a]
<1>1. run \in Nat /\ out = [a \in Release!Asset |-> out[a]] /\ writer \in [Release!Asset -> Nat]
  BY DEF PackagingInv
<1> QED
  BY <1>1 DEF Release!WriteFile

\* An image that is written leaves the assets of the others alone.
LEMMA ImageWritten ==
  ASSUME PackagingInv, step = "images", NEW content,
         Release!WriteFile(Release!Name(ImageOf(pos)), content)
  PROVE  /\ build' = build /\ run' = run
         /\ out' = [a \in Release!Asset |-> out'[a]]
         /\ writer' \in [Release!Asset -> Nat]
         /\ out'[Release!Name(ImageOf(pos))] = content
         /\ writer'[Release!Name(ImageOf(pos))] = run
         /\ \A a \in {"flash_args", "manifest.json"} : out'[a] = out[a] /\ writer'[a] = writer[a]
         /\ \A a \in Release!Asset : writer'[a] = writer[a] \/ writer'[a] = run
         /\ \A i \in Release!Referenced(build) : i # pos /\ Written(i) => Written(i)'
<1> DEFINE asset == Release!Name(ImageOf(pos))
<1>1. pos \in Release!Referenced(build) /\ Release!IsBuild(build) /\ Release!Valid(build)
  BY DEF PackagingInv
<1>2. \A i \in Release!Referenced(build) :
        /\ Release!Name(ImageOf(i)) \in Release!Asset \ {"flash_args", "manifest.json"}
        /\ Release!Name(ImageOf(i)) = asset => i = pos
  BY <1>1, ValidBuild, NamesOfImages, PlacesOfBuild DEF ImageOf
<1>3. asset \in Release!Asset \ {"flash_args", "manifest.json"}
  BY <1>1, <1>2
<1> HIDE DEF asset
<1>4. /\ build' = build /\ run' = run
      /\ out' = [a \in Release!Asset |-> out'[a]]
      /\ writer' \in [Release!Asset -> Nat]
      /\ out'[asset] = content /\ writer'[asset] = run
      /\ \A a \in Release!Asset \ {asset} : out'[a] = out[a] /\ writer'[a] = writer[a]
  BY <1>3, WriteKeeps DEF asset
<1>5. {"flash_args", "manifest.json"} \subseteq Release!Asset
  BY DEF Release!Asset
<1>6. \A a \in {"flash_args", "manifest.json"} : out'[a] = out[a] /\ writer'[a] = writer[a]
  BY <1>3, <1>4, <1>5
<1>7. \A a \in Release!Asset : writer'[a] = writer[a] \/ writer'[a] = run
  BY <1>4
<1>8. ASSUME NEW i \in Release!Referenced(build), i # pos, Written(i)
      PROVE  Written(i)'
  <2>1. Release!Name(ImageOf(i)) \in Release!Asset \ {asset}
    BY <1>2, <1>8
  <2>2. /\ out'[Release!Name(ImageOf(i))] = out[Release!Name(ImageOf(i))]
        /\ writer'[Release!Name(ImageOf(i))] = writer[Release!Name(ImageOf(i))]
    BY <1>4, <2>1
  <2> QED
    BY <1>4, <1>8, <2>2 DEF Written, ImageOf
<1> QED
  BY <1>4, <1>6, <1>7, <1>8 DEF asset

\* A text that is written leaves everything else alone, but for an image that is
\* named like it.
LEMMA TextWritten ==
  ASSUME PackagingInv, NEW asset \in {"flash_args", "README.md", "manifest.json"}, NEW content,
         Release!WriteFile(asset, content)
  PROVE  /\ build' = build /\ run' = run
         /\ out' = [a \in Release!Asset |-> out'[a]]
         /\ writer' \in [Release!Asset -> Nat]
         /\ out'[asset] = content /\ writer'[asset] = run
         /\ \A a \in {"flash_args", "README.md", "manifest.json"} \ {asset} :
              out'[a] = out[a] /\ writer'[a] = writer[a]
         /\ \A a \in Release!Asset : writer'[a] = writer[a] \/ writer'[a] = run
         /\ (\A i \in Release!Referenced(build) : Written(i)) /\ Release!Valid(build) =>
              \A i \in Release!Referenced(build) : Written(i)'
<1>1. Release!IsBuild(build)
  BY DEF PackagingInv
<1>2. {"flash_args", "README.md", "manifest.json"} \subseteq Release!Asset
  BY DEF Release!Asset
<1>3. /\ build' = build /\ run' = run
      /\ out' = [a \in Release!Asset |-> out'[a]]
      /\ writer' \in [Release!Asset -> Nat]
      /\ out'[asset] = content /\ writer'[asset] = run
      /\ \A a \in Release!Asset \ {asset} : out'[a] = out[a] /\ writer'[a] = writer[a]
  BY <1>2, WriteKeeps
<1>4. \A a \in {"flash_args", "README.md", "manifest.json"} \ {asset} :
        out'[a] = out[a] /\ writer'[a] = writer[a]
  BY <1>2, <1>3
<1>5. \A a \in Release!Asset : writer'[a] = writer[a] \/ writer'[a] = run
  BY <1>3
<1>6. ASSUME Release!Valid(build), NEW i \in Release!Referenced(build), Written(i)
      PROVE  Written(i)'
  <2>1. /\ Release!Name(ImageOf(i)) \in Release!Asset \ {"flash_args", "manifest.json"}
        /\ Release!Name(ImageOf(i)) = "README.md" <=> ImageOf(i) = "README.md"
    BY <1>1, <1>6, ValidBuild, NamesOfImages, PlacesOfBuild DEF ImageOf
  <2>2. CASE Release!Name(ImageOf(i)) = asset
    <3>1. ImageOf(i) = "README.md"
      BY <2>1, <2>2
    <3> QED
      BY <1>3, <2>2, <3>1 DEF Written, ImageOf
  <2>3. CASE Release!Name(ImageOf(i)) # asset
    <3>1. /\ out'[Release!Name(ImageOf(i))] = out[Release!Name(ImageOf(i))]
          /\ writer'[Release!Name(ImageOf(i))] = writer[Release!Name(ImageOf(i))]
      BY <1>3, <2>1, <2>3
    <3> QED
      BY <1>3, <1>6, <3>1 DEF Written, ImageOf
  <2> QED
    BY <2>2, <2>3
<1> QED
  BY <1>3, <1>4, <1>5, <1>6

LEMMA StepPackaging == PackagingInv /\ [Release!Next]_Release!vars => PackagingInv'
<1> SUFFICES ASSUME PackagingInv, [Release!Next]_Release!vars
             PROVE  PackagingInv'
  OBVIOUS
<1> USE DEF ImagesDone, ArgsDone, ReadmeDone
<1>1. /\ run \in Nat /\ Release!IsBuild(build)
      /\ step \in {"idle", "images", "flash_args", "README.md", "manifest.json"}
      /\ out = [asset \in Release!Asset |-> out[asset]]
      /\ writer \in [Release!Asset -> Nat]
      /\ step # "idle" => Release!Valid(build) /\ outcome = "none"
  BY DEF PackagingInv
<1>2. ASSUME NEW b \in Builds, Release!Package(b)
      PROVE  PackagingInv'
  <2>1. Release!IsBuild(b)
    BY BuildsAssumption
  <2>2. /\ step = "idle" /\ run' = run + 1 /\ build' = b /\ pos' = 1
        /\ out' = out /\ writer' = writer
        /\ \/ Release!Valid(b) /\ step' = "images" /\ outcome' = "none"
           \/ outcome' = "refused" /\ step' = step
    BY <1>2, FollowingSteps DEF Release!Package
  <2>3. CASE Release!Valid(b) /\ step' = "images" /\ outcome' = "none"
    <3>1. /\ 1 \in Release!Referenced(b)
          /\ \A i \in Release!Referenced(b) : ~(i < 1)
      BY <2>1, <2>3, ValidBuild, PlacesOfBuild
    <3> QED
      BY <1>1, <2>1, <2>2, <2>3, <3>1 DEF PackagingInv
  <2>4. CASE outcome' = "refused" /\ step' = step
    BY <1>1, <2>1, <2>2, <2>4 DEF PackagingInv
  <2> QED
    BY <2>2, <2>3, <2>4
<1>3. CASE Release!WriteImage
  <2> DEFINE later == Release!Later(build, pos)
  <2>1. /\ step = "images" /\ Release!WriteFile(Release!Name(ImageOf(pos)), build.files[ImageOf(pos)])
        /\ \/ later = {} /\ step' = "flash_args" /\ outcome' = outcome /\ pos' = pos
           \/ /\ pos' \in later /\ \A i \in later : pos' <= i
              /\ step' = step /\ outcome' = outcome
    BY <1>3, FollowingSteps DEF Release!WriteImage, Release!Proceed, ImageOf
  <2>2. PICK p \in Release!Referenced(build) :
          p = pos /\ \A i \in Release!Referenced(build) : i < p => Written(i)
    BY <2>1 DEF PackagingInv
  <2>3. /\ build' = build /\ run' = run
        /\ out' = [a \in Release!Asset |-> out'[a]]
        /\ writer' \in [Release!Asset -> Nat]
        /\ \A i \in Release!Referenced(build) : i # p /\ Written(i) => Written(i)'
        /\ Written(p)'
    <3>1. /\ build' = build /\ run' = run
          /\ out' = [a \in Release!Asset |-> out'[a]]
          /\ writer' \in [Release!Asset -> Nat]
          /\ out'[Release!Name(ImageOf(p))] = build.files[ImageOf(p)]
          /\ writer'[Release!Name(ImageOf(p))] = run
          /\ \A i \in Release!Referenced(build) : i # p /\ Written(i) => Written(i)'
      BY <2>1, <2>2, ImageWritten
    <3>2. Written(p)'
      BY <3>1 DEF Written, ImageOf
    <3> QED
      BY <3>1, <3>2
  <2>4. \A i \in Release!Referenced(build) : i \in Nat
    BY <1>1, PlacesOfBuild DEF Release!Referenced
  <2>5. \A i \in Release!Referenced(build) : i > p => i \in later
    BY <2>2 DEF Release!Later
  <2>6. CASE later = {} /\ step' = "flash_args" /\ outcome' = outcome
    <3>1. \A i \in Release!Referenced(build) : Written(i)'
      BY <2>2, <2>3, <2>4, <2>5, <2>6
    <3> QED
      BY <1>1, <2>1, <2>3, <2>6, <3>1 DEF PackagingInv
  <2>7. CASE /\ pos' \in later /\ \A i \in later : pos' <= i
             /\ step' = step /\ outcome' = outcome
    <3>1. pos' \in Release!Referenced(build)
      BY <2>7 DEF Release!Later
    <3>2. \A i \in Release!Referenced(build) : i < pos' => Written(i)'
      BY <2>2, <2>3, <2>4, <2>5, <2>7, <3>1
    <3> QED
      BY <1>1, <2>1, <2>3, <2>7, <3>1, <3>2 DEF PackagingInv
  <2> QED
    BY <2>1, <2>6, <2>7
<1>4. CASE Release!WriteFlashArgs
  <2>1. /\ step = "flash_args"
        /\ \/ /\ Release!WriteFile("flash_args", Release!RewrittenArgs(build))
              /\ step' = "README.md" /\ outcome' = outcome
           \/ step' = "idle" /\ outcome' = "refused" /\ UNCHANGED <<build, run, out, writer>>
    BY <1>4, FollowingSteps DEF Release!WriteFlashArgs, Release!Proceed
  <2>2. CASE /\ Release!WriteFile("flash_args", Release!RewrittenArgs(build))
             /\ step' = "README.md" /\ outcome' = outcome
    <3>1. \A i \in Release!Referenced(build) : Written(i)
      BY <2>1 DEF PackagingInv
    <3>2. /\ build' = build /\ run' = run
          /\ out' = [a \in Release!Asset |-> out'[a]]
          /\ writer' \in [Release!Asset -> Nat] /\ writer'["flash_args"] = run
          /\ Release!Args' = Release!RewrittenArgs(build)
          /\ \A i \in Release!Referenced(build) : Written(i)'
      BY <1>1, <2>1, <2>2, <3>1, TextWritten DEF Release!Args
    <3> QED
      BY <1>1, <2>1, <2>2, <3>2 DEF PackagingInv
  <2>3. CASE step' = "idle" /\ outcome' = "refused" /\ UNCHANGED <<build, run, out, writer>>
    BY <1>1, <2>3 DEF PackagingInv
  <2> QED
    BY <2>1, <2>2, <2>3
<1>5. CASE Release!WriteReadme
  <2>1. /\ step = "README.md" /\ Release!WriteFile("README.md", <<"FLASHING.md">>)
        /\ step' = "manifest.json" /\ outcome' = outcome
    BY <1>5, FollowingSteps DEF Release!WriteReadme, Release!Proceed
  <2>2. /\ \A i \in Release!Referenced(build) : Written(i)
        /\ Release!Args = Release!RewrittenArgs(build) /\ writer["flash_args"] = run
    BY <2>1 DEF PackagingInv
  <2>3. /\ build' = build /\ run' = run
        /\ out' = [a \in Release!Asset |-> out'[a]]
        /\ writer' \in [Release!Asset -> Nat]
        /\ out'["README.md"] = <<"FLASHING.md">>
        /\ Release!Args' = Release!Args /\ writer'["flash_args"] = writer["flash_args"]
        /\ \A i \in Release!Referenced(build) : Written(i)'
    BY <1>1, <2>1, <2>2, TextWritten DEF Release!Args
  <2> QED
    BY <1>1, <2>1, <2>2, <2>3 DEF PackagingInv
<1>6. CASE Release!WriteManifest
  <2>1. /\ step = "manifest.json" /\ Release!WriteFile("manifest.json", Release!ManifestImages(build))
        /\ step' = "idle" /\ outcome' = "packaged"
    BY <1>6, FollowingSteps DEF Release!WriteManifest, Release!Proceed
  <2>2. /\ \A i \in Release!Referenced(build) : Written(i)
        /\ Release!Args = Release!RewrittenArgs(build) /\ writer["flash_args"] = run
        /\ out["README.md"] = <<"FLASHING.md">>
    BY <2>1 DEF PackagingInv
  <2>3. /\ build' = build /\ run' = run
        /\ out' = [a \in Release!Asset |-> out'[a]]
        /\ writer' \in [Release!Asset -> Nat]
        /\ out'["README.md"] = out["README.md"]
        /\ Release!Args' = Release!Args /\ writer'["flash_args"] = writer["flash_args"]
        /\ Release!Manifest' = Release!ManifestImages(build)
        /\ \A i \in Release!Referenced(build) : Written(i)'
    BY <1>1, <2>1, <2>2, TextWritten DEF Release!Args, Release!Manifest
  <2> QED
    BY <1>1, <2>1, <2>2, <2>3 DEF PackagingInv
<1>7. CASE Release!Killed
  <2>1. step # "idle" /\ step' = "idle" /\ outcome' = "killed"
    BY <1>7 DEF Release!Killed
  <2>2. build' = build /\ run' = run
    BY <1>7 DEF Release!Killed, Release!WriteFile
  <2>3. out' = [a \in Release!Asset |-> out'[a]] /\ writer' \in [Release!Asset -> Nat]
    <3>1. CASE out' = out /\ writer' = writer
      BY <1>1, <3>1
    <3>2. CASE step = "images" /\ Release!WriteFile(Release!Name(ImageOf(pos)), <<>>)
      BY <3>2, ImageWritten
    <3>3. CASE step # "images" /\ Release!WriteFile(step, <<>>)
      <4>1. step \in {"flash_args", "README.md", "manifest.json"}
        BY <1>1, <2>1, <3>3
      <4> QED
        BY <3>3, <4>1, TextWritten
    <3> QED
      BY <1>7, <3>1, <3>2, <3>3 DEF Release!Killed, ImageOf
  <2> QED
    BY <1>1, <2>1, <2>2, <2>3 DEF PackagingInv
<1>8. CASE UNCHANGED Release!vars
  <2>1. UNCHANGED <<build, run, step, pos, out, outcome, writer>>
    BY <1>8 DEF Release!vars
  <2>2. \A i : Written(i)' <=> Written(i)
    BY <2>1 DEF Written, ImageOf
  <2> QED
    BY <2>1, <2>2 DEF PackagingInv, Release!Args, Release!Manifest
<1> QED
  BY <1>2, <1>3, <1>4, <1>5, <1>6, <1>7, <1>8 DEF Release!Next

\* The manifest of a run that has written everything else describes the arguments.
LEMMA ManifestDescribesArgs ==
  ASSUME NEW b, Release!IsBuild(b),
         NEW args, NEW manifest,
         args = [i \in DOMAIN b.places |->
                   [address |-> b.places[i].address, name |-> Release!Name(b.places[i].image)]],
         DOMAIN manifest = Release!Referenced(b),
         \A j \in Release!Referenced(b) :
           /\ manifest[j].path = Release!Name(b.places[j].image)
           /\ manifest[j].address = Release!FlashAddress(b, b.places[j].image)
  PROVE  Release!Describes(manifest, args)
<1>1. ASSUME NEW i \in DOMAIN args
      PROVE  \E j \in DOMAIN manifest : manifest[j].path = args[i].name
  <2>1. PICK j \in Release!Referenced(b) : b.places[j].image = b.places[i].image
    BY FirstMention
  <2> QED
    BY <2>1
<1>2. ASSUME NEW j \in DOMAIN manifest
      PROVE  [address |-> manifest[j].address, name |-> manifest[j].path] \in Release!ToSet(args)
  <2>1. j \in DOMAIN b.places
    BY PlacesOfBuild DEF Release!Referenced
  <2>2. PICK k \in DOMAIN b.places :
          /\ b.places[k].image = b.places[j].image
          /\ b.places[k].address = Release!FlashAddress(b, b.places[j].image)
    BY <2>1, LastMention
  <2>3. args[k] = [address |-> manifest[j].address, name |-> manifest[j].path]
    BY <2>2
  <2>4. k \in DOMAIN args
    OBVIOUS
  <2> QED
    BY <2>3, <2>4 DEF Release!ToSet
<1> QED
  BY <1>1, <1>2 DEF Release!Describes

LEMMA ManifestOfBuild ==
  ASSUME NEW b, Release!IsBuild(b)
  PROVE  /\ DOMAIN Release!ManifestImages(b) = Release!Referenced(b)
         /\ \A j \in Release!Referenced(b) :
              /\ Release!ManifestImages(b)[j].path = Release!Name(b.places[j].image)
              /\ Release!ManifestImages(b)[j].sha256 = b.files[b.places[j].image]
              /\ Release!ManifestImages(b)[j].address = Release!FlashAddress(b, b.places[j].image)
BY ReferencedPlaces DEF Release!ManifestImages

\* The arguments of a build flash it as long as every image it references is
\* there with the bytes of the build.
LEMMA FlashedAsBuilt ==
  ASSUME NEW b, Release!IsBuild(b), Release!Args = Release!RewrittenArgs(b),
         \A j \in Release!Referenced(b) :
           out[Release!Name(b.places[j].image)] = b.files[b.places[j].image]
  PROVE  Release!Flashes(b)
<1>1. Release!Args =
        [i \in 1 .. Len(b.places) |->
           [address |-> b.places[i].address, name |-> Release!Name(b.places[i].image)]]
  BY ArgsRewritten, PlacesOfBuild
<1>2. Len(Release!Args) = Len(Release!FlashImages(b))
  BY <1>1, PlacesOfBuild
<1>3. ASSUME NEW i \in DOMAIN b.places
      PROVE  /\ Release!Args[i].address = b.places[i].address
             /\ out[Release!Args[i].name] = b.files[b.places[i].image]
  <2>1. PICK j \in Release!Referenced(b) : b.places[j].image = b.places[i].image
    BY FirstMention
  <2>2. out[Release!Name(b.places[i].image)] = b.files[b.places[i].image]
    BY <2>1
  <2> QED
    BY <1>1, <2>2, PlacesOfBuild
<1> QED
  BY <1>2, <1>3, PlacesOfBuild DEF Release!Flashes

\* Whatever else is written by the present run, the arguments stay the oldest.
LEMMA ArgsStayOldest ==
  ASSUME MixtureInv, run \in Nat, writer \in [Release!Asset -> Nat],
         Release!Args' = Release!Args, writer'["flash_args"] = writer["flash_args"],
         \A a \in Release!Asset : writer'[a] = writer[a] \/ writer'[a] = run
  PROVE  ArgsAreOldest'
<1> SUFFICES ASSUME NEW i \in DOMAIN Release!Args
             PROVE  /\ Release!Args[i].name \in Release!Asset \ {"flash_args", "manifest.json"}
                    /\ writer["flash_args"] <= writer'[Release!Args[i].name]
  BY DEF ArgsAreOldest
<1>1. /\ Release!Args[i].name \in Release!Asset \ {"flash_args", "manifest.json"}
      /\ writer["flash_args"] <= writer[Release!Args[i].name]
  BY DEF MixtureInv, ArgsAreOldest
<1>2. "flash_args" \in Release!Asset
  BY DEF Release!Asset
<1>3. writer["flash_args"] <= run
  BY <1>2 DEF MixtureInv
<1> QED
  BY <1>1, <1>3

\* What is said of a manifest stays true while it and the arguments stay.
LEMMA ManifestStays ==
  ASSUME MixtureInv,
         Release!Manifest' = Release!Manifest, Release!Args' = Release!Args, released' = released,
         \A a \in {"flash_args", "manifest.json"} : writer'[a] = writer[a],
         step' # "idle" /\ Release!Manifest # <<>> => writer["manifest.json"] < run'
  PROVE  ManifestInv'
BY DEF MixtureInv, ManifestInv

LEMMA StepMixture ==
  PackagingInv /\ MixtureInv /\ [Release!Next]_Release!vars => MixtureInv'
<1> SUFFICES ASSUME PackagingInv, MixtureInv, [Release!Next]_Release!vars
             PROVE  MixtureInv'
  OBVIOUS
<1> DEFINE Bounded == \A a \in Release!Asset : writer[a] <= run
           Later   == \A a \in Release!Asset : writer'[a] = writer[a] \/ writer'[a] = run
<1>1. /\ run \in Nat /\ Release!IsBuild(build)
      /\ step \in {"idle", "images", "flash_args", "README.md", "manifest.json"}
      /\ writer \in [Release!Asset -> Nat]
      /\ step # "idle" => Release!Valid(build)
      /\ step \in {"flash_args", "README.md", "manifest.json"} =>
           \A i \in Release!Referenced(build) : Written(i)
      /\ step \in {"README.md", "manifest.json"} =>
           Release!Args = Release!RewrittenArgs(build) /\ writer["flash_args"] = run
  BY DEF PackagingInv, ImagesDone, ArgsDone
<1>2. {"flash_args", "README.md", "manifest.json"} \subseteq Release!Asset
  BY DEF Release!Asset
<1>3. /\ Bounded
      /\ step # "idle" /\ Release!Manifest # <<>> => writer["manifest.json"] < run
  BY DEF MixtureInv, ManifestInv
<1>4. run' = run /\ Later => Bounded'
  BY <1>1, <1>3
<1>5. ASSUME NEW b \in Builds, Release!Package(b)
      PROVE  MixtureInv'
  <2>1. UNCHANGED <<out, writer, released>> /\ run' = run + 1
    BY <1>5 DEF Release!Package
  <2>2. Bounded'
    BY <1>1, <1>3, <2>1
  <2>3. Release!Manifest # <<>> => writer["manifest.json"] < run'
    BY <1>1, <1>2, <1>3, <2>1
  <2>4. UNCHANGED <<Release!Args, Release!Manifest>>
    BY <2>1 DEF Release!Args, Release!Manifest
  <2> QED
    BY <1>1, <2>1, <2>2, <2>3, <2>4, ArgsStayOldest, ManifestStays DEF MixtureInv
\* An image is written, or emptied.
<1>6. ASSUME NEW content, step = "images", released' = released,
             Release!WriteFile(Release!Name(ImageOf(pos)), content)
      PROVE  MixtureInv'
  <2>1. /\ run' = run /\ Later
        /\ \A a \in {"flash_args", "manifest.json"} : out'[a] = out[a] /\ writer'[a] = writer[a]
    BY <1>6, ImageWritten
  <2>2. UNCHANGED <<Release!Args, Release!Manifest>>
    BY <2>1 DEF Release!Args, Release!Manifest
  <2>3. ArgsAreOldest'
    BY <1>1, <2>1, <2>2, ArgsStayOldest
  <2>4. ManifestInv'
    BY <1>3, <1>6, <2>1, <2>2, ManifestStays
  <2> QED
    BY <1>4, <2>1, <2>3, <2>4 DEF MixtureInv
\* The arguments are written, or emptied: the manifest is of an earlier run.
<1>7. ASSUME NEW content \in {Release!RewrittenArgs(build), <<>>}, step = "flash_args",
             released' = released, Release!WriteFile("flash_args", content)
      PROVE  MixtureInv'
  <2>1. /\ run' = run /\ Later
        /\ Release!Args' = content /\ writer'["flash_args"] = run
        /\ Release!Manifest' = Release!Manifest
        /\ writer'["manifest.json"] = writer["manifest.json"]
        /\ \A i \in Release!Referenced(build) : Written(i)'
        /\ build' = build
    BY <1>1, <1>7, TextWritten DEF Release!Args, Release!Manifest
  <2>2. ArgsAreOldest'
    <3> SUFFICES ASSUME NEW i \in DOMAIN content
                 PROVE  /\ content[i].name \in Release!Asset \ {"flash_args", "manifest.json"}
                        /\ run <= writer'[content[i].name]
      BY <2>1 DEF ArgsAreOldest
    <3>1. content = Release!RewrittenArgs(build)
      BY <1>7
    <3>2. i \in DOMAIN build.places /\ content[i].name = Release!Name(build.places[i].image)
      BY <1>1, <3>1, ArgsRewritten
    <3>3. PICK j \in Release!Referenced(build) : build.places[j].image = build.places[i].image
      BY <1>1, <3>2, FirstMention
    <3>4. ImageOf(j) = build.places[i].image
      BY <1>1, <3>3, ReferencedPlaces DEF ImageOf
    <3>5. writer'[content[i].name] = run
      BY <2>1, <3>2, <3>3, <3>4 DEF Written, ImageOf
    <3>6. build.places[i].image \in Release!Image \ {"../boot"}
      BY <1>1, <1>7, <3>3, ValidBuild
    <3> QED
      BY <1>1, <3>2, <3>5, <3>6, NamesOfImages
  <2>3. ManifestInv'
    <3>1. Release!Manifest # <<>> => writer["manifest.json"] < run
      BY <1>3, <1>7
    <3>2. writer["manifest.json"] \in Nat
      BY <1>1, <1>2
    <3> QED
      BY <1>1, <1>7, <2>1, <3>1, <3>2 DEF MixtureInv, ManifestInv
  <2> QED
    BY <1>4, <2>1, <2>2, <2>3 DEF MixtureInv
\* So are the instructions.
<1>8. ASSUME NEW content, step = "README.md", released' = released,
             Release!WriteFile("README.md", content)
      PROVE  MixtureInv'
  <2>1. /\ run' = run /\ Later
        /\ \A a \in {"flash_args", "manifest.json"} : out'[a] = out[a] /\ writer'[a] = writer[a]
    BY <1>8, TextWritten
  <2>2. UNCHANGED <<Release!Args, Release!Manifest>>
    BY <2>1 DEF Release!Args, Release!Manifest
  <2>3. ArgsAreOldest'
    BY <1>1, <2>1, <2>2, ArgsStayOldest
  <2>4. ManifestInv'
    BY <1>3, <1>8, <2>1, <2>2, ManifestStays
  <2> QED
    BY <1>4, <2>1, <2>3, <2>4 DEF MixtureInv
\* And the manifest, at the end.
<1>9. ASSUME NEW content, step = "manifest.json", step' = "idle",
             Release!WriteFile("manifest.json", content),
             \/ content = <<>>
             \/ content = Release!ManifestImages(build) /\ released' = build
      PROVE  MixtureInv'
  <2>1. /\ run' = run /\ Later
        /\ out'["flash_args"] = out["flash_args"] /\ writer'["flash_args"] = writer["flash_args"]
        /\ Release!Manifest' = content /\ writer'["manifest.json"] = run
    BY <1>9, TextWritten DEF Release!Manifest
  <2>2. Release!Args' = Release!Args
    BY <2>1 DEF Release!Args
  <2>3. ArgsAreOldest'
    BY <1>1, <2>1, <2>2, ArgsStayOldest
  <2>4. ManifestInv'
    BY <1>1, <1>9, <2>1, <2>2 DEF ManifestInv
  <2> QED
    BY <1>4, <2>1, <2>3, <2>4 DEF MixtureInv
<1>10. CASE Release!WriteImage
  BY <1>6, <1>10 DEF Release!WriteImage, ImageOf
<1>11. CASE Release!WriteFlashArgs
  <2>1. CASE Release!WriteFile("flash_args", Release!RewrittenArgs(build))
    BY <1>7, <1>11, <2>1 DEF Release!WriteFlashArgs
  <2>2. CASE step' = "idle" /\ UNCHANGED <<build, run, out, writer>>
    <3>1. UNCHANGED <<Release!Args, Release!Manifest, run, writer, released>>
      BY <1>11, <2>2 DEF Release!WriteFlashArgs, Release!Args, Release!Manifest
    <3> QED
      BY <1>1, <1>4, <2>2, <3>1, ArgsStayOldest, ManifestStays DEF MixtureInv
  <2> QED
    BY <1>11, <2>1, <2>2 DEF Release!WriteFlashArgs
<1>12. CASE Release!WriteReadme
  BY <1>8, <1>12 DEF Release!WriteReadme
<1>13. CASE Release!WriteManifest
  <2>1. /\ step = "manifest.json" /\ step' = "idle" /\ released' = build
        /\ Release!WriteFile("manifest.json", Release!ManifestImages(build))
    BY <1>13, FollowingSteps DEF Release!WriteManifest, Release!Proceed
  <2> QED
    BY <1>9, <2>1
<1>14. CASE Release!Killed
  <2>1. step # "idle" /\ step' = "idle" /\ released' = released
    BY <1>14 DEF Release!Killed
  <2>2. CASE UNCHANGED <<out, writer, build, run>>
    <3>1. UNCHANGED <<Release!Args, Release!Manifest>>
      BY <2>2 DEF Release!Args, Release!Manifest
    <3> QED
      BY <1>1, <1>4, <2>1, <2>2, <3>1, ArgsStayOldest, ManifestStays DEF MixtureInv
  <2>3. CASE step = "images" /\ Release!WriteFile(Release!Name(ImageOf(pos)), <<>>)
    BY <1>6, <2>1, <2>3
  <2>4. CASE step = "flash_args" /\ Release!WriteFile(step, <<>>)
    BY <1>7, <2>1, <2>4
  <2>5. CASE step = "README.md" /\ Release!WriteFile(step, <<>>)
    BY <1>8, <2>1, <2>5
  <2>6. CASE step = "manifest.json" /\ Release!WriteFile(step, <<>>)
    BY <1>9, <2>1, <2>6
  <2> QED
    BY <1>1, <1>14, <2>1, <2>2, <2>3, <2>4, <2>5, <2>6 DEF Release!Killed, ImageOf
<1>15. CASE UNCHANGED Release!vars
  <2>1. UNCHANGED <<run, step, out, writer, released>>
    BY <1>15 DEF Release!vars
  <2>2. UNCHANGED <<Release!Args, Release!Manifest>>
    BY <2>1 DEF Release!Args, Release!Manifest
  <2> QED
    BY <1>1, <1>3, <1>4, <2>1, <2>2, ArgsStayOldest, ManifestStays DEF MixtureInv
<1> QED
  BY <1>5, <1>10, <1>11, <1>12, <1>13, <1>14, <1>15 DEF Release!Next

LEMMA ReleaseInvariance == Release!Spec => [](PackagingInv /\ MixtureInv)
<1>1. PackagingInv /\ MixtureInv /\ [Release!Next]_Release!vars => (PackagingInv /\ MixtureInv)'
  BY StepPackaging, StepMixture
<1> QED
  BY InitRelease, <1>1, PTL DEF Release!Spec

\* After a run that succeeds the assets flash what was built and match the
\* manifest, whatever earlier runs, complete, refused or killed, had left in the
\* directory; for any number of runs and any builds.
THEOREM AssetsFlashTheBuild == Spec => []Flashable
<1>1. PackagingInv => Flashable
  <2> SUFFICES ASSUME PackagingInv, outcome = "packaged",
                      "README.md" \notin Release!ReferencedImages(build)
               PROVE  /\ Release!Flashes(build)
                      /\ Release!Describes(Release!Manifest, Release!Args)
                      /\ \A i \in DOMAIN Release!Manifest : Release!Matches(Release!Manifest[i])
                      /\ out["README.md"] = <<"FLASHING.md">>
    BY DEF Flashable, Release!Flashable
  <2>1. /\ Release!IsBuild(build)
        /\ \A i \in Release!Referenced(build) : Written(i)
        /\ Release!Args = Release!RewrittenArgs(build)
        /\ out["README.md"] = <<"FLASHING.md">>
        /\ Release!Manifest = Release!ManifestImages(build)
    BY DEF PackagingInv, ImagesDone, ArgsDone, ReadmeDone
  <2>2. \A i \in DOMAIN build.places : build.places[i].image # "README.md"
    BY <2>1, PlacesOfBuild DEF Release!ReferencedImages, Release!ToSet
  <2>3. \A j \in Release!Referenced(build) :
          out[Release!Name(build.places[j].image)] = build.files[build.places[j].image]
    BY <2>1, <2>2, ReferencedPlaces DEF Written, ImageOf
  <2>4. Release!Flashes(build)
    BY <2>1, <2>3, FlashedAsBuilt
  <2>5. /\ DOMAIN Release!Manifest = Release!Referenced(build)
        /\ \A j \in Release!Referenced(build) :
             /\ Release!Manifest[j].path = Release!Name(build.places[j].image)
             /\ Release!Manifest[j].sha256 = build.files[build.places[j].image]
             /\ Release!Manifest[j].address = Release!FlashAddress(build, build.places[j].image)
    BY <2>1, ManifestOfBuild
  <2>6. Release!Describes(Release!Manifest, Release!Args)
    BY <2>1, <2>5, ArgsRewritten, ManifestDescribesArgs
  <2>7. \A i \in DOMAIN Release!Manifest : Release!Matches(Release!Manifest[i])
    BY <2>3, <2>5 DEF Release!Matches
  <2> QED
    BY <2>1, <2>4, <2>6, <2>7
<1> QED
  BY <1>1, ReleaseInvariance, RunsRelease, PTL

\* Whoever finds all images of a manifest intact flashes what its build would,
\* for any number of runs that end anyhow; the only exception is a later run that
\* had come as far as flash_args and not to the manifest.
THEOREM MixturesAreConfined == Spec => []MixtureIsConfined
<1>1. PackagingInv /\ MixtureInv => MixtureIsConfined
  <2> SUFFICES ASSUME PackagingInv, MixtureInv, Release!Manifest # <<>>,
                      \A i \in DOMAIN Release!Manifest : Release!Matches(Release!Manifest[i])
               PROVE  \/ Release!Flashes(released)
                      \/ /\ writer["flash_args"] > writer["manifest.json"]
                         /\ \A i \in DOMAIN Release!Args :
                              writer[Release!Args[i].name] >= writer["flash_args"]
    BY DEF MixtureIsConfined, Release!MixtureIsConfined
  <2>1. /\ Release!IsBuild(released)
        /\ Release!Manifest = Release!ManifestImages(released)
        /\ writer["manifest.json"] <= writer["flash_args"]
        /\ writer["flash_args"] = writer["manifest.json"] =>
             Release!Args = Release!RewrittenArgs(released)
    BY DEF MixtureInv, ManifestInv
  <2>2. /\ writer["manifest.json"] \in Nat /\ writer["flash_args"] \in Nat
        /\ \A i \in DOMAIN Release!Args : writer[Release!Args[i].name] \in Nat
    BY DEF PackagingInv, MixtureInv, ArgsAreOldest, Release!Asset
  <2>3. CASE writer["flash_args"] = writer["manifest.json"]
    <3>1. \A j \in Release!Referenced(released) :
            out[Release!Name(released.places[j].image)] = released.files[released.places[j].image]
      BY <2>1, ManifestOfBuild DEF Release!Matches
    <3> QED
      BY <2>1, <2>3, <3>1, FlashedAsBuilt
  <2>4. CASE writer["flash_args"] # writer["manifest.json"]
    BY <2>1, <2>2, <2>4 DEF MixtureInv, ArgsAreOldest
  <2> QED
    BY <2>3, <2>4
<1> QED
  BY <1>1, ReleaseInvariance, RunsRelease, PTL

=============================================================================
