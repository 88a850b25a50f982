----------------------------- MODULE AdcSampling -----------------------------
(***************************************************************************)
(* The block read of the ADC driver (firmware/components/adc and           *)
(* esp_adc_driver): conversions paced by a schedule that is kept in whole  *)
(* microseconds.  A conversion takes time, it may fail, and the task may   *)
(* lose the processor while it converts or waits.                          *)
(***************************************************************************)
EXTENDS Integers, Sequences

CONSTANTS
  Rate,        \* AdcConfig::sample_rate_hz
  MaxCount,    \* bound: samples asked for
  Durations,   \* how long a conversion may take, in microseconds
  Overruns     \* by how much a wait may be overrun

\* max_sample_rate_hz, and the microseconds in a second.
Million == 1000000

\* is_valid(); the constructor aborts otherwise.
ValidRate == Rate \in 1 .. Million

VARIABLES
  pc,       \* "read": about to convert; "pace": converted; "returned"
  room,     \* count, or 0 when there is no buffer
  stored,   \* stored
  next,     \* next_us, relative to the call
  now,      \* esp_timer_get_time(), relative to the call
  (* History variables. *)
  begun,    \* when each conversion began
  ended,    \* when each conversion ended
  failed    \* a conversion failed

history == <<begun, ended, failed>>
vars == <<pc, room, stored, next, now, begun, ended, failed>>

\* sample_period_us(): an integer division.
Period == Million \div Rate

TypeOK ==
  /\ pc \in {"read", "pace", "returned"}
  /\ room \in 0 .. MaxCount
  /\ stored \in 0 .. room
  /\ next \in Nat
  /\ now \in Nat
  /\ begun \in Seq(Nat) /\ ended \in Seq(Nat) /\ Len(begun) = Len(ended)
  /\ failed \in BOOLEAN

\* The loop goes on while there is room for a sample.
Loop == IF stored < room THEN "read" ELSE "returned"

Init ==
  /\ room \in 0 .. MaxCount
  /\ stored = 0
  /\ pc = Loop
  /\ next = 0
  /\ now = 0
  /\ begun = <<>> /\ ended = <<>> /\ failed = FALSE

-----------------------------------------------------------------------------
Store == stored' = stored + 1

\* Mutant: the schedule follows the conversions.
ScheduleFromNow(ends) == ends + Period

Schedule(ends) == next + Period

\* adc_oneshot_read() and, when it worked, the next due time.
Convert(duration) ==
  /\ pc = "read"
  /\ now' = now + duration
  /\ begun' = Append(begun, now)
  /\ ended' = Append(ended, now')
  /\ Store
  /\ next' = Schedule(now')
  /\ pc' = "pace"
  /\ UNCHANGED <<room, failed>>

\* Mutant: the loop goes on after a failure.
FailAndGoOn(duration) ==
  /\ pc = "read"
  /\ now' = now + duration
  /\ begun' = Append(begun, now)
  /\ ended' = Append(ended, now')
  /\ failed' = TRUE
  /\ next' = Schedule(now')
  /\ pc' = "pace"
  /\ Len(begun) <= MaxCount
  /\ UNCHANGED <<room, stored>>

FailedConversion(duration) ==
  /\ pc = "read"
  /\ now' = now + duration
  /\ begun' = Append(begun, now)
  /\ ended' = Append(ended, now')
  /\ failed' = TRUE
  /\ pc' = "returned"
  /\ UNCHANGED <<room, stored, next>>

Wait == next - now

\* Mutant: a sample that is late waits, too.
WaitsAlways == stored < room

\* Not after the last sample, and not when the next one is late.
Waits == stored < room /\ Wait > 0

\* esp_rom_delay_us(), with the wait converted to 32 bits: to itself, by WaitFits.
Pace(overrun) ==
  /\ pc = "pace"
  /\ now' = overrun + (IF Waits THEN next ELSE now)
  /\ pc' = Loop
  /\ UNCHANGED <<room, stored, next, history>>

Next ==
  \/ \E duration \in Durations : Convert(duration) \/ FailedConversion(duration)
  \/ \E overrun \in Overruns : Pace(overrun)

Spec == Init /\ [][Next]_vars

-----------------------------------------------------------------------------
\* Slow conversions and lost processor time delay samples, but no sample is
\* taken before it is due.
NeverEarly == \A k \in DOMAIN begun : begun[k] >= (k - 1) * Period

\* The delay asked for is positive and at most one period, a second at most, so
\* that the conversion of wait_us to 32 bits loses nothing: a late sample is not
\* delayed by the 71 minutes that a negative wait would become.
WaitFits == pc = "pace" /\ Waits => Wait \in 1 .. Period

\* The schedule does not drift: a sample that comes late began as soon as the
\* conversion before it had ended, give or take an overrun of the wait.
NoDrift ==
  \A k \in DOMAIN begun : k > 1 =>
    \E overrun \in Overruns :
      begun[k] = overrun + (IF ended[k - 1] < (k - 1) * Period
                            THEN (k - 1) * Period ELSE ended[k - 1])

\* The number returned says how many samples there are: all that were asked
\* for, or those before the first failed conversion, and nothing is converted
\* after that.
CountIsHonest ==
  pc = "returned" =>
    /\ stored = IF failed THEN Len(begun) - 1 ELSE Len(begun)
    /\ failed \/ stored = room
=============================================================================
