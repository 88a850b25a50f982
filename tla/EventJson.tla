------------------------------- MODULE EventJson -------------------------------
(***************************************************************************)
(* EventJsonCodec::serialize (firmware/components/event_json): a JSON      *)
(* object is built member by member on a heap that the rest of the         *)
(* firmware uses too, and any of the allocations may find it exhausted.    *)
(* An allocation takes one cell; texts are left out, a member is its name. *)
(* The copies into std::string are left out: when one of them finds no     *)
(* memory the firmware aborts and nothing is returned.                     *)
(***************************************************************************)
EXTENDS Integers, Sequences

CONSTANT HeapSize   \* bound: the cells of the heap

VARIABLES
  event,     \* the type of the event given to the last call, or "none"
  members,   \* the names in the cJSON object
  free,      \* the free cells of the heap
  held,      \* the cells that serialize() holds
  others,    \* the cells that the rest of the firmware holds
  step,      \* where serialize() is
  result     \* what it returned last: the names in the text, or Nothing

heap == <<free, held, others>>
vars == <<event, members, free, held, others, step, result>>

EventType == {"collector.started", "collector.stopped", "collector.fault"}

\* Only a fault has a reason.
Reason(type) == IF type = "collector.fault" THEN <<"reason">> ELSE <<>>

\* What Event and its subclasses carry.
MembersOf(type) ==
  <<"event_id", "event_type", "occurred_at_unix_ms", "originating_device">> \o Reason(type)

Nothing == <<>>

Init ==
  /\ event = "none"
  /\ members = <<>>
  /\ free = HeapSize /\ held = 0 /\ others = 0
  /\ step = "idle"
  /\ result = Nothing

-----------------------------------------------------------------------------
Serialize(type) ==
  /\ step = "idle"
  /\ event' = type
  /\ step' = "create"
  /\ UNCHANGED <<members, heap, result>>

Allocate ==
  /\ free > 0
  /\ free' = free - 1
  /\ held' = held + 1
  /\ UNCHANGED others

\* Every return gives back what the smart pointers own.
Return(value) ==
  /\ result' = value
  /\ step' = "idle"
  /\ members' = <<>>
  /\ free' = free + held
  /\ held' = 0
  /\ UNCHANGED <<event, others>>

Create ==
  /\ step = "create"
  /\ \/ Allocate /\ step' = "add" /\ UNCHANGED <<event, members, result>>
     \/ free = 0 /\ Return(Nothing)

Incomplete == Len(members) < Len(MembersOf(event))

\* Mutant: a member that does not fit ends the object there.
AddOrFinish ==
  /\ step = "add" /\ Incomplete
  /\ \/ /\ Allocate
        /\ members' = Append(members, MembersOf(event)[Len(members) + 1])
        /\ UNCHANGED <<event, step, result>>
     \/ free = 0 /\ Return(members)

AddMember ==
  /\ step = "add" /\ Incomplete
  /\ \/ /\ Allocate
        /\ members' = Append(members, MembersOf(event)[Len(members) + 1])
        /\ UNCHANGED <<event, step, result>>
     \/ free = 0 /\ Return(Nothing)

\* The text needs a cell as well, until it is copied.
PrintText ==
  /\ step = "add" /\ ~Incomplete
  /\ IF free = 0 THEN Return(Nothing) ELSE Return(members)

\* The rest of the firmware allocates and frees.
OthersRun ==
  /\ \/ free > 0 /\ free' = free - 1 /\ others' = others + 1
     \/ others > 0 /\ free' = free + 1 /\ others' = others - 1
  /\ UNCHANGED <<event, members, held, step, result>>

Next ==
  \/ \E type \in EventType : Serialize(type)
  \/ Create
  \/ AddMember
  \/ PrintText
  \/ OthersRun

Spec == Init /\ [][Next]_vars

-----------------------------------------------------------------------------
\* Wherever memory runs out, no cell of the heap is lost and between calls
\* serialize() holds none.
HeapIsGivenBack ==
  /\ free + held + others = HeapSize
  /\ step = "idle" => held = 0

\* The text has every member of its event, the reason of a fault included, or
\* there is no text: no failing allocation leaves a partial object.
CompleteOrNothing ==
  step = "idle" => result = Nothing \/ result = MembersOf(event)
=============================================================================
