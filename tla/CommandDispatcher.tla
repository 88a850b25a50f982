-------------------------- MODULE CommandDispatcher --------------------------
(***************************************************************************)
(* The Command Dispatcher (firmware/components/command_dispatcher): a      *)
(* vector of recipients that is searched from the front.  A recipient is   *)
(* foreign code: while a command runs it may register or unregister        *)
(* recipients, itself included, and dispatch further commands.             *)
(***************************************************************************)
EXTENDS Naturals, Sequences, SequencesExt

CONSTANTS
  Uid,         \* the device UIDs in use
  Handler,     \* the recipients' functions
  NoHandler,   \* an empty std::function
  MaxDepth     \* bound: commands dispatched inside one another

ASSUME RecipientAssumption == NoHandler \notin Handler

VARIABLES
  recipients,   \* recipients_
  calls,        \* the commands being dispatched, the innermost one first
  outcome       \* what the last operation that ended returned, for which UID

vars == <<recipients, calls, outcome>>

Recipient == [uid: Uid, handler: Handler]

\* The recipients bound to a UID, as the specification sees them.
RecipientOf ==
  [uid \in Uid |->
     {recipients[i].handler : i \in {j \in DOMAIN recipients : recipients[j].uid = uid}}]

Routing == INSTANCE CommandRouting WITH recipientOf <- RecipientOf

TypeOK ==
  /\ recipients \in Seq(Recipient)
  /\ calls \in Seq(Routing!Call)
  /\ outcome \in Routing!Outcome

Init ==
  /\ recipients = <<>>
  /\ calls = <<>>
  /\ outcome = <<>>

-----------------------------------------------------------------------------
\* std::find_if: the first position with that UID, if there is one.
Find(uid) ==
  {i \in DOMAIN recipients :
     recipients[i].uid = uid /\ \A j \in 1 .. i - 1 : recipients[j].uid # uid}

Accepts(uid, handler) == handler # NoHandler /\ Find(uid) = {}

Register(uid, handler) ==
  /\ \/ /\ Accepts(uid, handler)
        /\ recipients' = Append(recipients, [uid |-> uid, handler |-> handler])
        /\ outcome' = <<"registered", uid>>
     \/ /\ ~Accepts(uid, handler)
        /\ outcome' = <<"refused", uid>>
        /\ UNCHANGED recipients
  /\ UNCHANGED calls

\* Mutant: the recipient registered last goes, whichever was found.
EraseLast(i) == Front(recipients)

Erase(i) == RemoveAt(recipients, i)

Unregister(uid) ==
  /\ \/ \E i \in Find(uid) :
          /\ recipients' = Erase(i)
          /\ outcome' = <<"unregistered", uid>>
     \/ /\ Find(uid) = {}
        /\ outcome' = <<"not_registered", uid>>
        /\ UNCHANGED recipients
  /\ UNCHANGED calls

\* The function is copied before it is called, so that it outlives its entry.
Dispatch(target) ==
  /\ Len(calls) < MaxDepth
  /\ \/ \E i \in Find(target) :
          /\ calls' = <<[target |-> target, handler |-> recipients[i].handler]>> \o calls
          /\ UNCHANGED outcome
     \/ /\ Find(target) = {}
        /\ outcome' = <<"unknown_recipient", target>>
        /\ UNCHANGED calls
  /\ UNCHANGED recipients

RecipientReturns(ok) ==
  /\ calls # <<>>
  /\ calls' = Tail(calls)
  /\ outcome' = <<IF ok THEN "delivered" ELSE "delivery_failed", Head(calls).target>>
  /\ UNCHANGED recipients

Next ==
  \/ \E uid \in Uid, handler \in Handler \union {NoHandler} : Register(uid, handler)
  \/ \E uid \in Uid : Unregister(uid) \/ Dispatch(uid)
  \/ \E ok \in BOOLEAN : RecipientReturns(ok)

Spec == Init /\ [][Next]_vars

-----------------------------------------------------------------------------
\* No history of registrations, also from within a running recipient, leaves
\* two recipients for one device: otherwise unregistering it would bring the
\* older or younger one to light, and the single recipient of a command would
\* depend on the order of the vector.
UniqueRecipients ==
  \A i, j \in DOMAIN recipients :
    recipients[i].uid = recipients[j].uid => i = j

\* Searching and erasing in the vector amounts to a binding of UIDs: every
\* result register_recipient(), unregister_recipient() and dispatch() return,
\* and every recipient a command reaches, are those of CommandRouting.
ImplementsRouting == Routing!Spec
=============================================================================
