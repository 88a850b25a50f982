---------------------------- MODULE CommandRouting ----------------------------
(***************************************************************************)
(* What the Command Dispatcher promises: device UIDs are bound to at most  *)
(* one recipient each, and a command runs the recipient its target is      *)
(* bound to at that moment, whatever is bound or unbound while it runs.    *)
(***************************************************************************)
EXTENDS Naturals, Sequences

CONSTANTS
  Uid,         \* the device UIDs in use
  Handler,     \* the recipients' functions
  NoHandler,   \* an empty std::function
  MaxDepth     \* bound: commands dispatched inside one another

VARIABLES
  recipientOf,   \* per UID, the recipient bound to it, if any
  calls,         \* the recipients that are running, the innermost one first
  outcome        \* what the last operation that ended returned, for which UID

Call == [target: Uid, handler: Handler]

Result == {"registered", "refused", "unregistered", "not_registered",
           "delivered", "delivery_failed", "unknown_recipient"}

\* What was returned and for which UID; nothing before the first operation.
Outcome == {<<>>} \union (Result \X Uid)

Init ==
  /\ recipientOf = [uid \in Uid |-> {}]
  /\ calls = <<>>
  /\ outcome = <<>>

Register(uid, handler) ==
  /\ \/ /\ handler # NoHandler
        /\ recipientOf[uid] = {}
        /\ recipientOf' = [recipientOf EXCEPT ![uid] = {handler}]
        /\ outcome' = <<"registered", uid>>
     \/ /\ handler = NoHandler \/ recipientOf[uid] # {}
        /\ outcome' = <<"refused", uid>>
        /\ UNCHANGED recipientOf
  /\ UNCHANGED calls

Unregister(uid) ==
  /\ recipientOf' = [recipientOf EXCEPT ![uid] = {}]
  /\ outcome' = <<IF recipientOf[uid] = {} THEN "not_registered" ELSE "unregistered", uid>>
  /\ UNCHANGED calls

Dispatch(target) ==
  /\ Len(calls) < MaxDepth
  /\ \/ \E handler \in recipientOf[target] :
          /\ calls' = <<[target |-> target, handler |-> handler]>> \o calls
          /\ UNCHANGED outcome
     \/ /\ recipientOf[target] = {}
        /\ outcome' = <<"unknown_recipient", target>>
        /\ UNCHANGED calls
  /\ UNCHANGED recipientOf

RecipientReturns(ok) ==
  /\ calls # <<>>
  /\ calls' = Tail(calls)
  /\ outcome' = <<IF ok THEN "delivered" ELSE "delivery_failed", Head(calls).target>>
  /\ UNCHANGED recipientOf

Next ==
  \/ \E uid \in Uid, handler \in Handler \union {NoHandler} : Register(uid, handler)
  \/ \E uid \in Uid : Unregister(uid) \/ Dispatch(uid)
  \/ \E ok \in BOOLEAN : RecipientReturns(ok)

Spec == Init /\ [][Next]_<<recipientOf, calls, outcome>>
=============================================================================
