--------------------------- MODULE EventDispatcher ---------------------------
(***************************************************************************)
(* The Event Dispatcher (firmware/components/event_dispatcher): a vector   *)
(* of subscriptions and a synchronous publish().  A handler is foreign     *)
(* code: while it runs it may subscribe, unsubscribe and publish, and a    *)
(* publish() inside a handler runs to its end before the handler returns.  *)
(* The call stack is therefore part of the state.                          *)
(***************************************************************************)
EXTENDS Integers, Sequences, SequencesExt

CONSTANTS
  EventType,          \* the event types in use
  IdModulus,          \* 2^32: SubscriptionId is a uint32_t
  MaxSubscriptions,   \* bound: calls of subscribe()
  MaxPublications     \* bound: calls of publish()

ASSUME DispatcherAssumption ==
  /\ IdModulus \in Nat \ {0, 1}
  /\ MaxSubscriptions \in Nat
  /\ MaxPublications \in Nat

VARIABLES
  subscriptions,   \* subscriptions_: the handler is the number of its subscribe() call
  nextId,          \* next_subscription_id_
  stack,           \* the publish() calls in progress, the innermost one first
  (* History variables. *)
  made,            \* calls of subscribe() so far
  audience,        \* per publication, the handlers subscribed to its type
  deliveries       \* the calls of handlers, in order

history == <<made, audience, deliveries>>
vars == <<subscriptions, nextId, stack, made, audience, deliveries>>

Handler == 1 .. MaxSubscriptions

Publication == 1 .. MaxPublications

Subscription == [id: 0 .. IdModulus - 1, type: EventType, handler: Handler]

\* A handler publish() copied out of subscriptions_, with its place there: the
\* copies keep the order of the vector.
Copy == [place: Nat, handler: Handler]

\* publish() of one event: the copies still to be called, and whether one runs.
Frame == [event: Publication, todo: SUBSET Copy, running: BOOLEAN]

TypeOK ==
  /\ subscriptions \in Seq(Subscription)
  /\ nextId \in 0 .. IdModulus - 1
  /\ stack \in Seq(Frame)
  /\ made \in 0 .. MaxSubscriptions
  /\ audience \in Seq(SUBSET Handler)
  /\ deliveries \in Seq([event: Publication, handler: Handler])

Init ==
  /\ subscriptions = <<>>
  /\ nextId = 1
  /\ stack = <<>>
  /\ made = 0
  /\ audience = <<>>
  /\ deliveries = <<>>

-----------------------------------------------------------------------------
\* Code outside the dispatcher is running: the application, or a handler.
CallerRuns == stack # <<>> => Head(stack).running

\* Mutants: the identifier does not wrap, or wraps one early.
FollowingIdUnwrapped(id) == id + 1

FollowingIdEarly(id) == IF id = IdModulus - 2 THEN 0 ELSE id + 1

FollowingId(id) == (id + 1) % IdModulus

Subscribe(type) ==
  /\ CallerRuns
  /\ made < MaxSubscriptions
  /\ made' = made + 1
  /\ subscriptions' =
       Append(subscriptions, [id |-> nextId, type |-> type, handler |-> made + 1])
  /\ nextId' = FollowingId(nextId)
  /\ UNCHANGED <<stack, audience, deliveries>>

\* Removes the first subscription with that identifier; false when there is none.
Unsubscribe(id) ==
  /\ CallerRuns
  /\ \E i \in DOMAIN subscriptions :
       /\ subscriptions[i].id = id
       /\ \A j \in 1 .. i - 1 : subscriptions[j].id # id
       /\ subscriptions' = RemoveAt(subscriptions, i)
  /\ UNCHANGED <<nextId, stack, history>>

\* The copies of the handlers at these places of subscriptions_.
Copies(places) == {[place |-> i, handler |-> subscriptions[i].handler] : i \in places}

\* Mutant: the type of the subscription is not compared.
EverySubscriber(type) == Copies(DOMAIN subscriptions)

\* The handlers that publish() copies out of subscriptions_ before it calls any.
Subscribers(type) == Copies({i \in DOMAIN subscriptions : subscriptions[i].type = type})

Publish(type) ==
  /\ CallerRuns
  /\ Len(audience) < MaxPublications
  /\ audience' = Append(audience, {s.handler : s \in {t \in ToSet(subscriptions) : t.type = type}})
  /\ stack' = <<[event |-> Len(audience) + 1, todo |-> Subscribers(type),
                 running |-> FALSE]>> \o stack
  /\ UNCHANGED <<subscriptions, nextId, made, deliveries>>

\* The copy that stands first is called next.
CallHandler ==
  /\ stack # <<>>
  /\ LET frame == Head(stack)
     IN  /\ ~frame.running
         /\ \E next \in frame.todo :
              /\ \A copy \in frame.todo : next.place <= copy.place
              /\ stack' = <<[frame EXCEPT !.todo = @ \ {next}, !.running = TRUE]>> \o Tail(stack)
              /\ deliveries' =
                   Append(deliveries, [event |-> frame.event, handler |-> next.handler])
  /\ UNCHANGED <<subscriptions, nextId, made, audience>>

HandlerReturns ==
  /\ stack # <<>>
  /\ Head(stack).running
  /\ stack' = <<[Head(stack) EXCEPT !.running = FALSE]>> \o Tail(stack)
  /\ UNCHANGED <<subscriptions, nextId, history>>

PublishReturns ==
  /\ stack # <<>>
  /\ ~Head(stack).running
  /\ Head(stack).todo = {}
  /\ stack' = Tail(stack)
  /\ UNCHANGED <<subscriptions, nextId, history>>

Next ==
  \/ \E type \in EventType : Subscribe(type) \/ Publish(type)
  \/ \E id \in 0 .. IdModulus - 1 : Unsubscribe(id)
  \/ CallHandler
  \/ HandlerReturns
  \/ PublishReturns

Spec == Init /\ [][Next]_vars

-----------------------------------------------------------------------------
InProgress(event) == \E i \in DOMAIN stack : stack[i].event = event

Received(event) ==
  {deliveries[i].handler : i \in {k \in DOMAIN deliveries : deliveries[k].event = event}}

\* Whatever handlers subscribe, unsubscribe or publish while an event is being
\* delivered, publish() calls exactly the handlers that were subscribed to its
\* type when it was called, each once, in the order of their subscriptions, and
\* has called them all when it returns.
AudienceServed ==
  /\ \A i, j \in DOMAIN deliveries :
       i < j /\ deliveries[i].event = deliveries[j].event
         => deliveries[i].handler < deliveries[j].handler
  /\ \A event \in DOMAIN audience :
       /\ Received(event) \subseteq audience[event]
       /\ ~InProgress(event) => Received(event) = audience[event]

\* An identifier names one subscription as long as the counter has not come
\* around: unsubscribe() then removes the subscription it was returned for.
IdsNameOneSubscription ==
  made <= IdModulus =>
    \A i, j \in DOMAIN subscriptions :
      i # j => subscriptions[i].id # subscriptions[j].id

-----------------------------------------------------------------------------
\* docs/specification/03-event-model.md, lines 198-204: the processing of one
\* event completes before the next begins, event ordering is preserved and
\* events generated while processing another one are queued.  No handler may
\* thus receive an event after a handler has received a later one.
EventOrderPreserved ==
  \A i, j \in DOMAIN deliveries : i < j => deliveries[i].event <= deliveries[j].event
=============================================================================
