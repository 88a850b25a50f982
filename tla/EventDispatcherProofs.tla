------------------------ MODULE EventDispatcherProofs ------------------------
(***************************************************************************)
(* Proofs about the Event Dispatcher, for every number of event types,     *)
(* subscriptions and publications, and every width of SubscriptionId.      *)
(***************************************************************************)
EXTENDS EventDispatcher, SequenceTheorems, TLAPS

\* The handlers of subscriptions_ stand in the order of their subscribe() calls.
SubscriptionsOrdered ==
  /\ \A i \in DOMAIN subscriptions : subscriptions[i].handler <= made
  /\ \A i, j \in DOMAIN subscriptions :
       i < j => subscriptions[i].handler < subscriptions[j].handler

\* Until the counter has come around, the identifiers follow the calls.
IdentifiersFollow ==
  /\ made < IdModulus => nextId = (IF made + 1 = IdModulus THEN 0 ELSE made + 1)
  /\ made <= IdModulus =>
       \A i \in DOMAIN subscriptions :
         subscriptions[i].id =
           (IF subscriptions[i].handler = IdModulus THEN 0 ELSE subscriptions[i].handler)

\* A publish() in progress is of a publication made, a later one the further in.
FramesNested ==
  /\ \A k \in DOMAIN stack : stack[k].event \in DOMAIN audience
  /\ \A k, l \in DOMAIN stack : k < l => stack[l].event < stack[k].event

\* What a publish() in progress has copied and not called: later handlers than
\* those it has called, and with them its audience.
FrameOrdered(frame) ==
  /\ \A c, d \in frame.todo : c # d /\ c.place <= d.place => c.handler < d.handler
  /\ \A n \in DOMAIN deliveries :
       deliveries[n].event = frame.event =>
         \A c \in frame.todo : deliveries[n].handler < c.handler

FrameComplete(frame) ==
  audience[frame.event] = Received(frame.event) \union {c.handler : c \in frame.todo}

\* Every call of a handler is of a publication made, and they follow the order
\* of subscription.
DeliveriesOrdered ==
  /\ \A n \in DOMAIN deliveries : deliveries[n].event \in DOMAIN audience
  /\ \A m, n \in DOMAIN deliveries :
       m < n /\ deliveries[m].event = deliveries[n].event
         => deliveries[m].handler < deliveries[n].handler

ReturnedComplete ==
  \A event \in DOMAIN audience : ~InProgress(event) => Received(event) = audience[event]

SubscriptionInv ==
  /\ SubscriptionsOrdered
  /\ IdentifiersFollow

DeliveryInv ==
  /\ FramesNested
  /\ \A k \in DOMAIN stack : FrameOrdered(stack[k]) /\ FrameComplete(stack[k])
  /\ DeliveriesOrdered
  /\ ReturnedComplete

DispatcherInv ==
  /\ TypeOK
  /\ SubscriptionInv
  /\ DeliveryInv

-----------------------------------------------------------------------------
LEMMA FollowingIdValue ==
  ASSUME NEW id \in 0 .. IdModulus - 1
  PROVE  /\ FollowingId(id) = IF id + 1 = IdModulus THEN 0 ELSE id + 1
         /\ FollowingId(id) \in 0 .. IdModulus - 1
<1>1. CASE id + 1 = IdModulus
  BY <1>1, DispatcherAssumption DEF FollowingId
<1>2. CASE id + 1 # IdModulus
  BY <1>2, DispatcherAssumption DEF FollowingId
<1> QED
  BY <1>1, <1>2

\* Putting an element in front moves the others one place back.
LEMMA PushElements ==
  ASSUME NEW S, NEW s \in Seq(S), NEW e \in S
  PROVE  /\ <<e>> \o s \in Seq(S)
         /\ DOMAIN (<<e>> \o s) = 1 .. Len(s) + 1
         /\ (<<e>> \o s)[1] = e
         /\ \A i \in 1 .. Len(s) : (<<e>> \o s)[i + 1] = s[i]
<1>1. Len(s) \in Nat
  BY LenProperties
<1>2. <<e>> \in Seq(S) /\ Len(<<e>>) = 1 /\ <<e>>[1] = e
  OBVIOUS
<1>3. /\ <<e>> \o s \in Seq(S)
      /\ Len(<<e>> \o s) = 1 + Len(s)
      /\ \A i \in 1 .. 1 + Len(s) :
           (<<e>> \o s)[i] = IF i <= 1 THEN <<e>>[i] ELSE s[i - 1]
  BY <1>2, ConcatProperties
<1>4. DOMAIN (<<e>> \o s) = 1 .. Len(s) + 1
  BY <1>1, <1>3, LenProperties
<1>5. (<<e>> \o s)[1] = e
  BY <1>1, <1>2, <1>3
<1>6. ASSUME NEW i \in 1 .. Len(s)
      PROVE  (<<e>> \o s)[i + 1] = s[i]
  <2>1. i + 1 \in 1 .. 1 + Len(s) /\ ~(i + 1 <= 1) /\ (i + 1) - 1 = i
    BY <1>1
  <2> QED
    BY <2>1, <1>3
<1> QED
  BY <1>3, <1>4, <1>5, <1>6

\* Replacing the head leaves the rest in place.
LEMMA ReplaceElements ==
  ASSUME NEW S, NEW s \in Seq(S), s # <<>>, NEW e \in S
  PROVE  /\ <<e>> \o Tail(s) \in Seq(S)
         /\ DOMAIN (<<e>> \o Tail(s)) = DOMAIN s
         /\ 1 \in DOMAIN s
         /\ (<<e>> \o Tail(s))[1] = e
         /\ \A i \in DOMAIN s : i # 1 => (<<e>> \o Tail(s))[i] = s[i]
<1>1. Len(s) \in Nat \ {0} /\ DOMAIN s = 1 .. Len(s)
  BY EmptySeq, LenProperties
<1>2. /\ Tail(s) \in Seq(S)
      /\ Len(Tail(s)) = Len(s) - 1
      /\ \A i \in 1 .. Len(s) - 1 : Tail(s)[i] = s[i + 1]
  BY HeadTailProperties
<1>3. /\ <<e>> \o Tail(s) \in Seq(S)
      /\ DOMAIN (<<e>> \o Tail(s)) = 1 .. Len(Tail(s)) + 1
      /\ (<<e>> \o Tail(s))[1] = e
      /\ \A i \in 1 .. Len(Tail(s)) : (<<e>> \o Tail(s))[i + 1] = Tail(s)[i]
  BY <1>2, PushElements
<1>4. ASSUME NEW i \in DOMAIN s, i # 1
      PROVE  (<<e>> \o Tail(s))[i] = s[i]
  <2>1. i - 1 \in 1 .. Len(s) - 1 /\ (i - 1) + 1 = i
    BY <1>1, <1>4
  <2>2. (<<e>> \o Tail(s))[(i - 1) + 1] = Tail(s)[i - 1]
    BY <2>1, <1>2, <1>3
  <2>3. Tail(s)[i - 1] = s[(i - 1) + 1]
    BY <2>1, <1>2
  <2> QED
    BY <2>1, <2>2, <2>3
<1> QED
  BY <1>1, <1>2, <1>3, <1>4

\* Popping the head moves the rest one place forward.
LEMMA PopElements ==
  ASSUME NEW S, NEW s \in Seq(S), s # <<>>
  PROVE  /\ Tail(s) \in Seq(S)
         /\ DOMAIN s = 1 .. Len(s)
         /\ Len(s) \in Nat \ {0}
         /\ DOMAIN Tail(s) = 1 .. Len(s) - 1
         /\ \A i \in 1 .. Len(s) - 1 : Tail(s)[i] = s[i + 1]
BY EmptySeq, LenProperties, HeadTailProperties

LEMMA HeadIsFirst ==
  ASSUME NEW S, NEW s \in Seq(S), s # <<>>
  PROVE  Head(s) = s[1] /\ Head(s) \in S
BY HeadTailProperties

LEMMA AppendElements ==
  ASSUME NEW S, NEW s \in Seq(S), NEW e \in S
  PROVE  /\ Append(s, e) \in Seq(S)
         /\ Len(s) \in Nat
         /\ DOMAIN s = 1 .. Len(s)
         /\ DOMAIN Append(s, e) = 1 .. Len(s) + 1
         /\ \A i \in 1 .. Len(s) : Append(s, e)[i] = s[i]
         /\ Append(s, e)[Len(s) + 1] = e
BY AppendProperties, LenProperties

\* Erasing a position keeps the others, in their order.
LEMMA RemoveAtElements ==
  ASSUME NEW S, NEW s \in Seq(S), NEW i \in 1 .. Len(s)
  PROVE  /\ RemoveAt(s, i) \in Seq(S)
         /\ Len(RemoveAt(s, i)) = Len(s) - 1
         /\ \A j \in 1 .. Len(s) - 1 :
              RemoveAt(s, i)[j] = IF j < i THEN s[j] ELSE s[j + 1]
<1> DEFINE front == SubSeq(s, 1, i - 1)
           back  == SubSeq(s, i + 1, Len(s))
<1>1. Len(s) \in Nat
  BY LenProperties
<1>2. front \in Seq(S) /\ Len(front) = i - 1 /\ \A j \in 1 .. i - 1 : front[j] = s[j]
  BY <1>1, SubSeqProperties
<1>3. back \in Seq(S) /\ Len(back) = Len(s) - i
      /\ \A j \in 1 .. Len(s) - i : back[j] = s[i + j]
  BY <1>1, SubSeqProperties
<1>4. RemoveAt(s, i) = front \o back
  BY DEF RemoveAt
<1> HIDE DEF front, back
<1>5. /\ front \o back \in Seq(S)
      /\ Len(front \o back) = Len(front) + Len(back)
      /\ \A j \in 1 .. Len(front) + Len(back) :
           (front \o back)[j] = IF j <= Len(front) THEN front[j] ELSE back[j - Len(front)]
  BY <1>2, <1>3, ConcatProperties
<1>6. ASSUME NEW j \in 1 .. Len(s) - 1
      PROVE  (front \o back)[j] = IF j < i THEN s[j] ELSE s[j + 1]
  <2>1. CASE j < i
    BY <2>1, <1>1, <1>2, <1>3, <1>5
  <2>2. CASE ~(j < i)
    <3>1. j - (i - 1) \in 1 .. Len(s) - i
      BY <2>2, <1>1
    <3>2. (front \o back)[j] = back[j - (i - 1)]
      BY <2>2, <1>1, <1>2, <1>3, <1>5
    <3>3. back[j - (i - 1)] = s[i + (j - (i - 1))]
      BY <3>1, <1>3
    <3> QED
      BY <2>2, <3>2, <3>3, <1>1
  <2> QED
    BY <2>1, <2>2
<1> QED
  BY <1>1, <1>2, <1>3, <1>4, <1>5, <1>6

-----------------------------------------------------------------------------
\* Every action keeps the types.
LEMMA TypeInit == Init => TypeOK
BY DispatcherAssumption DEF Init, TypeOK

LEMMA SubscriptionTypes ==
  ASSUME TypeOK
  PROVE  /\ Len(subscriptions) \in Nat
         /\ DOMAIN subscriptions = 1 .. Len(subscriptions)
         /\ \A i \in DOMAIN subscriptions : i \in Nat /\ subscriptions[i] \in Subscription
<1>1. subscriptions \in Seq(Subscription)
  BY DEF TypeOK
<1>2. Len(subscriptions) \in Nat /\ DOMAIN subscriptions = 1 .. Len(subscriptions)
  BY <1>1, LenProperties
<1> QED
  BY <1>1, <1>2, ElementOfSeq

LEMMA TypeNext == TypeOK /\ [Next]_vars => TypeOK'
<1> SUFFICES ASSUME TypeOK, [Next]_vars PROVE TypeOK'
  OBVIOUS
<1>1. ASSUME NEW type \in EventType, Subscribe(type) PROVE TypeOK'
  <2>1. made + 1 \in Handler /\ made + 1 \in 0 .. MaxSubscriptions
    BY <1>1, DispatcherAssumption DEF Subscribe, TypeOK, Handler
  <2>2. [id |-> nextId, type |-> type, handler |-> made + 1] \in Subscription
    BY <1>1, <2>1 DEF TypeOK, Subscription
  <2> QED
    BY <1>1, <2>1, <2>2, FollowingIdValue, AppendProperties DEF Subscribe, TypeOK
<1>2. ASSUME NEW type \in EventType, Publish(type) PROVE TypeOK'
  <2>1. Len(audience) \in Nat /\ Len(audience) + 1 \in Publication
    BY <1>2, LenProperties, DispatcherAssumption DEF Publish, TypeOK, Publication
  <2>2. \A i \in DOMAIN subscriptions : i \in Nat /\ subscriptions[i].handler \in Handler
    BY SubscriptionTypes DEF Subscription
  <2>3. Subscribers(type) \in SUBSET Copy
    BY <2>2 DEF Subscribers, Copies, Copy
  <2>4. [event |-> Len(audience) + 1, todo |-> Subscribers(type), running |-> FALSE] \in Frame
    BY <2>1, <2>3 DEF Frame
  <2>5. {s.handler : s \in {t \in ToSet(subscriptions) : t.type = type}} \in SUBSET Handler
    BY <2>2 DEF ToSet
  <2> QED
    <3>1. stack' \in Seq(Frame)
      BY <1>2, <2>4, PushElements DEF Publish, TypeOK
    <3>2. audience' \in Seq(SUBSET Handler)
      BY <1>2, <2>5, AppendProperties DEF Publish, TypeOK
    <3> QED
      BY <1>2, <3>1, <3>2 DEF Publish, TypeOK
<1>3. ASSUME NEW id \in 0 .. IdModulus - 1, Unsubscribe(id) PROVE TypeOK'
  <2>1. PICK i \in DOMAIN subscriptions : subscriptions' = RemoveAt(subscriptions, i)
    BY <1>3 DEF Unsubscribe
  <2>2. i \in 1 .. Len(subscriptions)
    BY LenProperties DEF TypeOK
  <2> QED
    BY <1>3, <2>1, <2>2, RemoveAtElements DEF Unsubscribe, TypeOK, history
<1>4. ASSUME CallHandler PROVE TypeOK'
  <2>1. PICK next \in Head(stack).todo :
          /\ stack' = <<[Head(stack) EXCEPT !.todo = @ \ {next}, !.running = TRUE]>> \o Tail(stack)
          /\ deliveries' =
               Append(deliveries, [event |-> Head(stack).event, handler |-> next.handler])
    BY <1>4 DEF CallHandler
  <2>2. Head(stack) \in Frame
    BY <1>4, HeadIsFirst DEF CallHandler, TypeOK
  <2>3. [Head(stack) EXCEPT !.todo = @ \ {next}, !.running = TRUE] \in Frame
    BY <2>2 DEF Frame
  <2>4. [event |-> Head(stack).event, handler |-> next.handler]
          \in [event: Publication, handler: Handler]
    BY <2>2 DEF Frame, Copy
  <2> QED
    BY <1>4, <2>1, <2>3, <2>4, ReplaceElements, AppendProperties DEF CallHandler, TypeOK
<1>5. ASSUME HandlerReturns PROVE TypeOK'
  <2>1. Head(stack) \in Frame
    BY <1>5, HeadIsFirst DEF HandlerReturns, TypeOK
  <2>2. [Head(stack) EXCEPT !.running = FALSE] \in Frame
    BY <2>1 DEF Frame
  <2> QED
    BY <1>5, <2>2, ReplaceElements DEF HandlerReturns, TypeOK, history
<1>6. ASSUME PublishReturns PROVE TypeOK'
  BY <1>6, PopElements DEF PublishReturns, TypeOK, history
<1>7. CASE UNCHANGED vars
  BY <1>7 DEF vars, TypeOK
<1> QED
  BY <1>1, <1>2, <1>3, <1>4, <1>5, <1>6, <1>7 DEF Next

\* Every state of the dispatcher has the types the model declares: the next
\* identifier fits its width, and every frame is of a publication made.
THEOREM TypeCorrect == Spec => []TypeOK
<1>1. Init => TypeOK
  BY TypeInit
<1>2. TypeOK /\ [Next]_vars => TypeOK'
  BY TypeNext
<1> QED
  BY <1>1, <1>2, PTL DEF Spec

-----------------------------------------------------------------------------
\* Subscriptions and their identifiers.
LEMMA SubscribeKeepsSubscriptionInv ==
  ASSUME TypeOK, SubscriptionInv, NEW type \in EventType, Subscribe(type)
  PROVE  SubscriptionInv'
<1> DEFINE n == Len(subscriptions)
           new == [id |-> nextId, type |-> type, handler |-> made + 1]
<1>1. made \in Nat /\ made' = made + 1 /\ nextId \in 0 .. IdModulus - 1 /\ IdModulus \in Nat
  BY DispatcherAssumption DEF Subscribe, TypeOK
<1>2. new \in Subscription
  BY DispatcherAssumption DEF Subscribe, TypeOK, Subscription, Handler
<1>3. /\ n \in Nat
      /\ DOMAIN subscriptions = 1 .. n
      /\ DOMAIN subscriptions' = 1 .. n + 1
      /\ \A i \in 1 .. n : subscriptions'[i] = subscriptions[i]
      /\ subscriptions'[n + 1] = new
  BY <1>2, AppendElements DEF Subscribe, TypeOK
<1>4. \A i \in 1 .. n : subscriptions[i].handler \in Nat
  BY <1>3, SubscriptionTypes DEF Subscription, Handler
<1>5. \A i \in 1 .. n + 1 : i \in 1 .. n \/ i = n + 1
  BY <1>3
<1>6. SubscriptionsOrdered'
  <2>1. ASSUME NEW i \in 1 .. n + 1
        PROVE  subscriptions'[i].handler <= made'
    BY <1>1, <1>3, <1>4, <1>5, SMTT(30) DEF SubscriptionInv, SubscriptionsOrdered
  <2>2. ASSUME NEW i \in 1 .. n + 1, NEW j \in 1 .. n + 1, i < j
        PROVE  subscriptions'[i].handler < subscriptions'[j].handler
    <3>1. i \in 1 .. n
      BY <2>2, <1>3
    <3>2. CASE j \in 1 .. n
      BY <2>2, <3>1, <3>2, <1>3 DEF SubscriptionInv, SubscriptionsOrdered
    <3>3. CASE j = n + 1
      BY <3>1, <3>3, <1>1, <1>3, <1>4 DEF SubscriptionInv, SubscriptionsOrdered
    <3> QED
      BY <3>2, <3>3, <1>5
  <2> QED
    BY <2>1, <2>2, <1>3 DEF SubscriptionsOrdered
<1>7. IdentifiersFollow'
  <2>1. made' < IdModulus => nextId' = (IF made' + 1 = IdModulus THEN 0 ELSE made' + 1)
    <3> SUFFICES ASSUME made' < IdModulus
                 PROVE  nextId' = IF made' + 1 = IdModulus THEN 0 ELSE made' + 1
      OBVIOUS
    <3>1. nextId = made + 1
      BY <1>1 DEF SubscriptionInv, IdentifiersFollow
    <3>2. nextId' = FollowingId(nextId)
      BY DEF Subscribe
    <3> QED
      BY <3>1, <3>2, <1>1, FollowingIdValue
  <2>2. ASSUME made' <= IdModulus, NEW i \in 1 .. n + 1
        PROVE  subscriptions'[i].id =
                 IF subscriptions'[i].handler = IdModulus THEN 0 ELSE subscriptions'[i].handler
    <3>1. CASE i \in 1 .. n
      BY <2>2, <3>1, <1>1, <1>3 DEF SubscriptionInv, IdentifiersFollow
    <3>2. CASE i = n + 1
      BY <2>2, <3>2, <1>1, <1>3 DEF SubscriptionInv, IdentifiersFollow
    <3> QED
      BY <3>1, <3>2, <1>5
  <2> QED
    BY <2>1, <2>2, <1>3 DEF IdentifiersFollow
<1> QED
  BY <1>6, <1>7 DEF SubscriptionInv

LEMMA UnsubscribeKeepsSubscriptionInv ==
  ASSUME TypeOK, SubscriptionInv, NEW id, Unsubscribe(id)
  PROVE  SubscriptionInv'
<1> DEFINE n == Len(subscriptions)
<1>1. PICK i \in DOMAIN subscriptions : subscriptions' = RemoveAt(subscriptions, i)
  BY DEF Unsubscribe
<1> DEFINE old(j) == IF j < i THEN j ELSE j + 1
<1>2. n \in Nat /\ DOMAIN subscriptions = 1 .. n /\ i \in 1 .. n
  BY <1>1, SubscriptionTypes
<1>3. /\ DOMAIN subscriptions' = 1 .. n - 1
      /\ \A j \in 1 .. n - 1 : subscriptions'[j] = subscriptions[old(j)]
  <2>1. /\ subscriptions' \in Seq(Subscription)
        /\ Len(subscriptions') = n - 1
        /\ \A j \in 1 .. n - 1 :
             subscriptions'[j] = IF j < i THEN subscriptions[j] ELSE subscriptions[j + 1]
    BY <1>1, <1>2, RemoveAtElements, ZenonT(60) DEF TypeOK
  <2>2. DOMAIN subscriptions' = 1 .. n - 1
    BY <2>1, LenProperties
  <2> QED
    BY <2>1, <2>2
<1>4. \A j \in 1 .. n - 1 : old(j) \in 1 .. n
  BY <1>2
<1>5. \A j, k \in 1 .. n - 1 : j < k => old(j) < old(k)
  BY <1>2
<1>6. made' = made /\ nextId' = nextId
  BY DEF Unsubscribe, history
<1> HIDE DEF old, n
<1>7. SubscriptionsOrdered'
  BY <1>2, <1>3, <1>4, <1>5, <1>6 DEF SubscriptionInv, SubscriptionsOrdered
<1>8. IdentifiersFollow'
  BY <1>2, <1>3, <1>4, <1>6 DEF SubscriptionInv, IdentifiersFollow
<1> QED
  BY <1>7, <1>8 DEF SubscriptionInv

LEMMA SubscriptionInvFrame ==
  SubscriptionInv /\ UNCHANGED <<subscriptions, nextId, made>> => SubscriptionInv'
BY DEF SubscriptionInv, SubscriptionsOrdered, IdentifiersFollow

\* The invariant says what IdsNameOneSubscription says, and why.
LEMMA SubscriptionInvSuffices ==
  ASSUME TypeOK, SubscriptionInv
  PROVE  IdsNameOneSubscription
<1> SUFFICES ASSUME made <= IdModulus,
                    NEW i \in DOMAIN subscriptions, NEW j \in DOMAIN subscriptions, i # j
             PROVE  subscriptions[i].id # subscriptions[j].id
  BY DEF IdsNameOneSubscription
<1>1. /\ subscriptions[i].handler \in Nat \ {0}
      /\ subscriptions[j].handler \in Nat \ {0}
      /\ i \in Nat /\ j \in Nat
  BY SubscriptionTypes DEF Subscription, Handler
<1>2. subscriptions[i].handler # subscriptions[j].handler
  BY <1>1 DEF SubscriptionInv, SubscriptionsOrdered
<1>3. /\ subscriptions[i].id = (IF subscriptions[i].handler = IdModulus
                                  THEN 0 ELSE subscriptions[i].handler)
      /\ subscriptions[j].id = (IF subscriptions[j].handler = IdModulus
                                  THEN 0 ELSE subscriptions[j].handler)
  BY DEF SubscriptionInv, IdentifiersFollow
<1> QED
  BY <1>1, <1>2, <1>3

-----------------------------------------------------------------------------
\* Deliveries.  Every publish() in progress keeps to its own handlers.
LEMMA StackTypes ==
  ASSUME TypeOK
  PROVE  /\ Len(stack) \in Nat
         /\ DOMAIN stack = 1 .. Len(stack)
         /\ \A k \in DOMAIN stack : stack[k] \in Frame /\ stack[k].event \in Nat
<1>1. stack \in Seq(Frame)
  BY DEF TypeOK
<1>2. Len(stack) \in Nat /\ DOMAIN stack = 1 .. Len(stack)
  BY <1>1, LenProperties
<1>3. \A k \in DOMAIN stack : stack[k] \in Frame
  BY <1>1, <1>2, ElementOfSeq
<1> QED
  BY <1>2, <1>3 DEF Frame, Publication

LEMMA DeliveryTypes ==
  ASSUME TypeOK
  PROVE  /\ Len(deliveries) \in Nat
         /\ DOMAIN deliveries = 1 .. Len(deliveries)
         /\ \A n \in DOMAIN deliveries :
              deliveries[n].event \in Nat /\ deliveries[n].handler \in Nat
<1>1. deliveries \in Seq([event: Publication, handler: Handler])
  BY DEF TypeOK
<1>2. Len(deliveries) \in Nat /\ DOMAIN deliveries = 1 .. Len(deliveries)
  BY <1>1, LenProperties
<1>3. \A n \in DOMAIN deliveries : deliveries[n] \in [event: Publication, handler: Handler]
  BY <1>1, <1>2, ElementOfSeq
<1> QED
  BY <1>2, <1>3 DEF Publication, Handler

LEMMA PublishKeepsDeliveryInv ==
  ASSUME TypeOK, TypeOK', SubscriptionInv, DeliveryInv,
         NEW type \in EventType, Publish(type)
  PROVE  DeliveryInv'
<1> DEFINE e == Len(audience) + 1
           new == [event |-> e, todo |-> Subscribers(type), running |-> FALSE]
           served == {s.handler : s \in {t \in ToSet(subscriptions) : t.type = type}}
<1>1. deliveries' = deliveries
  BY DEF Publish
<1>2. /\ Len(audience) \in Nat
      /\ DOMAIN audience = 1 .. Len(audience)
      /\ DOMAIN audience' = 1 .. e
      /\ \A x \in DOMAIN audience : audience'[x] = audience[x]
      /\ audience'[e] = served
  <2>1. audience' = Append(audience, served) /\ audience' \in Seq(SUBSET Handler)
    BY DEF Publish, TypeOK
  <2>2. \A i \in DOMAIN subscriptions : subscriptions[i].handler \in Handler
    BY SubscriptionTypes DEF Subscription
  <2>3. served \in SUBSET Handler
    BY <2>2 DEF ToSet
  <2> HIDE DEF served
  <2> QED
    BY <2>1, <2>3, AppendElements DEF TypeOK
<1>3. Subscribers(type) \in SUBSET Copy
  BY SubscriptionTypes DEF Subscribers, Copies, Copy, Subscription
<1>4. new \in Frame
  BY <1>2, <1>3, DispatcherAssumption DEF Publish, Frame, Publication
<1>5. /\ Len(stack) \in Nat
      /\ DOMAIN stack = 1 .. Len(stack)
      /\ DOMAIN stack' = 1 .. Len(stack) + 1
      /\ stack'[1] = new
      /\ \A k \in DOMAIN stack : stack'[k + 1] = stack[k]
  BY <1>4, StackTypes, PushElements, SMTT(30) DEF Publish, TypeOK
<1>6. \A k \in DOMAIN stack' : k = 1 \/ \E l \in DOMAIN stack : k = l + 1
  <2> TAKE k \in DOMAIN stack'
  <2>1. k \in Nat /\ (k = 1 \/ k - 1 \in DOMAIN stack)
    BY <1>5
  <2> QED
    BY <2>1
<1>7. ~(e \in DOMAIN audience) /\ e \in Nat
  BY <1>2
<1>8. \A n \in DOMAIN deliveries : deliveries[n].event # e
  BY <1>7 DEF DeliveryInv, DeliveriesOrdered
<1>9. \A x : Received(x)' = Received(x)
  BY <1>1 DEF Received
<1>10. Received(e) = {}
  BY <1>8 DEF Received
<1> HIDE DEF e, served
<1>11. FramesNested'
  <2>1. \A k \in DOMAIN stack' : stack'[k].event \in DOMAIN audience'
    <3>1. e \in DOMAIN audience' /\ \A x \in DOMAIN audience : x \in DOMAIN audience'
      BY <1>2 DEF e
    <3>2. stack'[1].event = e
      BY <1>5
    <3>3. \A k \in DOMAIN stack : stack'[k + 1].event \in DOMAIN audience
      BY <1>5 DEF DeliveryInv, FramesNested
    <3> QED
      BY <3>1, <3>2, <3>3, <1>6
  <2>2. ASSUME NEW k \in DOMAIN stack', NEW l \in DOMAIN stack', k < l
        PROVE  stack'[l].event < stack'[k].event
    <3>1. PICK m \in DOMAIN stack : l = m + 1
      BY <2>2, <1>5, <1>6
    <3>2. stack[m].event \in 1 .. Len(audience) /\ stack'[l] = stack[m]
      BY <3>1, <1>2, <1>5 DEF DeliveryInv, FramesNested
    <3>3. CASE k = 1
      BY <3>2, <3>3, <1>2, <1>5 DEF e
    <3>4. ASSUME NEW j \in DOMAIN stack, k = j + 1
          PROVE  stack'[l].event < stack'[k].event
      <4>1. j < m
        BY <2>2, <3>1, <3>4, <1>5
      <4> QED
        BY <4>1, <3>2, <3>4, <1>5 DEF DeliveryInv, FramesNested
    <3> QED
      BY <3>3, <3>4, <1>6
  <2> QED
    BY <2>1, <2>2 DEF FramesNested
<1>12. FrameOrdered(stack[1])'
  <2>1. ASSUME NEW c \in Subscribers(type), NEW d \in Subscribers(type), c # d, c.place <= d.place
        PROVE  c.handler < d.handler
    <3>1. PICK i \in DOMAIN subscriptions :
             c = [place |-> i, handler |-> subscriptions[i].handler]
      BY DEF Subscribers, Copies
    <3>2. PICK j \in DOMAIN subscriptions :
             d = [place |-> j, handler |-> subscriptions[j].handler]
      BY DEF Subscribers, Copies
    <3>3. i < j
      BY <2>1, <3>1, <3>2, SubscriptionTypes
    <3> QED
      BY <3>1, <3>2, <3>3 DEF SubscriptionInv, SubscriptionsOrdered
  <2> QED
    BY <2>1, <1>1, <1>5, <1>8 DEF FrameOrdered
<1>13. FrameComplete(stack[1])'
  <2>1. served = {c.handler : c \in Subscribers(type)}
    <3> DEFINE places == {i \in DOMAIN subscriptions : subscriptions[i].type = type}
    <3>1. \A h : h \in served <=> \E i \in places : h = subscriptions[i].handler
      BY DEF served, ToSet
    <3>2. ASSUME NEW h
          PROVE  h \in {c.handler : c \in Copies(places)}
                   <=> \E i \in places : h = subscriptions[i].handler
      <4> DEFINE copy(i) == [place |-> i, handler |-> subscriptions[i].handler]
      <4>1. \A i : copy(i).handler = subscriptions[i].handler
        OBVIOUS
      <4>2. Copies(places) = {copy(i) : i \in places}
        BY DEF Copies
      <4> HIDE DEF copy, places
      <4> QED
        BY <4>1, <4>2
    <3>3. Subscribers(type) = Copies(places)
      BY DEF Subscribers
    <3> QED
      BY <3>1, <3>2, <3>3
  <2> QED
    BY <2>1, <1>2, <1>5, <1>9, <1>10 DEF FrameComplete
<1>14. ASSUME NEW k \in DOMAIN stack
       PROVE  FrameOrdered(stack[k + 1])' /\ FrameComplete(stack[k + 1])'
  <2>1. stack'[k + 1] = stack[k] /\ stack[k].event \in DOMAIN audience
    BY <1>5 DEF DeliveryInv, FramesNested
  <2>2. FrameOrdered(stack[k]) /\ FrameComplete(stack[k])
    BY DEF DeliveryInv
  <2> QED
    BY <2>1, <2>2, <1>1, <1>2, <1>9 DEF FrameOrdered, FrameComplete
<1>15. DeliveriesOrdered'
  BY <1>1, <1>2 DEF DeliveryInv, DeliveriesOrdered, e
<1>16. ReturnedComplete'
  <2> SUFFICES ASSUME NEW x \in DOMAIN audience', ~InProgress(x)'
               PROVE  Received(x)' = audience'[x]
    BY DEF ReturnedComplete
  <2>1. x # e
    BY <1>5 DEF InProgress
  <2>2. x \in DOMAIN audience
    BY <2>1, <1>2 DEF e
  <2>3. ~InProgress(x)
    BY <1>5 DEF InProgress
  <2> QED
    BY <2>2, <2>3, <1>2, <1>9 DEF DeliveryInv, ReturnedComplete
<1>17. \A k \in DOMAIN stack' : FrameOrdered(stack[k])' /\ FrameComplete(stack[k])'
  BY <1>6, <1>12, <1>13, <1>14
<1> QED
  BY <1>11, <1>15, <1>16, <1>17 DEF DeliveryInv

LEMMA CallHandlerKeepsDeliveryInv ==
  ASSUME TypeOK, TypeOK', DeliveryInv, CallHandler
  PROVE  DeliveryInv'
<1> DEFINE frame == stack[1]
           e == frame.event
           n == Len(deliveries)
<1>1. Head(stack) = frame /\ stack # <<>> /\ frame \in Frame /\ 1 \in DOMAIN stack
  BY HeadIsFirst, EmptySeq, LenProperties DEF CallHandler, TypeOK
<1>2. PICK next \in frame.todo :
        /\ \A c \in frame.todo : next.place <= c.place
        /\ stack' = <<[frame EXCEPT !.todo = @ \ {next}, !.running = TRUE]>> \o Tail(stack)
        /\ deliveries' = Append(deliveries, [event |-> e, handler |-> next.handler])
  BY <1>1 DEF CallHandler
<1>3. audience' = audience
  BY DEF CallHandler
<1>4. /\ next \in Copy
      /\ [frame EXCEPT !.todo = @ \ {next}, !.running = TRUE] \in Frame
      /\ [event |-> e, handler |-> next.handler] \in [event: Publication, handler: Handler]
  BY <1>1, <1>2 DEF Frame, Copy
<1>5. /\ DOMAIN stack' = DOMAIN stack
      /\ stack'[1].event = e
      /\ stack'[1].todo = frame.todo \ {next}
      /\ \A k \in DOMAIN stack : k # 1 => stack'[k] = stack[k]
  <2>1. stack \in Seq(Frame)
    BY DEF TypeOK
  <2>2. /\ DOMAIN stack' = DOMAIN stack
        /\ stack'[1] = [frame EXCEPT !.todo = @ \ {next}, !.running = TRUE]
        /\ \A k \in DOMAIN stack : k # 1 => stack'[k] = stack[k]
    BY <1>1, <1>2, <1>4, <2>1, ReplaceElements
  <2> QED
    BY <2>2, <1>1 DEF Frame
<1>6. /\ n \in Nat
      /\ DOMAIN deliveries = 1 .. n
      /\ DOMAIN deliveries' = 1 .. n + 1
      /\ \A i \in 1 .. n : deliveries'[i] = deliveries[i]
      /\ deliveries'[n + 1].event = e
      /\ deliveries'[n + 1].handler = next.handler
  <2>1. deliveries \in Seq([event: Publication, handler: Handler])
    BY DEF TypeOK
  <2> QED
    BY <1>2, <1>4, <2>1, AppendElements
<1>7. \A i \in DOMAIN deliveries' : i \in DOMAIN deliveries \/ i = n + 1
  BY <1>6
<1>8. \A k \in DOMAIN stack : stack'[k].event = stack[k].event
  BY <1>5
<1>9. \A k \in DOMAIN stack : k # 1 => stack[k].event # e
  BY <1>1, StackTypes DEF DeliveryInv, FramesNested
<1>10. FrameOrdered(frame) /\ FrameComplete(frame) /\ e \in DOMAIN audience
  BY <1>1 DEF DeliveryInv, FramesNested
<1>11. ASSUME NEW x, x # e
       PROVE  Received(x)' = Received(x)
  <2>1. {i \in DOMAIN deliveries' : deliveries'[i].event = x}
          = {i \in DOMAIN deliveries : deliveries[i].event = x}
    BY <1>6, <1>7, <1>11
  <2> QED
    BY <2>1, <1>6 DEF Received
<1>12. Received(e)' = Received(e) \union {next.handler}
  <2> SUFFICES ASSUME NEW h
               PROVE  (\E i \in DOMAIN deliveries' :
                         deliveries'[i].event = e /\ deliveries'[i].handler = h)
                      <=> \/ h = next.handler
                          \/ \E i \in DOMAIN deliveries :
                               deliveries[i].event = e /\ deliveries[i].handler = h
    <3>1. Received(e)' = {deliveries'[i].handler :
                            i \in {k \in DOMAIN deliveries' : deliveries'[k].event = e'}}
      BY DEF Received
    <3>2. e' = e
      BY <1>5
    <3> HIDE DEF e
    <3> QED
      BY <3>1, <3>2 DEF Received
  <2> QED
    BY <1>6, <1>7
<1> HIDE DEF frame, n
<1>13. FramesNested'
  BY <1>3, <1>5, <1>8 DEF DeliveryInv, FramesNested
<1>14. FrameOrdered(stack[1])'
  <2>1. \A c, d \in frame.todo \ {next} : c # d /\ c.place <= d.place => c.handler < d.handler
    BY <1>10 DEF FrameOrdered
  <2>2. ASSUME NEW i \in DOMAIN deliveries', deliveries'[i].event = e,
               NEW c \in frame.todo \ {next}
        PROVE  deliveries'[i].handler < c.handler
    <3>1. CASE i \in DOMAIN deliveries
      BY <2>2, <3>1, <1>6, <1>10 DEF FrameOrdered
    <3>2. CASE i = n + 1
      BY <3>2, <1>2, <1>6, <1>10 DEF FrameOrdered
    <3> QED
      BY <3>1, <3>2, <1>7
  <2> QED
    BY <2>1, <2>2, <1>5 DEF FrameOrdered
<1>15. FrameComplete(stack[1])'
  <2>1. audience[e] = Received(e) \union {c.handler : c \in frame.todo}
    BY <1>10 DEF FrameComplete
  <2>2. {c.handler : c \in frame.todo}
          = {next.handler} \union {c.handler : c \in frame.todo \ {next}}
    BY <1>2
  <2>3. audience'[e] = Received(e)' \union {c.handler : c \in stack'[1].todo}
    BY <2>1, <2>2, <1>3, <1>5, <1>12
  <2>4. FrameComplete(stack[1])'
          <=> audience'[stack'[1].event]
                = Received(stack[1].event)' \union {c.handler : c \in stack'[1].todo}
    BY DEF FrameComplete
  <2>5. Received(stack[1].event)' = Received(e)'
    BY DEF frame
  <2> QED
    BY <2>3, <2>4, <2>5, <1>5
<1>16. ASSUME NEW k \in DOMAIN stack, k # 1
       PROVE  FrameOrdered(stack[k])' /\ FrameComplete(stack[k])'
  <2>1. stack'[k] = stack[k] /\ stack[k].event # e
    BY <1>5, <1>9, <1>16
  <2>2. FrameOrdered(stack[k]) /\ FrameComplete(stack[k])
    BY DEF DeliveryInv
  <2>3. ASSUME NEW i \in DOMAIN deliveries', deliveries'[i].event = stack[k].event
        PROVE  i \in DOMAIN deliveries /\ deliveries'[i] = deliveries[i]
    BY <2>1, <2>3, <1>6, <1>7
  <2>4. FrameOrdered(stack[k])'
    BY <2>1, <2>2, <2>3 DEF FrameOrdered
  <2>5. Received(stack[k].event)' = Received(stack[k].event)
    <3> DEFINE x == stack[k].event
    <3>1. x' = x /\ x # e
      BY <2>1
    <3> HIDE DEF x
    <3>2. {i \in DOMAIN deliveries' : deliveries'[i].event = x}
            = {i \in DOMAIN deliveries : deliveries[i].event = x}
      BY <1>6, <1>7, <3>1
    <3>3. Received(x)' = Received(x)
      BY <3>1, <3>2, <1>6 DEF Received
    <3> QED
      BY <3>3 DEF x
  <2>6. FrameComplete(stack[k])'
    BY <2>1, <2>2, <2>5, <1>3 DEF FrameComplete
  <2> QED
    BY <2>4, <2>6
<1>17. DeliveriesOrdered'
  <2>1. \A i \in DOMAIN deliveries' : deliveries'[i].event \in DOMAIN audience'
    BY <1>3, <1>6, <1>7, <1>10 DEF DeliveryInv, DeliveriesOrdered
  <2>2. ASSUME NEW i \in DOMAIN deliveries', NEW j \in DOMAIN deliveries', i < j,
               deliveries'[i].event = deliveries'[j].event
        PROVE  deliveries'[i].handler < deliveries'[j].handler
    <3>1. i \in DOMAIN deliveries
      BY <2>2, <1>6
    <3>2. CASE j \in DOMAIN deliveries
      BY <2>2, <3>1, <3>2, <1>6 DEF DeliveryInv, DeliveriesOrdered
    <3>3. CASE j = n + 1
      BY <2>2, <3>1, <3>3, <1>2, <1>6, <1>10 DEF FrameOrdered
    <3> QED
      BY <3>2, <3>3, <1>7
  <2> QED
    BY <2>1, <2>2 DEF DeliveriesOrdered
<1>18. ReturnedComplete'
  <2> SUFFICES ASSUME NEW x \in DOMAIN audience', ~InProgress(x)'
               PROVE  Received(x)' = audience'[x]
    BY DEF ReturnedComplete
  <2>1. x # e
    BY <1>1, <1>5 DEF InProgress
  <2>2. ~InProgress(x)
    BY <1>5, <1>8 DEF InProgress
  <2> QED
    BY <2>1, <2>2, <1>3, <1>11 DEF DeliveryInv, ReturnedComplete
<1>19. \A k \in DOMAIN stack' : FrameOrdered(stack[k])' /\ FrameComplete(stack[k])'
  BY <1>5, <1>14, <1>15, <1>16
<1> QED
  BY <1>13, <1>17, <1>18, <1>19 DEF DeliveryInv

LEMMA HandlerReturnsKeepsDeliveryInv ==
  ASSUME TypeOK, DeliveryInv, HandlerReturns
  PROVE  DeliveryInv'
<1> DEFINE frame == stack[1]
<1>1. stack \in Seq(Frame) /\ stack # <<>> /\ Head(stack) = frame /\ frame \in Frame
  BY HeadIsFirst DEF HandlerReturns, TypeOK
<1>2. stack' = <<[frame EXCEPT !.running = FALSE]>> \o Tail(stack)
  BY <1>1 DEF HandlerReturns
<1>3. [frame EXCEPT !.running = FALSE] \in Frame
  BY <1>1 DEF Frame
<1>4. /\ DOMAIN stack' = DOMAIN stack
      /\ stack'[1] = [frame EXCEPT !.running = FALSE]
      /\ \A k \in DOMAIN stack : k # 1 => stack'[k] = stack[k]
  BY <1>1, <1>2, <1>3, ReplaceElements
<1>5. \A k \in DOMAIN stack :
        stack'[k].event = stack[k].event /\ stack'[k].todo = stack[k].todo
  BY <1>1, <1>4 DEF Frame
<1>6. audience' = audience /\ deliveries' = deliveries
  BY DEF HandlerReturns, history
<1>7. \A x : Received(x)' = Received(x)
  BY <1>6 DEF Received
<1> HIDE DEF frame
<1>8. FramesNested'
  BY <1>4, <1>5, <1>6 DEF DeliveryInv, FramesNested
<1>9. ASSUME NEW k \in DOMAIN stack
      PROVE  FrameOrdered(stack[k])' /\ FrameComplete(stack[k])'
  <2>1. stack'[k].event = stack[k].event /\ stack'[k].todo = stack[k].todo
    BY <1>5
  <2>2. FrameOrdered(stack[k]) /\ FrameComplete(stack[k])
    BY DEF DeliveryInv
  <2>3. FrameOrdered(stack[k])'
    BY <2>1, <2>2, <1>6 DEF FrameOrdered
  <2>4. FrameComplete(stack[k])'
    BY <2>1, <2>2, <1>6 DEF FrameComplete, Received
  <2> QED
    BY <2>3, <2>4
<1>10. DeliveriesOrdered'
  BY <1>6 DEF DeliveryInv, DeliveriesOrdered
<1>11. ReturnedComplete'
  BY <1>4, <1>5, <1>6, <1>7 DEF DeliveryInv, ReturnedComplete, InProgress
<1> QED
  BY <1>4, <1>8, <1>9, <1>10, <1>11 DEF DeliveryInv

LEMMA PublishReturnsKeepsDeliveryInv ==
  ASSUME TypeOK, DeliveryInv, PublishReturns
  PROVE  DeliveryInv'
<1> DEFINE e == stack[1].event
<1>1. stack \in Seq(Frame) /\ stack # <<>> /\ Head(stack) = stack[1]
  BY HeadIsFirst DEF PublishReturns, TypeOK
<1>2. /\ DOMAIN stack = 1 .. Len(stack)
      /\ Len(stack) \in Nat \ {0}
      /\ DOMAIN stack' = 1 .. Len(stack) - 1
      /\ \A k \in DOMAIN stack' : stack'[k] = stack[k + 1] /\ k + 1 \in DOMAIN stack
  BY <1>1, PopElements DEF PublishReturns
<1>3. \A k \in DOMAIN stack : k = 1 \/ \E l \in DOMAIN stack' : k = l + 1
  <2> TAKE k \in DOMAIN stack
  <2>1. k = 1 \/ (k - 1 \in DOMAIN stack' /\ k = (k - 1) + 1)
    BY <1>2
  <2> QED
    BY <2>1
<1>4. audience' = audience /\ deliveries' = deliveries
  BY DEF PublishReturns, history
<1>5. \A x : Received(x)' = Received(x)
  BY <1>4 DEF Received
<1>6. Received(e) = audience[e]
  <2>1. FrameComplete(stack[1]) /\ stack[1].todo = {}
    BY <1>1, <1>2 DEF PublishReturns, DeliveryInv
  <2> QED
    BY <2>1 DEF FrameComplete
<1> HIDE DEF e
<1>7. FramesNested'
  <2>1. \A k \in DOMAIN stack' : stack'[k].event \in DOMAIN audience'
    BY <1>2, <1>4 DEF DeliveryInv, FramesNested
  <2>2. ASSUME NEW k \in DOMAIN stack', NEW l \in DOMAIN stack', k < l
        PROVE  stack'[l].event < stack'[k].event
    <3>1. k + 1 < l + 1
      BY <2>2, <1>2
    <3> QED
      BY <3>1, <1>2 DEF DeliveryInv, FramesNested
  <2> QED
    BY <2>1, <2>2 DEF FramesNested
<1>8. ASSUME NEW k \in DOMAIN stack'
      PROVE  FrameOrdered(stack[k])' /\ FrameComplete(stack[k])'
  <2>1. stack'[k] = stack[k + 1] /\ FrameOrdered(stack[k + 1]) /\ FrameComplete(stack[k + 1])
    BY <1>2 DEF DeliveryInv
  <2> QED
    BY <2>1, <1>4 DEF FrameOrdered, FrameComplete, Received
<1>9. DeliveriesOrdered'
  BY <1>4 DEF DeliveryInv, DeliveriesOrdered
<1>10. ReturnedComplete'
  <2> SUFFICES ASSUME NEW x \in DOMAIN audience, ~InProgress(x)'
               PROVE  Received(x) = audience[x]
    BY <1>4, <1>5 DEF ReturnedComplete
  <2>1. CASE x = e
    BY <2>1, <1>6
  <2>2. CASE x # e
    <3>1. ~InProgress(x)
      BY <2>2, <1>2, <1>3 DEF InProgress, e
    <3> QED
      BY <3>1 DEF DeliveryInv, ReturnedComplete
  <2> QED
    BY <2>1, <2>2
<1> QED
  BY <1>7, <1>8, <1>9, <1>10 DEF DeliveryInv

LEMMA DeliveryInvFrame ==
  ASSUME DeliveryInv, UNCHANGED <<stack, audience, deliveries>>
  PROVE  DeliveryInv'
<1>1. \A x : Received(x)' = Received(x)
  BY DEF Received
<1>2. \A k \in DOMAIN stack : FrameOrdered(stack[k])' /\ FrameComplete(stack[k])'
  BY DEF DeliveryInv, FrameOrdered, FrameComplete, Received
<1>3. FramesNested' /\ DeliveriesOrdered'
  BY DEF DeliveryInv, FramesNested, DeliveriesOrdered
<1>4. ReturnedComplete'
  BY <1>1 DEF DeliveryInv, ReturnedComplete, InProgress
<1> QED
  BY <1>2, <1>3, <1>4 DEF DeliveryInv

\* The invariant says what AudienceServed says: before publish() returns, the
\* handlers called are among its audience; once it has, they are the audience.
LEMMA DeliveryInvSuffices ==
  ASSUME DeliveryInv
  PROVE  AudienceServed
<1>1. ASSUME NEW event \in DOMAIN audience
      PROVE  Received(event) \subseteq audience[event]
  <2>1. CASE InProgress(event)
    <3>1. PICK k \in DOMAIN stack : stack[k].event = event
      BY <2>1 DEF InProgress
    <3>2. FrameComplete(stack[k])
      BY DEF DeliveryInv
    <3> QED
      BY <3>1, <3>2 DEF FrameComplete
  <2>2. CASE ~InProgress(event)
    BY <2>2 DEF DeliveryInv, ReturnedComplete
  <2> QED
    BY <2>1, <2>2
<1> QED
  BY <1>1 DEF AudienceServed, DeliveryInv, DeliveriesOrdered, ReturnedComplete

-----------------------------------------------------------------------------
LEMMA DispatcherInvInit == Init => DispatcherInv
<1> SUFFICES ASSUME Init PROVE DispatcherInv
  OBVIOUS
<1>1. TypeOK
  BY TypeInit
<1>2. /\ DOMAIN subscriptions = {}
      /\ DOMAIN stack = {}
      /\ DOMAIN audience = {}
      /\ DOMAIN deliveries = {}
  BY DEF Init
<1>3. SubscriptionInv
  BY <1>2, DispatcherAssumption
     DEF Init, SubscriptionInv, SubscriptionsOrdered, IdentifiersFollow
<1>4. DeliveryInv
  BY <1>2 DEF DeliveryInv, FramesNested, DeliveriesOrdered, ReturnedComplete
<1> QED
  BY <1>1, <1>3, <1>4 DEF DispatcherInv

LEMMA DispatcherInvNext == DispatcherInv /\ [Next]_vars => DispatcherInv'
<1> SUFFICES ASSUME DispatcherInv, [Next]_vars PROVE DispatcherInv'
  OBVIOUS
<1> TypeOK /\ SubscriptionInv /\ DeliveryInv
  BY DEF DispatcherInv
<1> TypeOK'
  BY TypeNext
<1>1. ASSUME NEW type \in EventType, Subscribe(type) PROVE DispatcherInv'
  <2>1. UNCHANGED <<stack, audience, deliveries>>
    BY <1>1 DEF Subscribe
  <2> QED
    BY <1>1, <2>1, SubscribeKeepsSubscriptionInv, DeliveryInvFrame DEF DispatcherInv
<1>2. ASSUME NEW type \in EventType, Publish(type) PROVE DispatcherInv'
  <2>1. UNCHANGED <<subscriptions, nextId, made>>
    BY <1>2 DEF Publish
  <2> QED
    BY <1>2, <2>1, PublishKeepsDeliveryInv, SubscriptionInvFrame DEF DispatcherInv
<1>3. ASSUME NEW id \in 0 .. IdModulus - 1, Unsubscribe(id) PROVE DispatcherInv'
  <2>1. UNCHANGED <<stack, audience, deliveries>>
    BY <1>3 DEF Unsubscribe, history
  <2> QED
    BY <1>3, <2>1, UnsubscribeKeepsSubscriptionInv, DeliveryInvFrame DEF DispatcherInv
<1>4. ASSUME CallHandler PROVE DispatcherInv'
  <2>1. UNCHANGED <<subscriptions, nextId, made>>
    BY <1>4 DEF CallHandler
  <2> QED
    BY <1>4, <2>1, CallHandlerKeepsDeliveryInv, SubscriptionInvFrame DEF DispatcherInv
<1>5. ASSUME HandlerReturns PROVE DispatcherInv'
  <2>1. UNCHANGED <<subscriptions, nextId, made>>
    BY <1>5 DEF HandlerReturns, history
  <2> QED
    BY <1>5, <2>1, HandlerReturnsKeepsDeliveryInv, SubscriptionInvFrame DEF DispatcherInv
<1>6. ASSUME PublishReturns PROVE DispatcherInv'
  <2>1. UNCHANGED <<subscriptions, nextId, made>>
    BY <1>6 DEF PublishReturns, history
  <2> QED
    BY <1>6, <2>1, PublishReturnsKeepsDeliveryInv, SubscriptionInvFrame DEF DispatcherInv
<1>7. CASE UNCHANGED vars
  BY <1>7, SubscriptionInvFrame, DeliveryInvFrame DEF vars, DispatcherInv
<1> QED
  BY <1>1, <1>2, <1>3, <1>4, <1>5, <1>6, <1>7 DEF Next

\* The inductive invariant: the handlers of subscriptions_ stand in the order of
\* their subscriptions, identifiers follow it until they come around, and every
\* publish() in progress has called the first of its audience and holds the rest.
THEOREM DispatcherInvariant == Spec => []DispatcherInv
<1>1. Init => DispatcherInv
  BY DispatcherInvInit
<1>2. DispatcherInv /\ [Next]_vars => DispatcherInv'
  BY DispatcherInvNext
<1> QED
  BY <1>1, <1>2, PTL DEF Spec

\* publish() calls exactly the handlers that were subscribed to its type when it
\* was called, each once and in order, however many publish(), subscribe() and
\* unsubscribe() calls the handlers make and however deep they nest.
THEOREM AudienceAlwaysServed == Spec => []AudienceServed
<1>1. DispatcherInv => AudienceServed
  BY DeliveryInvSuffices DEF DispatcherInv
<1> QED
  BY <1>1, DispatcherInvariant, PTL

\* unsubscribe() removes the subscription its identifier was returned for, up to
\* the 2^32nd call of subscribe(), whatever was unsubscribed in between.
THEOREM IdsAlwaysNameOneSubscription == Spec => []IdsNameOneSubscription
<1>1. DispatcherInv => IdsNameOneSubscription
  BY SubscriptionInvSuffices DEF DispatcherInv
<1> QED
  BY <1>1, DispatcherInvariant, PTL
=============================================================================
