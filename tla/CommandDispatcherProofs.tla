----------------------- MODULE CommandDispatcherProofs -----------------------
(***************************************************************************)
(* Proofs about the Command Dispatcher, for every set of UIDs and          *)
(* recipients and every depth of nesting: at most one recipient per UID,   *)
(* and with it that the vector implements the bindings of CommandRouting.  *)
(***************************************************************************)
EXTENDS CommandDispatcher, SequenceTheorems, TLAPS

Bound(uid) == {j \in DOMAIN recipients : recipients[j].uid = uid}

\* Erasing a position keeps the others, in their order.
LEMMA RemoveAtElements ==
  ASSUME NEW S, NEW s \in Seq(S), NEW i \in 1 .. Len(s)
  PROVE  /\ RemoveAt(s, i) \in Seq(S)
         /\ Len(RemoveAt(s, i)) = Len(s) - 1
         /\ \A j \in 1 .. Len(s) - 1 :
              RemoveAt(s, i)[j] = IF j < i THEN s[j] ELSE s[j + 1]
<1> DEFINE front == SubSeq(s, 1, i - 1)
           back  == SubSeq(s, i + 1, Len(s))
<1>1. Len(s) \in Nat
  BY LenProperties
<1>2. front \in Seq(S) /\ Len(front) = i - 1 /\ \A j \in 1 .. i - 1 : front[j] = s[j]
  BY <1>1, SubSeqProperties
<1>3. back \in Seq(S) /\ Len(back) = Len(s) - i
      /\ \A j \in 1 .. Len(s) - i : back[j] = s[i + j]
  BY <1>1, SubSeqProperties
<1>4. RemoveAt(s, i) = front \o back
  BY DEF RemoveAt
<1> HIDE DEF front, back
<1>5. /\ front \o back \in Seq(S)
      /\ Len(front \o back) = Len(front) + Len(back)
      /\ \A j \in 1 .. Len(front) + Len(back) :
           (front \o back)[j] = IF j <= Len(front) THEN front[j] ELSE back[j - Len(front)]
  BY <1>2, <1>3, ConcatProperties
<1>6. ASSUME NEW j \in 1 .. Len(s) - 1
      PROVE  (front \o back)[j] = IF j < i THEN s[j] ELSE s[j + 1]
  <2>1. CASE j < i
    BY <2>1, <1>1, <1>2, <1>3, <1>5
  <2>2. CASE ~(j < i)
    <3>1. j - (i - 1) \in 1 .. Len(s) - i
      BY <2>2, <1>1
    <3>2. (front \o back)[j] = back[j - (i - 1)]
      BY <2>2, <1>1, <1>2, <1>3, <1>5
    <3>3. back[j - (i - 1)] = s[i + (j - (i - 1))]
      BY <3>1, <1>3
    <3> QED
      BY <2>2, <3>2, <3>3, <1>1
  <2> QED
    BY <2>1, <2>2
<1> QED
  BY <1>1, <1>2, <1>3, <1>4, <1>5, <1>6

\* With one entry per UID, the position found is the UID's entry.
LEMMA FindIsBound ==
  ASSUME TypeOK, UniqueRecipients, NEW uid \in Uid
  PROVE  Find(uid) = Bound(uid)
<1>1. Find(uid) \subseteq Bound(uid)
  BY DEF Find, Bound
<1> SUFFICES ASSUME NEW i \in Bound(uid) PROVE i \in Find(uid)
  BY <1>1
<1>2. DOMAIN recipients = 1 .. Len(recipients) /\ Len(recipients) \in Nat
  BY LenProperties DEF TypeOK
<1>3. \A j \in 1 .. i - 1 : j \in DOMAIN recipients /\ j # i
  BY <1>2 DEF Bound
<1> QED
  BY <1>3 DEF Bound, Find, UniqueRecipients

\* A recipient is bound exactly when its UID has an entry.
LEMMA BindingOfEntry ==
  ASSUME NEW uid \in Uid
  PROVE  /\ RecipientOf[uid] = {recipients[i].handler : i \in Bound(uid)}
         /\ RecipientOf[uid] = {} <=> Bound(uid) = {}
BY DEF RecipientOf, Bound

-----------------------------------------------------------------------------
DispatcherInv == TypeOK /\ UniqueRecipients

\* What registering does to the vector.
LEMMA RegisterEffect ==
  ASSUME DispatcherInv, NEW uid \in Uid, NEW handler \in Handler \union {NoHandler},
         Accepts(uid, handler),
         recipients' = Append(recipients, [uid |-> uid, handler |-> handler])
  PROVE  /\ recipients' \in Seq(Recipient)
         /\ UniqueRecipients'
         /\ RecipientOf' = [RecipientOf EXCEPT ![uid] = {handler}]
         /\ RecipientOf[uid] = {}
<1> DEFINE n == Len(recipients)
           entry == [uid |-> uid, handler |-> handler]
<1>1. n \in Nat /\ DOMAIN recipients = 1 .. n
  BY LenProperties DEF DispatcherInv, TypeOK
<1>2. entry \in Recipient
  BY DEF Accepts, Recipient
<1>3. /\ recipients' \in Seq(Recipient)
      /\ DOMAIN recipients' = 1 .. n + 1
      /\ \A i \in 1 .. n : recipients'[i] = recipients[i]
      /\ recipients'[n + 1] = entry
  BY <1>1, <1>2, AppendProperties, LenProperties DEF DispatcherInv, TypeOK
<1>4. Bound(uid) = {}
  BY FindIsBound DEF DispatcherInv, Accepts
<1>5. UniqueRecipients'
  <2> SUFFICES ASSUME NEW i \in 1 .. n + 1, NEW j \in 1 .. n + 1,
                      recipients'[i].uid = recipients'[j].uid
               PROVE  i = j
    BY <1>3 DEF UniqueRecipients
  <2>1. \A k \in 1 .. n : recipients'[k].uid # uid
    BY <1>1, <1>3, <1>4 DEF Bound
  <2>2. recipients'[n + 1].uid = uid
    BY <1>3
  <2>3. CASE i = n + 1 \/ j = n + 1
    BY <2>1, <2>2, <2>3, <1>1
  <2>4. CASE i \in 1 .. n /\ j \in 1 .. n
    BY <2>4, <1>1, <1>3 DEF DispatcherInv, UniqueRecipients
  <2> QED
    BY <2>3, <2>4, <1>1
<1>6. ASSUME NEW u \in Uid
      PROVE  RecipientOf'[u] = IF u = uid THEN {handler} ELSE RecipientOf[u]
  <2>1. RecipientOf'[u] = {recipients'[i].handler : i \in Bound(u)'}
    BY DEF RecipientOf, Bound
  <2>2. CASE u = uid
    <3>1. Bound(uid)' = {n + 1}
      BY <1>1, <1>3, <1>4 DEF Bound
    <3> QED
      BY <2>1, <2>2, <3>1, <1>3
  <2>3. CASE u # uid
    <3>1. Bound(u)' = Bound(u)
      BY <2>3, <1>1, <1>3 DEF Bound
    <3>2. \A i \in Bound(u) : recipients'[i] = recipients[i]
      BY <1>1, <1>3 DEF Bound
    <3>3. {recipients'[i].handler : i \in Bound(u)'} = {recipients[i].handler : i \in Bound(u)}
      BY <3>1, <3>2
    <3> QED
      BY <2>1, <2>3, <3>3, BindingOfEntry
  <2> QED
    BY <2>2, <2>3
<1>7. RecipientOf' = [RecipientOf EXCEPT ![uid] = {handler}]
  BY <1>6 DEF RecipientOf
<1> QED
  BY <1>3, <1>4, <1>5, <1>7, BindingOfEntry

\* What unregistering does to the vector.
LEMMA UnregisterEffect ==
  ASSUME DispatcherInv, NEW uid \in Uid, NEW i \in Find(uid), recipients' = Erase(i)
  PROVE  /\ recipients' \in Seq(Recipient)
         /\ UniqueRecipients'
         /\ RecipientOf' = [RecipientOf EXCEPT ![uid] = {}]
         /\ RecipientOf[uid] # {}
<1> DEFINE n == Len(recipients)
           old(j) == IF j < i THEN j ELSE j + 1
<1>1. n \in Nat /\ DOMAIN recipients = 1 .. n
  BY LenProperties DEF DispatcherInv, TypeOK
<1>2. i \in 1 .. n /\ Bound(uid) = {i}
  BY <1>1, FindIsBound DEF DispatcherInv, UniqueRecipients, Bound
<1>3. /\ recipients' \in Seq(Recipient)
      /\ DOMAIN recipients' = 1 .. n - 1
      /\ \A j \in 1 .. n - 1 : recipients'[j] = recipients[old(j)]
  BY <1>1, <1>2, RemoveAtElements, LenProperties DEF DispatcherInv, TypeOK, Erase
<1>4. \A j \in 1 .. n - 1 : old(j) \in 1 .. n /\ old(j) # i
  BY <1>1, <1>2
<1>5. \A j, k \in 1 .. n - 1 : old(j) = old(k) => j = k
  BY <1>1, <1>2
<1>6. \A k \in 1 .. n : k # i => \E j \in 1 .. n - 1 : old(j) = k
  <2> SUFFICES ASSUME NEW k \in 1 .. n, k # i
               PROVE  \E j \in 1 .. n - 1 : old(j) = k
    OBVIOUS
  <2>1. CASE k < i
    <3>1. k \in 1 .. n - 1 /\ old(k) = k
      BY <2>1, <1>1, <1>2
    <3> QED
      BY <3>1
  <2>2. CASE k > i
    <3>1. k - 1 \in 1 .. n - 1 /\ old(k - 1) = k
      BY <2>2, <1>1, <1>2
    <3> QED
      BY <3>1
  <2> QED
    BY <2>1, <2>2, <1>1, <1>2
<1> HIDE DEF old
<1>7. UniqueRecipients'
  BY <1>1, <1>3, <1>4, <1>5 DEF DispatcherInv, UniqueRecipients
<1>8. ASSUME NEW u \in Uid
      PROVE  RecipientOf'[u] = IF u = uid THEN {} ELSE RecipientOf[u]
  <2>1. RecipientOf'[u] = {recipients'[j].handler : j \in Bound(u)'}
    BY DEF RecipientOf, Bound
  <2>2. CASE u = uid
    <3>1. Bound(uid)' = {}
      BY <1>1, <1>2, <1>3, <1>4 DEF Bound
    <3> QED
      BY <2>1, <2>2, <3>1
  <2>3. CASE u # uid
    <3>1. i \notin Bound(u)
      BY <1>2, <2>3 DEF Bound
    <3>2. \A j \in Bound(u)' : old(j) \in Bound(u) /\ recipients'[j] = recipients[old(j)]
      BY <1>1, <1>3, <1>4 DEF Bound
    <3>3. \A k \in Bound(u) : \E j \in Bound(u)' : old(j) = k
      BY <1>1, <1>3, <1>6, <3>1 DEF Bound
    <3>4. {recipients'[j].handler : j \in Bound(u)'} = {recipients[k].handler : k \in Bound(u)}
      BY <3>2, <3>3
    <3> QED
      BY <2>1, <2>3, <3>4, BindingOfEntry
  <2> QED
    BY <2>2, <2>3
<1>9. RecipientOf' = [RecipientOf EXCEPT ![uid] = {}]
  BY <1>8 DEF RecipientOf
<1> QED
  BY <1>2, <1>3, <1>7, <1>9, BindingOfEntry

\* The copy that dispatch() calls is the bound recipient.
LEMMA DispatchReaches ==
  ASSUME DispatcherInv, NEW uid \in Uid
  PROVE  /\ RecipientOf[uid] = {recipients[i].handler : i \in Find(uid)}
         /\ \A i \in Find(uid) : recipients[i].handler \in Handler
<1>1. Find(uid) = Bound(uid)
  BY FindIsBound DEF DispatcherInv
<1>2. \A i \in Bound(uid) : recipients[i] \in Recipient
  BY ElementOfSeq, LenProperties DEF DispatcherInv, TypeOK, Bound
<1> QED
  BY <1>1, <1>2, BindingOfEntry DEF Recipient

-----------------------------------------------------------------------------
\* The stack of calls keeps its type when a call is pushed or popped.
LEMMA CallsType ==
  ASSUME calls \in Seq(Routing!Call)
  PROVE  /\ \A c \in Routing!Call : <<c>> \o calls \in Seq(Routing!Call)
         /\ calls # <<>> =>
              Tail(calls) \in Seq(Routing!Call) /\ Head(calls).target \in Uid
<1>1. \A c \in Routing!Call : <<c>> \o calls \in Seq(Routing!Call)
  BY ConcatProperties
<1>2. calls # <<>> => Tail(calls) \in Seq(Routing!Call) /\ Head(calls) \in Routing!Call
  BY HeadTailProperties
<1>3. \A c \in Routing!Call : c.target \in Uid
  BY DEF Routing!Call
<1> QED
  BY <1>1, <1>2, <1>3

\* One operation: the invariant is kept, and the bindings change as
\* CommandRouting says.
LEMMA StepImplements ==
  ASSUME DispatcherInv, [Next]_vars
  PROVE  /\ DispatcherInv'
         /\ [Routing!Next]_<<RecipientOf, calls, outcome>>
<1> USE DEF Routing!Outcome, Routing!Result
<1>1. ASSUME NEW uid \in Uid, NEW handler \in Handler \union {NoHandler},
             Register(uid, handler)
      PROVE  DispatcherInv' /\ Routing!Register(uid, handler)
  <2>1. CASE Accepts(uid, handler)
    <3>1. recipients' = Append(recipients, [uid |-> uid, handler |-> handler])
          /\ outcome' = <<"registered", uid>> /\ calls' = calls
      BY <1>1, <2>1 DEF Register
    <3> QED
      BY <2>1, <3>1, RegisterEffect
      DEF DispatcherInv, TypeOK, Accepts, Routing!Register
  <2>2. CASE ~Accepts(uid, handler)
    <3>1. UNCHANGED <<recipients, calls>> /\ outcome' = <<"refused", uid>>
      BY <1>1, <2>2 DEF Register
    <3>2. UNCHANGED RecipientOf /\ UniqueRecipients'
      BY <3>1 DEF RecipientOf, DispatcherInv, UniqueRecipients
    <3>3. handler = NoHandler \/ RecipientOf[uid] # {}
      BY <2>2, FindIsBound, BindingOfEntry DEF DispatcherInv, Accepts
    <3> QED
      BY <3>1, <3>2, <3>3 DEF DispatcherInv, TypeOK, Routing!Register
  <2> QED
    BY <2>1, <2>2
<1>2. ASSUME NEW uid \in Uid, Unregister(uid)
      PROVE  DispatcherInv' /\ Routing!Unregister(uid)
  <2>1. ASSUME NEW i \in Find(uid), recipients' = Erase(i), outcome' = <<"unregistered", uid>>
        PROVE  DispatcherInv' /\ Routing!Unregister(uid)
    BY <1>2, <2>1, UnregisterEffect
    DEF Unregister, DispatcherInv, TypeOK, Routing!Unregister
  <2>2. CASE Find(uid) = {} /\ outcome' = <<"not_registered", uid>> /\ UNCHANGED recipients
    <3>1. UNCHANGED RecipientOf /\ UniqueRecipients' /\ UNCHANGED calls
      BY <1>2, <2>2 DEF Unregister, RecipientOf, DispatcherInv, UniqueRecipients
    <3>2. RecipientOf[uid] = {}
      BY <2>2, DispatchReaches
    <3>3. RecipientOf = [RecipientOf EXCEPT ![uid] = {}]
      BY <3>2 DEF RecipientOf
    <3> QED
      BY <2>2, <3>1, <3>2, <3>3 DEF DispatcherInv, TypeOK, Routing!Unregister
  <2> QED
    BY <1>2, <2>1, <2>2 DEF Unregister
<1>3. ASSUME NEW uid \in Uid, Dispatch(uid)
      PROVE  DispatcherInv' /\ Routing!Dispatch(uid)
  <2>1. UNCHANGED RecipientOf /\ UniqueRecipients'
    BY <1>3 DEF Dispatch, RecipientOf, DispatcherInv, UniqueRecipients
  <2>2. CASE Find(uid) = {}
    BY <1>3, <2>1, <2>2, DispatchReaches DEF Dispatch, DispatcherInv, TypeOK, Routing!Dispatch
  <2>3. ASSUME NEW i \in Find(uid), UNCHANGED outcome,
               calls' = <<[target |-> uid, handler |-> recipients[i].handler]>> \o calls
        PROVE  DispatcherInv' /\ Routing!Dispatch(uid)
    <3>1. recipients[i].handler \in RecipientOf[uid] /\ recipients[i].handler \in Handler
      BY DispatchReaches
    <3>2. calls' \in Seq(Routing!Call)
      BY <2>3, <3>1, CallsType DEF DispatcherInv, TypeOK, Routing!Call
    <3> QED
      BY <1>3, <2>1, <2>3, <3>1, <3>2 DEF Dispatch, DispatcherInv, TypeOK, Routing!Dispatch
  <2> QED
    BY <1>3, <2>2, <2>3 DEF Dispatch
<1>4. ASSUME NEW ok \in BOOLEAN, RecipientReturns(ok)
      PROVE  DispatcherInv' /\ Routing!RecipientReturns(ok)
  <2>1. UNCHANGED RecipientOf /\ UniqueRecipients'
    BY <1>4 DEF RecipientReturns, RecipientOf, DispatcherInv, UniqueRecipients
  <2>2. calls' \in Seq(Routing!Call) /\ outcome' \in Routing!Outcome
    BY <1>4, CallsType DEF RecipientReturns, DispatcherInv, TypeOK
  <2> QED
    BY <1>4, <2>1, <2>2 DEF RecipientReturns, DispatcherInv, TypeOK, Routing!RecipientReturns
<1>5. ASSUME UNCHANGED vars
      PROVE  DispatcherInv' /\ UNCHANGED <<RecipientOf, calls, outcome>>
  BY <1>5 DEF vars, DispatcherInv, TypeOK, UniqueRecipients, RecipientOf
<1> QED
  BY <1>1, <1>2, <1>3, <1>4, <1>5 DEF Next, Routing!Next

\* The empty vector binds nothing.
LEMMA InitImplements == Init => DispatcherInv /\ Routing!Init
<1> SUFFICES ASSUME Init PROVE DispatcherInv /\ Routing!Init
  OBVIOUS
<1>1. DispatcherInv
  BY EmptySeq DEF Init, DispatcherInv, TypeOK, UniqueRecipients, Routing!Outcome
<1>2. RecipientOf = [uid \in Uid |-> {}]
  BY DEF Init, RecipientOf
<1> QED
  BY <1>1, <1>2 DEF Init, Routing!Init

\* Every reachable vector of recipients has its types and one entry per UID.
THEOREM DispatcherInvariance == Spec => []DispatcherInv
BY InitImplements, StepImplements, PTL DEF Spec

\* No history of registrations leaves two recipients for one device.
THEOREM RecipientsStayUnique == Spec => []UniqueRecipients
<1>1. DispatcherInv => UniqueRecipients
  BY DEF DispatcherInv
<1> QED
  BY <1>1, DispatcherInvariance, PTL

\* The Command Dispatcher implements the binding of UIDs to recipients.
THEOREM DispatcherImplementsRouting == Spec => ImplementsRouting
BY InitImplements, StepImplements, DispatcherInvariance, PTL
DEF Spec, ImplementsRouting, Routing!Spec

\* Recipients, calls and outcomes keep their types.
THEOREM DispatcherTypeCorrect == Spec => []TypeOK
<1>1. DispatcherInv => TypeOK
  BY DEF DispatcherInv
<1> QED
  BY <1>1, DispatcherInvariance, PTL
=============================================================================
