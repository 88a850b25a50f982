-------------------------- MODULE CollectorPageProofs --------------------------
(***************************************************************************)
(* Proofs about the control page, for any number of requests under way and *)
(* any collector.  The invariant needed is about the answers on their way: *)
(* each names a state the collector was in since its request was sent.     *)
(***************************************************************************)
EXTENDS CollectorPage, TLAPS

Waiting == {"awaited", "refused"}

AnswerInv ==
  \A slot \in Slot :
    requests[slot].answer \notin Waiting => requests[slot].answer \in requests[slot].since

PageInv == TypeOK /\ AnswerInv /\ FailureStaysVisible

-----------------------------------------------------------------------------
\* No state of the collector looks like an answer that is still to come.
LEMMA ReportedStates == Reported \intersect Waiting = {}
BY ReportedAssumption DEF Unit!CollectorState, Waiting

\* Sending and finishing a request leave the other requests alone.
LEMMA SlotChange ==
  ASSUME PageInv, NEW slot \in Slot, NEW r \in Request \union {Free},
         r.answer \in Waiting, requests' = [requests EXCEPT ![slot] = r]
  PROVE  requests' \in [Slot -> Request \union {Free}] /\ AnswerInv'
BY DEF PageInv, TypeOK, AnswerInv

\* What a request under way has seen of the collector.
LEMMA SeenRequest ==
  ASSUME NEW r \in Request, state' \in Reported
  PROVE  /\ Seen(r) \in Request
         /\ Seen(r).since = r.since \union {state'}
         /\ Seen(r).answer = r.answer
<1>1. r # Free
  BY DEF Request, Command, Free
<1> QED
  BY <1>1 DEF Seen, Request

\* The same for an answered one.
LEMMA AnsweredRequest ==
  ASSUME NEW r \in Request, state' \in Reported, NEW a \in {state', "refused"}
  PROVE  /\ [Seen(r) EXCEPT !.answer = a] \in Request
         /\ [Seen(r) EXCEPT !.answer = a].since = r.since \union {state'}
         /\ [Seen(r) EXCEPT !.answer = a].answer = a
BY SeenRequest DEF Request

\* When the collector moves, every request under way sees it.
LEMMA ObservedChange ==
  ASSUME PageInv, state' \in Reported, Observed
  PROVE  requests' \in [Slot -> Request \union {Free}] /\ AnswerInv'
<1>1. ASSUME NEW s \in Slot
      PROVE  /\ requests'[s] \in Request \union {Free}
             /\ requests'[s].answer \notin Waiting => requests'[s].answer \in requests'[s].since
  <2>1. CASE requests[s] = Free
    BY <2>1 DEF Observed, Seen, Free, Waiting
  <2>2. CASE requests[s] \in Request
    <3>1. requests'[s] = Seen(requests[s])
      BY DEF Observed
    <3> QED
      BY <2>2, <3>1, SeenRequest DEF PageInv, AnswerInv
  <2> QED
    BY <2>1, <2>2 DEF PageInv, TypeOK
<1> QED
  BY <1>1 DEF AnswerInv, Observed

\* When the controller answers a request, the others see the collector too.
LEMMA AnswerChange ==
  ASSUME PageInv, state' \in Reported, NEW slot \in Slot, requests[slot] # Free,
         NEW a \in {state', "refused"}, Answer(slot, a)
  PROVE  requests' \in [Slot -> Request \union {Free}] /\ AnswerInv'
<1>1. ASSUME NEW s \in Slot, s # slot
      PROVE  /\ requests'[s] \in Request \union {Free}
             /\ requests'[s].answer \notin Waiting => requests'[s].answer \in requests'[s].since
  <2>1. CASE requests[s] = Free
    BY <1>1, <2>1 DEF Answer, Seen, Free, Waiting
  <2>2. CASE requests[s] \in Request
    <3>1. requests'[s] = Seen(requests[s])
      BY <1>1 DEF Answer
    <3> QED
      BY <2>2, <3>1, SeenRequest DEF PageInv, AnswerInv
  <2> QED
    BY <2>1, <2>2 DEF PageInv, TypeOK
<1>2. requests[slot] \in Request
  BY DEF PageInv, TypeOK
<1>3. requests'[slot] = [Seen(requests[slot]) EXCEPT !.answer = a]
  BY DEF Answer
<1>4. /\ requests'[slot] \in Request
      /\ requests'[slot].answer = a /\ state' \in requests'[slot].since
  BY <1>2, <1>3, AnsweredRequest, ZenonT(60)
<1>5. a \notin Waiting => a = state'
  BY DEF Waiting
<1>6. \A s \in Slot :
        /\ requests'[s] \in Request \union {Free}
        /\ requests'[s].answer \notin Waiting => requests'[s].answer \in requests'[s].since
  BY <1>1, <1>4, <1>5
<1> QED
  BY <1>6 DEF AnswerInv, Answer

-----------------------------------------------------------------------------
\* The page is loaded in its invariant.
LEMMA InitPage == Init => PageInv
<1> SUFFICES ASSUME Init PROVE PageInv
  OBVIOUS
<1>1. TypeOK
  BY DEF Init, TypeOK
<1>2. AnswerInv
  BY DEF Init, AnswerInv, Free, Waiting
<1>3. FailureStaysVisible
  BY DEF Init, FailureStaysVisible
<1> QED
  BY <1>1, <1>2, <1>3 DEF PageInv

\* Clicks, polls, answers and moves of the collector keep the invariant.
LEMMA NextPage == PageInv /\ [Next]_vars => PageInv'
<1> SUFFICES ASSUME PageInv, [Next]_vars PROVE PageInv'
  OBVIOUS
<1>1. TypeOK /\ AnswerInv /\ FailureStaysVisible
  BY DEF PageInv
<1>2. Free \in Request \union {Free} /\ Free.answer \in Waiting
  BY DEF Free, Waiting
<1>3. ASSUME NEW slot \in Slot, NEW kind \in Command \union {"refresh"}, Send(slot, kind)
      PROVE  requests' \in [Slot -> Request \union {Free}] /\ AnswerInv'
  <2> DEFINE r == [kind |-> kind, since |-> {state}, answer |-> "awaited"]
  <2>1. r \in Request /\ r.answer \in Waiting
    BY <1>1 DEF TypeOK, Request, Waiting
  <2>2. requests' = [requests EXCEPT ![slot] = r]
    BY <1>3 DEF Send
  <2> HIDE DEF r
  <2> QED
    BY <2>1, <2>2, SlotChange
<1>4. ASSUME NEW slot \in Slot, Finish(slot)
      PROVE  requests' \in [Slot -> Request \union {Free}] /\ AnswerInv'
  BY <1>2, <1>4, SlotChange DEF Finish
<1>5. ASSUME NEW slot \in Slot, NEW kind \in Command, Click(slot, kind) PROVE PageInv'
  BY <1>1, <1>3, <1>5 DEF Click, PageInv, TypeOK, FailureStaysVisible
<1>6. ASSUME NEW slot \in Slot, Refresh(slot) PROVE PageInv'
  BY <1>1, <1>3, <1>6 DEF Refresh, PageInv, TypeOK, FailureStaysVisible
<1>7. ASSUME NEW slot \in Slot, Show(slot) PROVE PageInv'
  <2>1. requests[slot].answer \in Reported
    BY <1>1, <1>7 DEF Show, TypeOK, Request, Free
  <2> QED
    BY <1>1, <1>4, <1>7, <2>1 DEF Show, PageInv, TypeOK, FailureStaysVisible
<1>8. ASSUME NEW slot \in Slot, Refusal(slot) PROVE PageInv'
  BY <1>1, <1>4, <1>8 DEF Refusal, PageInv, TypeOK, FailureStaysVisible
<1>9. ASSUME NEW slot \in Slot, Unreachable(slot) PROVE PageInv'
  <2>1. failed' \in BOOLEAN
    BY <1>9 DEF Unreachable
  <2> QED
    BY <1>1, <1>4, <1>9, <2>1 DEF Unreachable, PageInv, TypeOK, FailureStaysVisible
<1>10. ASSUME NEW slot \in Slot, ServeState(slot) \/ ServeCommand(slot) \/ RefuseCommand(slot)
       PROVE  PageInv'
  <2>1. requests[slot] # Free /\ UNCHANGED <<shown, message, failed>>
    BY <1>10 DEF ServeState, ServeCommand, RefuseCommand, Free, Command
  <2>2. state' \in Reported
    BY <1>1, <1>10 DEF ServeState, ServeCommand, RefuseCommand, TypeOK
  <2>3. \E a \in {state', "refused"} : Answer(slot, a)
    BY <1>10 DEF ServeState, ServeCommand, RefuseCommand
  <2>4. requests' \in [Slot -> Request \union {Free}] /\ AnswerInv'
    BY <2>1, <2>2, <2>3, AnswerChange
  <2> QED
    BY <1>1, <2>1, <2>2, <2>4 DEF PageInv, TypeOK, FailureStaysVisible
<1>11. CASE CollectorMoves
  BY <1>1, <1>11, ObservedChange DEF CollectorMoves, PageInv, TypeOK, FailureStaysVisible
<1>12. CASE UNCHANGED vars
  BY <1>1, <1>12 DEF vars, PageInv, TypeOK, AnswerInv, FailureStaysVisible
<1> QED
  BY <1>5, <1>6, <1>7, <1>8, <1>9, <1>10, <1>11, <1>12 DEF Next

\* Types, answers and messages are right in every reachable state.
THEOREM PageInvariance == Spec => []PageInv
BY InitPage, NextPage, PTL DEF Spec

\* The message of a command that failed stays until the next click.
THEOREM FailuresStayVisible == Spec => []FailureStaysVisible
<1>1. PageInv => FailureStaysVisible
  BY DEF PageInv
<1> QED
  BY <1>1, PageInvariance, PTL

\* The page shows a state only on an answer that names a state the collector was
\* in since the request was sent.
THEOREM ShowsConfirmedStates == Spec => ConfirmedOnly
<1> DEFINE Confirmed == \E slot \in Slot : /\ requests[slot] # Free /\ requests'[slot] = Free
                                           /\ shown' \in requests[slot].since
<1>1. ASSUME PageInv, [Next]_vars, shown' # shown PROVE Confirmed
  <2>1. PICK slot \in Slot : Show(slot)
    BY <1>1 DEF Next, vars, Click, Refresh, Refusal, Unreachable, ServeState, ServeCommand,
                RefuseCommand, CollectorMoves
  <2>2. requests[slot].answer \notin Waiting /\ shown' = requests[slot].answer
    BY <2>1 DEF Show, Waiting
  <2>3. requests[slot] # Free
    BY <2>2 DEF Free, Waiting
  <2>4. requests'[slot] = Free
    BY <1>1, <2>1 DEF Show, Finish, PageInv, TypeOK
  <2> QED
    BY <1>1, <2>2, <2>3, <2>4 DEF PageInv, AnswerInv
<1>2. PageInv /\ [Next]_vars => [shown' # shown => Confirmed]_vars
  BY <1>1
<1> QED
  BY <1>2, PageInvariance, PTL DEF Spec, ConfirmedOnly

\* The page shows only states there are, and requests keep their types.
THEOREM PageTypeCorrect == Spec => []TypeOK
<1>1. PageInv => TypeOK
  BY DEF PageInv
<1> QED
  BY <1>1, PageInvariance, PTL
=============================================================================
