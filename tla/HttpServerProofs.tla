--------------------------- MODULE HttpServerProofs ---------------------------
(***************************************************************************)
(* Proofs about the HTTP Server: what holds of every order of calls and    *)
(* requests, whatever httpd refuses.                                       *)
(***************************************************************************)
EXTENDS HttpServer, TLAPS

\* Between calls the object and httpd agree; a server nobody holds was refused.
Settled ==
  IF object = "alive"
  THEN /\ handle <=> httpd = "routed"
       /\ httpd = "bare" => refused
  ELSE httpd # "absent" => refused

\* Inside a call: what httpd runs and what the object holds of it.
Underway ==
  /\ object = "alive"
  /\ step \in {"register", "undo"} => ~handle /\ httpd = "bare"
  /\ step = "publish" => ~handle /\ httpd = "routed"
  /\ step \in {"stop", "destroy"} => handle /\ httpd = "routed"

\* The last result reported is what the object holds.
LastReported ==
  Ready =>
    /\ last = [call |-> "start", ok |-> TRUE] => handle
    /\ last = [call |-> "stop", ok |-> TRUE] => ~handle

ServerInv ==
  /\ TypeOK
  /\ step = "idle" => Settled
  /\ step # "idle" => Underway
  /\ LastReported
  /\ request # "none" => httpd = "routed"

-----------------------------------------------------------------------------
\* Every action keeps the types.
LEMMA TypeInit == Init => TypeOK
<1> SUFFICES ASSUME Init PROVE TypeOK
  OBVIOUS
<1>1. last \in [call: {"none", "start", "stop"}, ok: BOOLEAN]
  BY DEF Init
<1> QED
  BY <1>1 DEF Init, TypeOK, Steps

LEMMA TypeNext == TypeOK /\ [Next]_vars => TypeOK'
<1> SUFFICES ASSUME TypeOK, [Next]_vars PROVE TypeOK'
  OBVIOUS
<1> USE DEF TypeOK, Steps, client, server, Return
<1>1. CASE StartRejected
  BY <1>1 DEF StartRejected, Ready
<1>2. CASE HttpdStart
  <2>1. CASE httpd' = "bare" /\ step' = "register" /\ UNCHANGED last
    BY <1>2, <2>1 DEF HttpdStart
  <2>2. CASE UNCHANGED httpd /\ Return("start", FALSE)
    BY <1>2, <2>2 DEF HttpdStart
  <2> QED
    BY <1>2, <2>1, <2>2 DEF HttpdStart
<1>3. CASE Stop
  <2>1. CASE handle
    BY <1>3, <2>1 DEF Stop
  <2>2. CASE ~handle
    <3>1. last' = [call |-> "stop", ok |-> TRUE] /\ step' = "idle"
      BY <1>3, <2>2 DEF Stop
    <3>2. last' \in [call: {"none", "start", "stop"}, ok: BOOLEAN]
      BY <3>1
    <3> QED
      BY <1>3, <3>1, <3>2 DEF Stop
  <2> QED
    BY <2>1, <2>2
<1>4. CASE Destroy
  BY <1>4 DEF Destroy, Ready
<1>5. CASE Register
  BY <1>5 DEF Register
<1>6. CASE Publish
  BY <1>6 DEF Publish
<1>7. CASE Undo
  BY <1>7 DEF Undo, HttpdStop
<1>8. CASE StopEnds
  BY <1>8 DEF StopEnds, HttpdStop
<1>9. CASE DestroyEnds
  BY <1>9 DEF DestroyEnds, HttpdStop
<1>10. CASE Unrouted
  BY <1>10 DEF Unrouted
<1>11. ASSUME NEW method \in Method, Dispatch(method) PROVE TypeOK'
  BY <1>11 DEF Dispatch
<1>12. CASE Handle
  BY <1>12 DEF Handle, Response
<1>13. CASE UNCHANGED vars
  BY <1>13 DEF vars
<1> QED
  BY <1>1, <1>2, <1>3, <1>4, <1>5, <1>6, <1>7, <1>8, <1>9, <1>10, <1>11, <1>12, <1>13
     DEF Next, EndsCall

\* Every state of the server has the types the model declares.
THEOREM TypeCorrect == Spec => []TypeOK
<1>1. Init => TypeOK
  BY TypeInit
<1>2. TypeOK /\ [Next]_vars => TypeOK'
  BY TypeNext
<1> QED
  BY <1>1, <1>2, PTL DEF Spec

-----------------------------------------------------------------------------
LEMMA ServerInvInit == Init => ServerInv
BY TypeInit DEF Init, ServerInv, Settled, LastReported, Ready

LEMMA ServerInvNext == ServerInv /\ [Next]_vars => ServerInv'
<1> SUFFICES ASSUME ServerInv, [Next]_vars PROVE ServerInv'
  OBVIOUS
<1>0. TypeOK /\ TypeOK'
  BY TypeNext DEF ServerInv
<1> USE <1>0 DEF ServerInv, Settled, Underway, LastReported, Ready, client, server, Return
<1>1. CASE StartRejected
  BY <1>1 DEF StartRejected
<1>2. CASE HttpdStart
  BY <1>2 DEF HttpdStart
<1>3. CASE Stop
  BY <1>3 DEF Stop
<1>4. CASE Destroy
  BY <1>4 DEF Destroy, TypeOK
<1>5. CASE Register
  BY <1>5 DEF Register
<1>6. CASE Publish
  BY <1>6 DEF Publish
<1>7. CASE Undo
  BY <1>7 DEF Undo, HttpdStop
<1>8. CASE StopEnds
  BY <1>8 DEF StopEnds, HttpdStop
<1>9. CASE DestroyEnds
  BY <1>9 DEF DestroyEnds, HttpdStop
<1>10. CASE Unrouted
  BY <1>10 DEF Unrouted
<1>11. ASSUME NEW method \in Method, Dispatch(method) PROVE ServerInv'
  BY <1>11 DEF Dispatch
<1>12. CASE Handle
  BY <1>12 DEF Handle
<1>13. CASE UNCHANGED vars
  BY <1>13 DEF vars
<1> QED
  BY <1>1, <1>2, <1>3, <1>4, <1>5, <1>6, <1>7, <1>8, <1>9, <1>10, <1>11, <1>12, <1>13
     DEF Next, EndsCall

\* The inductive invariant: what httpd runs and what the object holds at every
\* step of start(), stop() and the destructor, however httpd answers.
THEOREM ServerInvariant == Spec => []ServerInv
<1>1. Init => ServerInv
  BY ServerInvInit
<1>2. ServerInv /\ [Next]_vars => ServerInv'
  BY ServerInvNext
<1> QED
  BY <1>1, <1>2, PTL DEF Spec

\* Between calls the server answers exactly when the last start() reported
\* success and no stop() has since, whatever httpd refused in between.
THEOREM ResultsAlwaysHonest == Spec => []ResultsAreHonest
<1>1. ServerInv => ResultsAreHonest
  BY DEF ServerInv, Settled, LastReported, ResultsAreHonest, Ready
<1> QED
  BY <1>1, ServerInvariant, PTL

\* A request is inside the object's handler only while httpd routes to it, and
\* after the destructor only if httpd refused to stop.
THEOREM NoRequestEverOutlivesServer == Spec => []NoRequestOutlivesServer
<1>1. ServerInv => NoRequestOutlivesServer
  BY DEF ServerInv, Settled, Underway, NoRequestOutlivesServer
<1> QED
  BY <1>1, ServerInvariant, PTL

\* A server that nobody can stop any more is left only by an httpd that refused.
THEOREM LeftoverAlwaysByRefusal == Spec => []LeftoverOnlyByRefusal
<1>1. ServerInv => LeftoverOnlyByRefusal
  BY DEF ServerInv, TypeOK, Settled, LeftoverOnlyByRefusal
<1> QED
  BY <1>1, ServerInvariant, PTL
=============================================================================
