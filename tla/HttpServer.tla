------------------------------ MODULE HttpServer ------------------------------
(***************************************************************************)
(* The life of an HttpServer object (firmware/components/http_server) on   *)
(* top of ESP-IDF's httpd, which may refuse every call and whose own task  *)
(* serves requests while the object's owner is inside start(), stop() or   *)
(* the destructor.  On the Linux host target there is no httpd.            *)
(***************************************************************************)
VARIABLES
  config,    \* target, port and whether the request handler is set
  object,    \* "alive" until the destructor is through
  handle,    \* native_handle_ # nullptr
  httpd,     \* "absent", "bare" without a route, "routed" to the object
  step,      \* where the owner's call is
  request,   \* the method of the request inside dispatch_request
  reply,     \* what the last client saw
  last,      \* the last call that returned, and whether it reported success
  refused    \* history: httpd refused to stop and has not stopped since

vars == <<config, object, handle, httpd, step, request, reply, last, refused>>
server == <<config, object, handle, httpd, step, last, refused>>
client == <<request, reply>>

Method == {"get", "post", "unsupported"}

Configs == [target: {"esp32", "linux"}, port: {0, 80}, handler: BOOLEAN]

Steps == {"idle", "register", "undo", "publish", "stop", "destroy"}

TypeOK ==
  /\ config \in Configs
  /\ object \in {"alive", "gone"}
  /\ handle \in BOOLEAN
  /\ httpd \in {"absent", "bare", "routed"}
  /\ step \in Steps
  /\ request \in Method \union {"none"}
  /\ reply \in {"none", "404", "405", "500", "handler", "lost"}
  /\ last \in [call: {"none", "start", "stop"}, ok: BOOLEAN]
  /\ refused \in BOOLEAN

Init ==
  /\ config \in Configs
  /\ object = "alive"
  /\ handle = FALSE
  /\ httpd = "absent"
  /\ step = "idle"
  /\ request = "none"
  /\ reply = "none"
  /\ last = [call |-> "none", ok |-> TRUE]
  /\ refused = FALSE

-----------------------------------------------------------------------------
(* The owner.                                                              *)

Ready == object = "alive" /\ step = "idle"

Return(call, ok) ==
  /\ step' = "idle"
  /\ last' = [call |-> call, ok |-> ok]

\* start() without an httpd, with port 0, or of a server that runs already.
StartRejected ==
  /\ Ready
  /\ config.target = "linux" \/ config.port = 0 \/ handle
  /\ Return("start", FALSE)
  /\ UNCHANGED <<config, object, handle, httpd, refused, client>>

\* httpd_start, which may fail, and fails when its port is taken.
HttpdStart ==
  /\ Ready
  /\ config.target = "esp32" /\ config.port # 0 /\ ~handle
  /\ \/ httpd = "absent" /\ httpd' = "bare" /\ step' = "register" /\ UNCHANGED last
     \/ UNCHANGED httpd /\ Return("start", FALSE)
  /\ UNCHANGED <<config, object, handle, refused, client>>

\* httpd_register_uri_handler; from here on requests reach the object.
Register ==
  /\ step = "register"
  /\ \/ httpd' = "routed" /\ step' = "publish"
     \/ UNCHANGED httpd /\ step' = "undo"
  /\ UNCHANGED <<config, object, handle, last, refused, client>>

Publish ==
  /\ step = "publish"
  /\ handle' = TRUE
  /\ Return("start", TRUE)
  /\ UNCHANGED <<config, object, httpd, refused, client>>

\* httpd_stop waits for the request being served, or is refused.
HttpdStop ==
  \/ httpd' = "absent" /\ request = "none" /\ refused' = FALSE
  \/ UNCHANGED httpd /\ refused' = TRUE

\* Mutant: start() gives up without taking back what it started.
UndoNothing ==
  /\ step = "undo"
  /\ Return("start", FALSE)
  /\ UNCHANGED <<config, object, handle, httpd, refused, client>>

\* A route that was not accepted: the result of httpd_stop is ignored.
Undo ==
  /\ step = "undo"
  /\ HttpdStop
  /\ Return("start", FALSE)
  /\ UNCHANGED <<config, object, handle, client>>

Stop ==
  /\ Ready
  /\ IF handle
     THEN step' = "stop" /\ UNCHANGED last
     ELSE Return("stop", TRUE)
  /\ UNCHANGED <<config, object, handle, httpd, refused, client>>

\* Mutant: the handle is dropped also when the stop failed.
StopEndsForgetting ==
  /\ step = "stop"
  /\ HttpdStop
  /\ handle' = FALSE
  /\ Return("stop", ~refused')
  /\ UNCHANGED <<config, object, client>>

StopEnds ==
  /\ step = "stop"
  /\ HttpdStop
  /\ handle' = refused'
  /\ Return("stop", ~refused')
  /\ UNCHANGED <<config, object, client>>

\* Mutant: a destructor that does not stop the server.
DestroyAtOnce ==
  /\ Ready
  /\ object' = "gone"
  /\ UNCHANGED <<config, handle, httpd, step, last, refused, client>>

\* The destructor.
Destroy ==
  /\ Ready
  /\ IF handle
     THEN step' = "destroy" /\ UNCHANGED object
     ELSE object' = "gone" /\ UNCHANGED step
  /\ UNCHANGED <<config, handle, httpd, last, refused, client>>

\* The destructor's stop(), whose result is ignored.
DestroyEnds ==
  /\ step = "destroy"
  /\ HttpdStop
  /\ handle' = refused'
  /\ object' = "gone"
  /\ step' = "idle"
  /\ UNCHANGED <<config, last, client>>

-----------------------------------------------------------------------------
(* The httpd task.                                                         *)

\* A request meets no route, and httpd itself answers.
Unrouted ==
  /\ httpd = "bare"
  /\ reply' \in {"404", "lost"}
  /\ UNCHANGED <<server, request>>

\* Mutant: a method is passed on as it came.
DispatchAsIs(method) ==
  /\ httpd = "routed"
  /\ request = "none"
  /\ request' \in {"head", "put", "delete"}
  /\ UNCHANGED <<server, reply>>

Dispatch(method) ==
  /\ httpd = "routed"
  /\ request = "none"
  /\ request' = method
  /\ UNCHANGED <<server, reply>>

\* HttpServer::handle; of an object that is gone, anything may come.
Response ==
  IF object = "gone" THEN {"405", "500", "handler"}
  ELSE IF request = "unsupported" THEN {"405"}
  ELSE IF config.handler THEN {"handler"} ELSE {"500"}

\* Mutant: requests and the owner's calls exclude each other by one lock.
HandleLocked ==
  /\ request # "none" /\ step = "idle"
  /\ reply' \in Response \union {"lost"}
  /\ request' = "none"
  /\ UNCHANGED server

\* The answer may fail to be set or sent.
Handle ==
  /\ request # "none"
  /\ reply' \in Response \union {"lost"}
  /\ request' = "none"
  /\ UNCHANGED server

-----------------------------------------------------------------------------
EndsCall == Undo \/ StopEnds \/ DestroyEnds

Next ==
  \/ StartRejected
  \/ HttpdStart
  \/ Stop
  \/ Destroy
  \/ Register
  \/ Publish
  \/ EndsCall
  \/ Unrouted
  \/ \E method \in Method : Dispatch(method)
  \/ Handle

Spec == Init /\ [][Next]_vars

(***************************************************************************)
(* The owner's task and the httpd task run.  An httpd that does not refuse *)
(* to stop takes no further request while it waits for the one it serves,  *)
(* which the strong fairness stands for.  Nothing relies on refusals.      *)
(***************************************************************************)
Fairness ==
  /\ WF_vars(Register \/ Publish)
  /\ SF_vars(EndsCall /\ ~refused')
  /\ WF_vars(Handle)

FairSpec == Spec /\ Fairness

-----------------------------------------------------------------------------
\* "Empty means success; otherwise the returned string explains the failure"
\* (http_server.hpp, line 41): between calls the server answers exactly when
\* the last start succeeded and no stop has since, whatever httpd refused.
\* A start that is refused because the server runs changes nothing.
ResultsAreHonest ==
  Ready =>
    /\ handle <=> httpd = "routed"
    /\ last = [call |-> "start", ok |-> TRUE] => handle
    /\ last = [call |-> "stop", ok |-> TRUE] => ~handle

\* When the server is gone no request is left inside the object's handler, and
\* none reaches the object after its destructor, unless httpd refused to stop.
NoRequestOutlivesServer ==
  request # "none" => httpd = "routed" /\ (object = "gone" => refused)

\* A server that nobody can stop any more is left behind (and keeps its port)
\* only when httpd itself refused to stop it, after a route it had not accepted
\* or in the destructor.
LeftoverOnlyByRefusal ==
  (step = "idle" /\ httpd # "absent" /\ (~handle \/ object = "gone")) => refused

\* Every start(), stop() and destructor returns, however many requests come.
CallsReturn == (step # "idle") ~> (step = "idle")
=============================================================================
