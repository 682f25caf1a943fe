------------------------------ MODULE Pipeline ------------------------------
(***************************************************************************)
(* A request on its way through the handler chain that internal/router     *)
(* assembles and internal/middleware implements.                           *)
(*                                                                         *)
(* gin keeps an index into the chain of the route.  c.Next calls handlers  *)
(* from there on until the chain ends or c.Abort has moved the index past  *)
(* its end, so a handler that returns without calling c.Next does not end  *)
(* the request, only Abort does.  A handler that called c.Next stays on    *)
(* the stack and goes on when the calls below it have returned; a panic    *)
(* takes the frames off the stack and runs no more than their defers.      *)
(*                                                                         *)
(* A body is its length.  The limiters' answers are those of RateLimit,    *)
(* here either; what the handlers do inside is in Orders and Users.        *)
(***************************************************************************)
EXTENDS Integers, Sequences, FiniteSets

CONSTANTS
  Requests,     \* requests that can be served at once
  Traffic,      \* what clients send: a route, a body's size, whether declared
  Failures,     \* kinds of errors that handlers fail with
  BodyLimits,   \* values of server.max_body_bytes, 0 for none
  MaxBodySize,  \* how much of a body the access log keeps
  TooLarge,     \* what reading a body that exceeds its limit comes to
  None

Routes == {"probe", "open", "api", "unmatched", "preflight"}

\* errcode.From: the status of what a handler may fail with; an error of the
\* business has one of its own, 500 for a token that could not be signed.
FromStatus ==
  [business |-> {400, 401, 403, 404, 409, 500},
   deadline |-> {504}, cancelled |-> {499}, other |-> {500}]

ASSUME SizesAreLengths ==
  /\ Traffic \subseteq [route : Routes, size : Nat, declared : BOOLEAN]
  /\ BodyLimits \subseteq Nat /\ MaxBodySize \in Nat

ASSUME FailuresAreKnown == Failures \subseteq DOMAIN FromStatus

VARIABLES
  conf,      \* configuration read at Setup: maxBody, logBody
  req,       \* the request being served: its route, body size, ...
  index,     \* of the next handler of the chain
  frames,    \* handlers on the stack, the innermost last
  panic,     \* what is being panicked with, None when nothing is
  reply,     \* Writer.Status, the status sent if any, JSON documents written
  body,      \* bytes in front of it, left on the connection, allowed by quota
  got,       \* what the handler read of the body
  inflight,  \* gauge http_requests_in_flight
  counted,   \* statuses counted for the request in http_requests_total
  logged,    \* statuses of its access log lines
  panics,    \* panics_recovered_total, by request
  raised     \* history: the panic of the request, and what was sent before it

calls == <<index, frames, panic>>
told == <<counted, logged, panics>>
vars == <<conf, req, calls, reply, body, got, inflight, told, raised>>

Panics == {"bug", "pipe", "abort"}
Statuses == {200, 204, 400, 401, 403, 404, 405, 409, 413, 429, 499, 500, 503, 504}

ASSUME NoneIsNothing ==
  /\ None \notin Nat \cup Panics \cup Traffic \cup [why : Panics, sent : Statuses \cup {None}]
  /\ TooLarge \notin Nat \cup {None}

Least(a, b) == IF a < b THEN a ELSE b

-----------------------------------------------------------------------------
(* Setup: the chains. *)

\* Broken: Recovery is mounted before the metrics.
BaseRecoveryFirst ==
  <<"RequestID", "Recovery", "Metrics", "BodyLimit", "Logger", "SecurityHeaders", "Cors">>

Base ==
  <<"RequestID", "Metrics", "BodyLimit", "Logger", "Recovery", "SecurityHeaders", "Cors">>

Throttle == <<"RateLimit", "Timeout">>

\* Use acts on the routes registered after it, and on the fallback handlers.
\* A preflight matches no route: only the methods of the path do.
Chain(route) ==
  CASE route = "probe" -> Base \o <<"Handler">>
    [] route = "open" -> Base \o Throttle \o <<"AuthLimit", "Handler">>
    [] route = "api" -> Base \o Throttle \o <<"Auth", "Handler">>
    [] OTHER -> Base \o Throttle \o <<"Handler">>

\* The status of a response nobody has written yet.
InitialStatus(route) ==
  CASE route = "unmatched" -> 404 [] route = "preflight" -> 405 [] OTHER -> 200

\* What the handler of a route answers when it does not panic.
Answers(route) ==
  CASE route = "probe" -> {200, 503}
    [] route \in {"open", "api"} -> {200} \cup UNION {FromStatus[e] : e \in Failures}
    [] OTHER -> {InitialStatus(route)}

-----------------------------------------------------------------------------
(* gin: index, Next and Abort, and the response writer. *)

Serving(r) == req[r] # None
MyChain(r) == Chain(req[r].route)
Aborted == 100    \* an index past the end of every chain

\* The loop of c.Next calls handler m of the chain.
Calls(r, m) ==
  /\ Serving(r) /\ panic[r] = None
  /\ index[r] <= Len(MyChain(r)) /\ MyChain(r)[index[r]] = m

\* m calls c.Next itself ...
Stays(r, m) ==
  /\ index' = [index EXCEPT ![r] = @ + 1]
  /\ frames' = [frames EXCEPT ![r] = Append(@, m)]
  /\ UNCHANGED <<panic, reply>>

\* ... or returns, and the loop goes on below the handler that runs it.
Passes(r) ==
  /\ index' = [index EXCEPT ![r] = @ + 1]
  /\ UNCHANGED <<frames, panic, reply>>

\* A JSON document is written: the first one settles the status.
Document(rep, status) ==
  IF rep.sent = None
    THEN [status |-> status, sent |-> status, docs |-> 1]
    ELSE [rep EXCEPT !.docs = @ + 1]

\* Broken: the error is written, but the chain is not aborted.
ErrorWithoutAbort(r, status) ==
  /\ reply' = [reply EXCEPT ![r] = Document(@, status)]
  /\ index' = [index EXCEPT ![r] = @ + 1]

\* response.Error: AbortWithStatusJSON.
Error(r, status) ==
  /\ reply' = [reply EXCEPT ![r] = Document(@, status)]
  /\ index' = [index EXCEPT ![r] = Aborted]

Refuses(r, status) == Error(r, status) /\ UNCHANGED <<frames, panic>>

-----------------------------------------------------------------------------
(* A request arrives. *)

Init ==
  /\ conf \in [maxBody : BodyLimits, logBody : BOOLEAN]
  /\ req = [r \in Requests |-> None]
  /\ index = [r \in Requests |-> 1]
  /\ frames = [r \in Requests |-> << >>]
  /\ panic = [r \in Requests |-> None]
  /\ reply = [r \in Requests |-> [status |-> 200, sent |-> None, docs |-> 0]]
  /\ body = [r \in Requests |-> [head |-> 0, left |-> 0, quota |-> None]]
  /\ got = [r \in Requests |-> None]
  /\ inflight = 0
  /\ counted = [r \in Requests |-> << >>]
  /\ logged = [r \in Requests |-> << >>]
  /\ panics = [r \in Requests |-> 0]
  /\ raised = [r \in Requests |-> None]

\* net/http starts a goroutine for request r.
Arrive(r) ==
  /\ req[r] = None
  /\ \E q \in Traffic :
       /\ req' = [req EXCEPT ![r] = q]
       /\ reply' = [reply EXCEPT ![r].status = InitialStatus(q.route)]
       /\ body' = [body EXCEPT ![r].left = q.size]
  /\ UNCHANGED <<conf, calls, got, inflight, told, raised>>

-----------------------------------------------------------------------------
(* The middlewares, on the way in. *)

\* What the model does not tell apart: headers, and the context of the request.
Wraps(r, m) ==
  /\ Calls(r, m)
  /\ Stays(r, m)
  /\ UNCHANGED <<conf, req, body, got, inflight, told, raised>>

RequestID(r) == Wraps(r, "RequestID")
SecurityHeaders(r) == Wraps(r, "SecurityHeaders")
Recovery(r) == Wraps(r, "Recovery")
Timeout(r) == Wraps(r, "Timeout")

Metrics(r) ==
  /\ Calls(r, "Metrics")
  /\ Stays(r, "Metrics")
  /\ inflight' = inflight + 1
  /\ UNCHANGED <<conf, req, body, got, told, raised>>

\* A declared length over the limit is refused at once, any other body is cut
\* off when it turns out to be too long.
BodyLimit(r) ==
  /\ Calls(r, "BodyLimit")
  /\ IF conf.maxBody > 0 /\ req[r].declared /\ req[r].size > conf.maxBody
       THEN Refuses(r, 413) /\ UNCHANGED body
       ELSE /\ Stays(r, "BodyLimit")
            /\ body' = [body EXCEPT ![r].quota = IF conf.maxBody > 0 THEN conf.maxBody ELSE None]
  /\ UNCHANGED <<conf, req, got, inflight, told, raised>>

Readable(b) == IF b.quota = None THEN b.left ELSE Least(b.left, b.quota)

\* Broken: the handler gets the copy that was made for the log.
JoinedCopyOnly(b) ==
  [b EXCEPT !.head = Least(Readable(b), MaxBodySize), !.left = 0]

\* Broken: the log reads its part from the connection, past the quota.
JoinedPastLimit(b) ==
  LET k == Least(b.left, MaxBodySize + 1) IN
    [head |-> k, left |-> b.left - k, quota |-> IF b.quota = None THEN None ELSE b.quota - k]

\* The head of the body is read for the log and put back in front of the rest,
\* which still counts against the quota.
Joined(b) ==
  LET k == Least(Readable(b), MaxBodySize + 1) IN
    [head |-> k, left |-> b.left - k, quota |-> IF b.quota = None THEN None ELSE b.quota - k]

Logger(r) ==
  /\ Calls(r, "Logger")
  /\ Stays(r, "Logger")
  /\ body' = IF conf.logBody /\ req[r].route # "probe"
               THEN [body EXCEPT ![r] = Joined(@)] ELSE body
  /\ UNCHANGED <<conf, req, got, inflight, told, raised>>

\* Without an Origin, or with one that is allowed, the request passes; any other
\* is forbidden, and an OPTIONS from an allowed one is answered, on a path that
\* has routes or on any other.
CorsStatuses(route) == IF route \in {"preflight", "unmatched"} THEN {403, 204} ELSE {403}

Cors(r) ==
  /\ Calls(r, "Cors")
  /\ \/ Passes(r)
     \/ \E status \in CorsStatuses(req[r].route) :
          /\ reply' = [reply EXCEPT ![r].status = status, ![r].sent = status]
          /\ index' = [index EXCEPT ![r] = Aborted]
          /\ UNCHANGED <<frames, panic>>
  /\ UNCHANGED <<conf, req, body, got, inflight, told, raised>>

\* Both limiters: "global" on the engine, "auth" on register and login.
RateLimit(r) ==
  /\ \E m \in {"RateLimit", "AuthLimit"} : Calls(r, m) /\ (Stays(r, m) \/ Refuses(r, 429))
  /\ UNCHANGED <<conf, req, body, got, inflight, told, raised>>

Auth(r) ==
  /\ Calls(r, "Auth")
  /\ Stays(r, "Auth") \/ Refuses(r, 401)
  /\ UNCHANGED <<conf, req, body, got, inflight, told, raised>>

-----------------------------------------------------------------------------
(* The handler. *)

Handler(r) == Wraps(r, "Handler")

Innermost(r) == frames[r][Len(frames[r])]
InFrame(r, m) == Serving(r) /\ panic[r] = None /\ frames[r] # << >> /\ Innermost(r) = m
InHandler(r) == InFrame(r, "Handler") /\ reply[r].sent = None

\* bindJSON: 413 for a body longer than its quota.
Bind(r) ==
  /\ InHandler(r) /\ got[r] = None /\ req[r].route \in {"open", "api"}
  /\ LET b == body[r] IN
       IF Readable(b) < b.left
         THEN got' = [got EXCEPT ![r] = TooLarge] /\ Refuses(r, 413)
         ELSE got' = [got EXCEPT ![r] = b.head + b.left] /\ UNCHANGED <<calls, reply>>
  /\ body' = [body EXCEPT ![r].head = 0, ![r].left = 0]
  /\ UNCHANGED <<conf, req, inflight, told, raised>>

\* The handler answers; an order or a user route may do so before it binds.
Respond(r) ==
  /\ InHandler(r)
  /\ \E status \in Answers(req[r].route) :
       reply' = [reply EXCEPT ![r] = Document(@, status)]
  /\ UNCHANGED <<conf, req, calls, body, got, inflight, told, raised>>

\* The code that Recovery guards panics, before or after it has answered: with
\* a bug, and in the handler also with a broken pipe or http.ErrAbortHandler.
Panic(r) ==
  /\ \E m \in {"Auth", "Handler"} :
       /\ InFrame(r, m)
       /\ m = "Auth" => index[r] <= Len(MyChain(r))
       /\ \E why \in IF m = "Handler" THEN Panics ELSE {"bug"} :
            /\ panic' = [panic EXCEPT ![r] = why]
            /\ raised' = [raised EXCEPT ![r] = [why |-> why, sent |-> reply[r].sent]]
  /\ UNCHANGED <<conf, req, index, frames, reply, body, got, inflight, told>>

-----------------------------------------------------------------------------
(* The way out. *)

Pop(r) == frames' = [frames EXCEPT ![r] = SubSeq(@, 1, Len(@) - 1)]

\* Broken: the metrics are taken after c.Next, outside a defer.
DeferringLogger == {"Logger"}

\* The middlewares whose tails are deferred.
Deferring == {"Metrics", "Logger"}

\* The tail of the frame that is left: what it counts and logs.
Epilogue(r, m) ==
  /\ IF m = "Metrics"
       THEN /\ inflight' = inflight - 1
            /\ counted' = [counted EXCEPT ![r] = Append(@, reply[r].status)]
       ELSE UNCHANGED <<inflight, counted>>
  /\ logged' = IF m = "Logger" /\ req[r].route # "probe"
                 THEN [logged EXCEPT ![r] = Append(@, reply[r].status)] ELSE logged

\* The innermost call of c.Next returns, the chain being over.
Return(r) ==
  /\ Serving(r) /\ panic[r] = None /\ frames[r] # << >>
  /\ index[r] > Len(MyChain(r))
  /\ Innermost(r) = "Handler" => reply[r].sent # None
  /\ Pop(r)
  /\ Epilogue(r, Innermost(r))
  /\ UNCHANGED <<conf, req, index, panic, reply, body, got, panics, raised>>

\* A panic takes the innermost frame off the stack.
Unwind(r) ==
  /\ Serving(r) /\ panic[r] # None /\ frames[r] # << >>
  /\ Innermost(r) # "Recovery" \/ panic[r] = "abort"
  /\ Pop(r)
  /\ IF Innermost(r) \in Deferring THEN Epilogue(r, Innermost(r))
                                   ELSE UNCHANGED <<inflight, counted, logged>>
  /\ UNCHANGED <<conf, req, index, panic, reply, body, got, panics, raised>>

\* Broken: Recovery answers whether or not an answer has been started.
AnswerAlways(r) == Error(r, 500)

\* What Recovery does for the client of a panic that is a bug.
Answer(r) ==
  IF reply[r].sent # None
    THEN index' = [index EXCEPT ![r] = Aborted] /\ UNCHANGED reply
    ELSE Error(r, 500)

\* Recovery's defer: http.ErrAbortHandler is panicked with again (Unwind), a
\* broken pipe is not answered, and a bug is counted and answered.
Recover(r) ==
  /\ Serving(r) /\ panic[r] \in {"bug", "pipe"} /\ frames[r] # << >>
  /\ Innermost(r) = "Recovery"
  /\ IF panic[r] = "bug"
       THEN Answer(r) /\ panics' = [panics EXCEPT ![r] = @ + 1]
       ELSE index' = [index EXCEPT ![r] = Aborted] /\ UNCHANGED <<reply, panics>>
  /\ panic' = [panic EXCEPT ![r] = None]
  /\ Pop(r)
  /\ UNCHANGED <<conf, req, body, got, inflight, counted, logged, raised>>

\* gin writes the header, unless a panic goes on to net/http, which closes the
\* connection.
Finish(r) ==
  /\ Serving(r) /\ frames[r] = << >> /\ reply[r].sent = None
  /\ panic[r] = None /\ index[r] > Len(MyChain(r))
  /\ reply' = [reply EXCEPT ![r].sent = reply[r].status]
  /\ UNCHANGED <<conf, req, calls, body, got, inflight, told, raised>>

Over(r) ==
  /\ Serving(r) /\ frames[r] = << >>
  /\ panic[r] # None \/ reply[r].sent # None

\* The goroutine of the request ends, and its place is free.
Leave(r) ==
  /\ Over(r)
  /\ req' = [req EXCEPT ![r] = None]
  /\ index' = [index EXCEPT ![r] = 1]
  /\ panic' = [panic EXCEPT ![r] = None]
  /\ reply' = [reply EXCEPT ![r] = [status |-> 200, sent |-> None, docs |-> 0]]
  /\ body' = [body EXCEPT ![r] = [head |-> 0, left |-> 0, quota |-> None]]
  /\ got' = [got EXCEPT ![r] = None]
  /\ counted' = [counted EXCEPT ![r] = << >>]
  /\ logged' = [logged EXCEPT ![r] = << >>]
  /\ panics' = [panics EXCEPT ![r] = 0]
  /\ raised' = [raised EXCEPT ![r] = None]
  /\ UNCHANGED <<conf, frames, inflight>>

Next ==
  \E r \in Requests :
    \/ Arrive(r) \/ RequestID(r) \/ Metrics(r) \/ BodyLimit(r) \/ Logger(r) \/ Recovery(r)
    \/ SecurityHeaders(r) \/ Cors(r) \/ RateLimit(r) \/ Timeout(r) \/ Auth(r) \/ Handler(r)
    \/ Bind(r) \/ Respond(r) \/ Panic(r) \/ Return(r) \/ Unwind(r) \/ Recover(r)
    \/ Finish(r) \/ Leave(r)

Spec == Init /\ [][Next]_vars

-----------------------------------------------------------------------------
Handlers == {"RequestID", "Metrics", "BodyLimit", "Logger", "Recovery", "SecurityHeaders",
             "Cors", "RateLimit", "Timeout", "AuthLimit", "Auth", "Handler"}

\* Type invariant: no quota is overdrawn.
TypeOK ==
  /\ conf \in [maxBody : BodyLimits, logBody : BOOLEAN]
  /\ req \in [Requests -> Traffic \cup {None}]
  /\ index \in [Requests -> 1..Aborted]
  /\ frames \in [Requests -> Seq(Handlers)]
  /\ panic \in [Requests -> Panics \cup {None}]
  /\ reply \in [Requests -> [status : Statuses, sent : Statuses \cup {None}, docs : Nat]]
  /\ body \in [Requests -> [head : Nat, left : Nat, quota : Nat \cup {None}]]
  /\ got \in [Requests -> Nat \cup {TooLarge, None}]
  /\ inflight \in Nat
  /\ counted \in [Requests -> Seq(Statuses)] /\ logged \in [Requests -> Seq(Statuses)]
  /\ panics \in [Requests -> Nat]
  /\ raised \in [Requests -> [why : Panics, sent : Statuses \cup {None}] \cup {None}]

\* The gauge is the number of requests between the two ends of Metrics, panics
\* and aborts included: it is 0 whenever nothing is served.  When a request is
\* over it has been counted once and logged once, under the status its client
\* was sent, also after a panic.  Probes are not logged, and neither is a body
\* refused for its declared length, BodyLimit being outside Logger.
InMetrics(r) == \E i \in DOMAIN frames[r] : frames[r][i] = "Metrics"
TellsWhatWasSent ==
  /\ inflight = Cardinality({r \in Requests : InMetrics(r)})
  /\ \A r \in Requests : Over(r) =>
       /\ Len(counted[r]) = 1
       /\ panic[r] = None => counted[r][1] = reply[r].sent
       /\ logged[r] = IF \/ req[r].route = "probe"
                         \/ conf.maxBody > 0 /\ req[r].declared /\ req[r].size > conf.maxBody
                        THEN << >> ELSE counted[r]

\* A bug that panics raises the alarm once and leaves the client with exactly
\* one document: the one that had been started, or a 500.  A silent abort gets
\* through to net/http, and neither it nor a broken pipe raises the alarm.
PanicIsAnswered ==
  \A r \in Requests : Over(r) /\ raised[r] # None =>
    /\ panics[r] = IF raised[r].why = "bug" THEN 1 ELSE 0
    /\ raised[r].why = "bug" =>
         /\ reply[r].docs = 1
         /\ reply[r].sent = IF raised[r].sent = None THEN 500 ELSE raised[r].sent
    /\ raised[r].why = "abort" => panic[r] = "abort"

\* Once a request is answered or has panicked, no further handler of its chain
\* is called: a refused request reaches neither Auth nor the handler.
NothingAfterTheAnswer ==
  [][\A r \in Requests : Len(frames'[r]) > Len(frames[r]) =>
       reply[r].sent = None /\ raised[r] = None]_vars

\* A handler reads the body its client sent, whole and within the limit, or
\* answers 413; keeping a copy for the access log makes no difference.
BodyWhole ==
  \A r \in Requests : got[r] # None =>
    IF got[r] = TooLarge
      THEN conf.maxBody > 0 /\ req[r].size > conf.maxBody /\ reply[r].sent = 413
      ELSE got[r] = req[r].size /\ (conf.maxBody > 0 => req[r].size <= conf.maxBody)
=============================================================================
