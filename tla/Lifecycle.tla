----------------------------- MODULE Lifecycle -----------------------------
(***************************************************************************)
(* The life of the server process, from bootstrap.Init to the last Close   *)
(* (cmd/server/main.go, internal/bootstrap/bootstrap.go, pkg/admin), with  *)
(* the load balancer that probes /readyz and the signals that end it.      *)
(*                                                                         *)
(* Four goroutines matter: main, the one in ListenAndServe, the one that   *)
(* waits for the second signal, and the handlers of requests in flight.    *)
(* Time is counted in ticks, kept as what is left of each wait.  The load  *)
(* balancer sends requests while its last probe saw 200.  It probes at     *)
(* least every ProbeInterval, one probe at a time.  A request stands for   *)
(* its connection, and so does a probe that waits for its answer.          *)
(***************************************************************************)
EXTENDS Naturals

CONSTANTS
  Requests,
  DrainDelay,       \* server.drain_delay, 0 for none
  ShutdownTimeout,  \* server.shutdown_timeout
  ProbeInterval,    \* longest time between two probes of the load balancer
  ProbeTime,        \* longest time /readyz takes over its checks
  MaxSignals        \* bound: how many signals arrive

ASSUME TimesAreNumbers ==
  /\ DrainDelay \in Nat /\ ShutdownTimeout \in Nat \ {0} /\ ProbeInterval \in Nat \ {0}
  /\ ProbeTime \in Nat /\ MaxSignals \in Nat

VARIABLES
  pc,         \* where main is
  db, redis,  \* "none", "open", "closed"; "orphaned" when nobody got hold of it
  listener,   \* of app.Srv: "none", "open", "closed"
  srvErr,     \* the channel holds ListenAndServe's error
  adminBusy,  \* the admin server has a request, a profile say
  draining,   \* health.StartDraining was called
  handler,    \* what a signal does: "default", "context", "forced"
  signals,    \* how many have come
  context,    \* the context of NotifyContext is done
  forced,     \* the second-signal goroutine: "none", "waiting", "told", "closing"
  exit,       \* "none", "ok", "error"; or "killed" by the system
  left,       \* what is left of the sleep or of shutdownCtx
  inService,  \* the load balancer sends requests here
  lbLeft,     \* time until its next probe is due
  checking,   \* its probe found us not draining and waits for the checks
  probeLeft,  \* time until they end
  request     \* "none", "running", "done", "refused", "cut"

mainVars == <<pc, db, redis, listener, draining, handler, exit, left>>
lbVars   == <<inService, lbLeft, checking, probeLeft>>
vars == <<pc, db, redis, listener, srvErr, adminBusy, draining, handler, signals, context,
          forced, exit, left, lbVars, request>>

Gone == exit = "killed" \/ pc = "exited"
Running == {r \in Requests : request[r] = "running"}
Idle == Running = {} /\ ~checking

Init ==
  /\ pc = "database"
  /\ db = "none" /\ redis = "none"
  /\ listener = "none"
  /\ srvErr = FALSE /\ adminBusy = FALSE /\ draining = FALSE
  /\ handler = "default"
  /\ signals = 0
  /\ context = FALSE
  /\ forced = "none"
  /\ exit = "none"
  /\ left = 0
  /\ inService = FALSE /\ lbLeft = 0
  /\ checking = FALSE /\ probeLeft = 0
  /\ request = [r \in Requests |-> "none"]

\* main goes on; only what is named changes besides.
Main(from, to) == ~Gone /\ pc = from /\ pc' = to
Else == UNCHANGED <<srvErr, adminBusy, signals, context, forced, lbVars, request>>

-----------------------------------------------------------------------------
\* bootstrap.Init.  A step that fails leaves through the deferred app.Close.

\* NewMySQL may fail before it has a pool, or at a ping: then the pool is left
\* open and app.DB stays nil.
InitDatabase ==
  /\ \/ Main("database", "redis") /\ db' = "open" /\ UNCHANGED exit
     \/ /\ Main("database", "closeRedis")
        /\ exit' = "error"
        /\ db' \in {"none", "orphaned"}
  /\ Else /\ UNCHANGED <<redis, listener, draining, handler, left>>

\* Redis may be disabled.  NewRedis fails at its ping only, with the client made.
InitRedis ==
  /\ \/ Main("redis", "wire") /\ redis' \in {"none", "open"} /\ UNCHANGED exit
     \/ Main("redis", "closeRedis") /\ exit' = "error" /\ redis' = "orphaned"
  /\ Else /\ UNCHANGED <<db, listener, draining, handler, left>>

\* Broken: Init returns its error without releasing what it has opened.
WireWithoutRelease ==
  /\ \/ Main("wire", "register") /\ UNCHANGED exit
     \/ Main("wire", "exited") /\ exit' = "error"
  /\ Else /\ UNCHANGED <<db, redis, listener, draining, handler, left>>

\* resource.Set, router.Setup and the two servers.
Wire ==
  /\ \/ Main("wire", "register") /\ UNCHANGED exit
     \/ Main("wire", "closeRedis") /\ exit' = "error"
  /\ Else /\ UNCHANGED <<db, redis, listener, draining, handler, left>>

-----------------------------------------------------------------------------
\* Run.

\* NotifyContext; from here on the server goroutines run.
Register ==
  /\ Main("register", "select")
  /\ handler' = "context"
  /\ Else /\ UNCHANGED <<db, redis, listener, draining, exit, left>>

\* The goroutine in app.Srv.ListenAndServe.
Listen ==
  /\ ~Gone
  /\ pc \in {"select", "stop", "notify", "drain", "sleep", "admin", "server"}
  /\ listener = "none" /\ ~srvErr
  /\ \/ listener' = "open" /\ UNCHANGED srvErr
     \/ srvErr' = TRUE /\ UNCHANGED listener
  /\ UNCHANGED <<pc, db, redis, draining, handler, exit, left, adminBusy, signals,
                 context, forced, lbVars, request>>

\* The deferred stop() restores the default here.
ServerFailed ==
  /\ srvErr
  /\ Main("select", "closeRedis")
  /\ exit' = "error"
  /\ handler' = "default"
  /\ Else /\ UNCHANGED <<db, redis, listener, draining, left>>

ShutdownSignal ==
  /\ context
  /\ Main("select", "stop")
  /\ Else /\ UNCHANGED <<db, redis, listener, draining, handler, exit, left>>

\* stop() restores the default: for a moment a signal kills the process.
Stop ==
  /\ Main("stop", "notify")
  /\ handler' = "default"
  /\ Else /\ UNCHANGED <<db, redis, listener, draining, exit, left>>

\* Broken: the second signal is asked for, but nobody waits for it.
NotifyWithoutGoroutine ==
  /\ Main("notify", "drain")
  /\ handler' = "forced"
  /\ Else /\ UNCHANGED <<db, redis, listener, draining, exit, left>>

Notify ==
  /\ Main("notify", "drain")
  /\ handler' = "forced"
  /\ forced' = "waiting"
  /\ UNCHANGED <<db, redis, listener, draining, exit, left, srvErr, adminBusy, signals,
                 context, lbVars, request>>

\* Broken: the delay is slept through without touching readiness.
DrainUnannounced ==
  /\ Main("drain", IF DrainDelay = 0 THEN "admin" ELSE "sleep")
  /\ left' = IF DrainDelay = 0 THEN ShutdownTimeout ELSE DrainDelay
  /\ Else /\ UNCHANGED <<db, redis, listener, handler, exit, draining>>

\* With no delay readiness is not touched and shutdownCtx starts at once.
Drain ==
  /\ Main("drain", IF DrainDelay = 0 THEN "admin" ELSE "sleep")
  /\ draining' = (DrainDelay > 0)
  /\ left' = IF DrainDelay = 0 THEN ShutdownTimeout ELSE DrainDelay
  /\ Else /\ UNCHANGED <<db, redis, listener, handler, exit>>

\* The sleep is over and shutdownCtx starts.
DrainEnds ==
  /\ left = 0
  /\ Main("sleep", "admin")
  /\ left' = ShutdownTimeout
  /\ Else /\ UNCHANGED <<db, redis, listener, draining, handler, exit>>

\* admin.Shutdown returns when its server is idle or shutdownCtx ends.
ShutdownAdmin ==
  /\ ~adminBusy \/ left = 0
  /\ Main("admin", "server")
  /\ Else /\ UNCHANGED <<db, redis, listener, draining, handler, exit, left>>

\* app.Srv.Shutdown: stop listening, then wait.
ShutdownServer ==
  /\ Main("server", "wait")
  /\ listener' = "closed"
  /\ Else /\ UNCHANGED <<db, redis, draining, handler, exit, left>>

\* Idle connections are looked for before the context is.
ServerIdle ==
  /\ Idle
  /\ Main("wait", "closeRedis")
  /\ exit' = "ok"
  /\ Else /\ UNCHANGED <<db, redis, listener, draining, handler, left>>

\* Broken: the error of Shutdown is logged and forgotten.
ShutdownTimesOutQuietly ==
  /\ ~Idle
  /\ left = 0
  /\ Main("wait", "closeRedis")
  /\ exit' = "ok"
  /\ Else /\ UNCHANGED <<db, redis, listener, draining, handler, left>>

\* Broken: Shutdown gets a context without a deadline.
ShutdownTimesOutNever == FALSE /\ UNCHANGED vars

ShutdownTimesOut ==
  /\ ~Idle
  /\ left = 0
  /\ Main("wait", "closeRedis")
  /\ exit' = "error"
  /\ Else /\ UNCHANGED <<db, redis, listener, draining, handler, left>>

-----------------------------------------------------------------------------
\* The deferred app.Close, by whichever path main got here, then the exit.

Closed(resource) == IF resource = "open" THEN "closed" ELSE resource
CutOff == [r \in Requests |-> IF request[r] = "running" THEN "cut" ELSE request[r]]

CloseRedis ==
  /\ Main("closeRedis", "closeDatabase")
  /\ redis' = Closed(redis)
  /\ Else /\ UNCHANGED <<db, listener, draining, handler, exit, left>>

CloseDatabase ==
  /\ Main("closeDatabase", "exit")
  /\ db' = Closed(db)
  /\ Else /\ UNCHANGED <<redis, listener, draining, handler, exit, left>>

Exit ==
  /\ Main("exit", "exited")
  /\ listener' = "closed"
  /\ request' = CutOff
  /\ UNCHANGED <<db, redis, draining, handler, exit, left, srvErr, adminBusy, signals,
                 context, forced, lbVars>>

-----------------------------------------------------------------------------
\* Signals.

Signal ==
  /\ ~Gone
  /\ signals < MaxSignals
  /\ signals' = signals + 1
  /\ \/ /\ handler = "default"
        /\ exit' = "killed" /\ listener' = "closed" /\ request' = CutOff
        /\ UNCHANGED <<context, forced>>
     \/ /\ handler = "context"
        /\ context' = TRUE
        /\ UNCHANGED <<exit, listener, request, forced>>
     \/ /\ handler = "forced"
        /\ forced' = IF forced = "waiting" THEN "told" ELSE forced
        /\ UNCHANGED <<exit, listener, request, context>>
  /\ UNCHANGED <<pc, db, redis, draining, handler, left, srvErr, adminBusy, lbVars>>

\* The second-signal goroutine closes the resources, then ends the process.
ForcedClose ==
  /\ ~Gone
  /\ forced = "told"
  /\ forced' = "closing"
  /\ redis' = Closed(redis)
  /\ db' = Closed(db)
  /\ UNCHANGED <<pc, listener, draining, handler, exit, left, srvErr, adminBusy, signals,
                 context, lbVars, request>>

ForcedExit ==
  /\ ~Gone
  /\ forced = "closing"
  /\ pc' = "exited"
  /\ exit' = "error"
  /\ listener' = "closed"
  /\ request' = CutOff
  /\ UNCHANGED <<db, redis, draining, handler, left, srvErr, adminBusy, signals, context,
                 forced, lbVars>>

-----------------------------------------------------------------------------
\* Requests and the load balancer.

Send(r) ==
  /\ request[r] = "none"
  /\ inService
  /\ request' = [request EXCEPT ![r] = IF listener = "open" THEN "running" ELSE "refused"]
  /\ UNCHANGED <<mainVars, srvErr, adminBusy, signals, context, forced, lbVars>>

Finish(r) ==
  /\ request[r] = "running"
  /\ request' = [request EXCEPT ![r] = "done"]
  /\ UNCHANGED <<mainVars, srvErr, adminBusy, signals, context, forced, lbVars>>

\* The load balancer asks GET /readyz.  Nobody listening, or Check finding the
\* draining flag set, answers it at once; else the checks begin.
Probe ==
  /\ ~checking
  /\ lbLeft' = ProbeInterval
  /\ checking' = (listener = "open" /\ ~draining)
  /\ probeLeft' = IF checking' THEN ProbeTime ELSE 0
  /\ inService' = (inService /\ checking')
  /\ UNCHANGED <<mainVars, srvErr, adminBusy, signals, context, forced, request>>

\* The checks end, in 200 or 503, draining or not by now; or the process has.
Answer ==
  /\ checking
  /\ checking' = FALSE
  /\ probeLeft' = 0
  /\ inService' \in BOOLEAN
  /\ Gone => ~inService'
  /\ UNCHANGED <<mainVars, srvErr, adminBusy, signals, context, forced, lbLeft, request>>

\* A request of the admin server starts, unless it is shut down, or ends.
Admin ==
  /\ adminBusy \/ pc \in {"select", "stop", "notify", "drain", "sleep"}
  /\ adminBusy' = ~adminBusy
  /\ UNCHANGED <<mainVars, srvErr, signals, context, forced, lbVars, request>>

Less(time) == IF time > 0 THEN time - 1 ELSE 0

\* No probe is late, neither in starting nor in being answered.
Tick ==
  /\ IF checking THEN probeLeft > 0 ELSE lbLeft > 0
  /\ lbLeft' = Less(lbLeft)
  /\ probeLeft' = Less(probeLeft)
  /\ left' = Less(left)
  /\ UNCHANGED <<pc, db, redis, listener, draining, handler, exit, srvErr, adminBusy,
                 signals, context, forced, inService, checking, request>>

-----------------------------------------------------------------------------
MainStep ==
  \/ InitDatabase \/ InitRedis \/ Wire \/ Register \/ ServerFailed \/ ShutdownSignal
  \/ Stop \/ Notify \/ Drain \/ DrainEnds \/ ShutdownAdmin \/ ShutdownServer
  \/ ServerIdle \/ ShutdownTimesOut \/ CloseRedis \/ CloseDatabase \/ Exit

Next ==
  \/ MainStep \/ Listen \/ Signal \/ ForcedClose \/ ForcedExit
  \/ \E r \in Requests : Send(r) \/ Finish(r)
  \/ Probe \/ Answer \/ Admin \/ Tick

\* main runs, time passes, and the load balancer probes and is answered.  Nothing
\* makes a request finish, on either server.
Fairness == WF_vars(MainStep) /\ WF_vars(Tick) /\ WF_vars(Probe) /\ WF_vars(Answer)

Spec == Init /\ [][Next]_vars /\ Fairness

-----------------------------------------------------------------------------
\* Type invariant.
TypeOK ==
  /\ pc \in {"database", "redis", "wire", "register", "select", "stop", "notify", "drain",
             "sleep", "admin", "server", "wait", "closeRedis", "closeDatabase", "exit", "exited"}
  /\ {db, redis} \subseteq {"none", "open", "closed", "orphaned"}
  /\ listener \in {"none", "open", "closed"}
  /\ {srvErr, adminBusy, draining, context, inService, checking} \subseteq BOOLEAN
  /\ handler \in {"default", "context", "forced"}
  /\ handler = "forced" <=> forced # "none"
  /\ signals \in 0..MaxSignals
  /\ forced \in {"none", "waiting", "told", "closing"}
  /\ exit \in {"none", "ok", "error", "killed"}
  /\ left \in 0..(IF DrainDelay > ShutdownTimeout THEN DrainDelay ELSE ShutdownTimeout)
  /\ lbLeft \in 0..ProbeInterval /\ probeLeft \in 0..ProbeTime
  /\ request \in [Requests -> {"none", "running", "done", "refused", "cut"}]

\* By whatever path the process ends of its own accord, a start that fails half
\* way, second signals and both closing at once included, every connection pool
\* the App was handed is closed.
ResourcesReleased == pc = "exited" => "open" \notin {db, redis}

\* A clean exit status is the truth: no request was cut off, and none is
\* running on a closed database.
CleanExitCutsNothing ==
  exit = "ok" => \A r \in Requests : request[r] \notin {"running", "cut"}

\* One signal costs no request: while the load balancer still sends here the
\* listener is open, though a probe that found us not draining may be answered
\* 200 when we are.  It takes a drain delay longer than the probe interval and
\* than the answer to a probe.
DrainOutlastsProbes == DrainDelay > ProbeInterval /\ DrainDelay > ProbeTime
NobodyIsRefused ==
  DrainOutlastsProbes /\ signals <= 1 => \A r \in Requests : request[r] # "refused"

\* How long main can still wait before it closes its resources.
WaitLeft ==
  CASE pc = "sleep" -> left + ShutdownTimeout
    [] pc \in {"admin", "server", "wait"} -> left
    [] pc \in {"closeRedis", "closeDatabase", "exit", "exited"} -> 0
    [] OTHER -> DrainDelay + ShutdownTimeout

Position ==
  [database |-> 1, redis |-> 2, wire |-> 3, register |-> 4, select |-> 5, stop |-> 6,
   notify |-> 7, drain |-> 8, sleep |-> 9, admin |-> 10, server |-> 11, wait |-> 12,
   closeRedis |-> 13, closeDatabase |-> 14, exit |-> 15, exited |-> 16]

\* Shutting down takes no longer than drain_delay and shutdown_timeout together:
\* main never goes back, and what it can still wait never grows, whatever
\* requests and signals do, and shrinks with the time main spends waiting.
ShutdownStep ==
  /\ pc' # pc => Position[pc'] > Position[pc]
  /\ WaitLeft' <= WaitLeft
  /\ Tick /\ left > 0 /\ pc \in {"sleep", "admin", "server", "wait"} => WaitLeft' < WaitLeft
ShutdownIsBounded == [][ShutdownStep]_vars

\* A signal ends the process, though requests hang on both servers.
SignalEnds == signals > 0 ~> Gone
=============================================================================
