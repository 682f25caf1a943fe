------------------------------- MODULE Health -------------------------------
(***************************************************************************)
(* The health registry behind GET /readyz (pkg/health/health.go): probes   *)
(* share a cached report and a probe mutex, and a batch of checker         *)
(* goroutines is abandoned when its deadline passes.                       *)
(*                                                                         *)
(* A probe is a request goroutine inside Registry.Check.  Time is counted  *)
(* in ticks and kept relative, as what is left of a deadline or as an age  *)
(* that saturates, so that no bound on the clock is needed.  A report is   *)
(* the set of dependencies it calls unhealthy.  RegisterFunc and           *)
(* SetExposeErrors run before the server listens: Deps is what they leave, *)
(* and error texts are left out.                                           *)
(***************************************************************************)
EXTENDS Naturals

CONSTANTS
  Probes,   \* request goroutines of /readyz
  Deps,     \* registered checkers
  Hangs,    \* the checkers that ignore their context and may never return
  Timeout,  \* r.timeout, in ticks
  TTL,      \* r.cacheTTL, in ticks
  Nobody

ASSUME HangsAreDeps == Hangs \subseteq Deps
ASSUME TimesArePositive == Timeout \in Nat \ {0} /\ TTL \in Nat \ {0}
ASSUME NobodyIsNoProbe == Nobody \notin Probes

VARIABLES
  up,        \* dependencies that would answer a ping
  draining,
  cached,    \* r.cached: the dependencies it calls unhealthy
  cacheAge,  \* time since r.cachedAt
  probeMu,   \* the probe that holds it
  pc,        \* where each probe is
  left,      \* what is left of its probeCtx
  ran,       \* time since its startedAt
  working,   \* checkers of its batch that have not returned
  results,   \* the channel of its batch: <<dependency, ok>>
  pending,   \* dependencies it has no result of
  down,      \* dependencies its report calls unhealthy
  resp,      \* its answer, once given
  downFor,   \* history: how long each dependency has been down
  sinceBatch \* history: time since a batch was last started

vars == <<up, draining, cached, cacheAge, probeMu, pc, left, ran, working,
          results, pending, down, resp, downFor, sinceBatch>>
batch == <<working, results, pending, down>>
env   == <<up, downFor>>

overallTimeout == 2 * Timeout

\* Ages stop at Cap: no decision tells longer ones apart.
Cap == IF TTL > Timeout THEN TTL ELSE Timeout
Ages == 0..Cap
Older(age) == IF age < Cap THEN age + 1 ELSE Cap

Init ==
  /\ up \in SUBSET Deps
  /\ draining = FALSE
  /\ cached = {}
  /\ cacheAge = Cap   \* cacheValid is false
  /\ probeMu = Nobody
  /\ pc = [p \in Probes |-> "idle"]
  /\ left = [p \in Probes |-> 0]
  /\ ran = [p \in Probes |-> 0]
  /\ working = [p \in Probes |-> {}]
  /\ results = [p \in Probes |-> {}]
  /\ pending = [p \in Probes |-> {}]
  /\ down = [p \in Probes |-> {}]
  /\ resp = [p \in Probes |-> "none"]
  /\ downFor = [d \in Deps |-> IF d \in up THEN 0 ELSE Cap]
  /\ sinceBatch = Cap

-----------------------------------------------------------------------------
\* The world around the registry.

Tick ==
  /\ cacheAge' = Older(cacheAge)
  /\ sinceBatch' = Older(sinceBatch)
  /\ left' = [p \in Probes |-> IF left[p] > 0 THEN left[p] - 1 ELSE 0]
  /\ ran' = [p \in Probes |-> IF pc[p] = "collect" THEN Older(ran[p]) ELSE ran[p]]
  /\ downFor' = [d \in Deps |-> IF d \in up THEN 0 ELSE Older(downFor[d])]
  /\ UNCHANGED <<up, draining, cached, probeMu, pc, batch, resp>>

Flip(d) ==
  /\ up' = IF d \in up THEN up \ {d} ELSE up \cup {d}
  /\ downFor' = [downFor EXCEPT ![d] = 0]
  /\ UNCHANGED <<draining, cached, cacheAge, probeMu, pc, left, ran, batch, resp, sinceBatch>>

StartDraining ==
  /\ draining' = TRUE
  /\ UNCHANGED <<env, cached, cacheAge, probeMu, pc, left, ran, batch, resp, sinceBatch>>

-----------------------------------------------------------------------------
\* Check.  Ready turns the report into 200 or 503.

Answer(p, answer) ==
  /\ pc' = [pc EXCEPT ![p] = "idle"]
  /\ left' = [left EXCEPT ![p] = 0]
  /\ resp' = [resp EXCEPT ![p] = answer]

Verdict(report) == IF report = {} THEN "ready" ELSE "unavailable"

\* Broken: probes do not look at the draining flag.
EnterBlind(p) ==
  /\ pc[p] = "idle"
  /\ pc' = [pc EXCEPT ![p] = "entered"]
  /\ left' = [left EXCEPT ![p] = overallTimeout]
  /\ resp' = [resp EXCEPT ![p] = "none"]
  /\ UNCHANGED <<env, draining, cached, cacheAge, probeMu, ran, batch, sinceBatch>>

\* The draining flag first; then the deadline of the probe starts to run,
\* detached from the request's own context.
Enter(p) ==
  /\ pc[p] = "idle"
  /\ IF draining
       THEN Answer(p, "draining")
       ELSE /\ pc' = [pc EXCEPT ![p] = "entered"]
            /\ left' = [left EXCEPT ![p] = overallTimeout]
            /\ resp' = [resp EXCEPT ![p] = "none"]
  /\ UNCHANGED <<env, draining, cached, cacheAge, probeMu, ran, batch, sinceBatch>>

\* cachedReport returns a report.
Fresh == cacheAge < TTL

ReadCache(p) ==
  /\ pc[p] = "entered"
  /\ IF Fresh
       THEN Answer(p, Verdict(cached))
       ELSE pc' = [pc EXCEPT ![p] = "queued"] /\ UNCHANGED <<left, resp>>
  /\ UNCHANGED <<env, draining, cached, cacheAge, probeMu, ran, batch, sinceBatch>>

\* Under probeMu, the cache once more: whoever held it before has filled it.
CachedMeanwhile(p) ==
  /\ pc[p] = "queued"
  /\ probeMu = Nobody
  /\ Fresh
  /\ Answer(p, Verdict(cached))
  /\ UNCHANGED <<env, draining, cached, cacheAge, probeMu, ran, batch, sinceBatch>>

\* Broken: a batch starts without holding probeMu.
LaunchUnlocked(p) ==
  /\ pc' = [pc EXCEPT ![p] = "collect"]
  /\ ran' = [ran EXCEPT ![p] = 0]
  /\ working' = [working EXCEPT ![p] = Deps]
  /\ pending' = [pending EXCEPT ![p] = Deps]
  /\ sinceBatch' = 0
  /\ UNCHANGED <<env, draining, cached, cacheAge, probeMu, left, results, down, resp>>

Launch(p) ==
  /\ probeMu' = p
  /\ pc' = [pc EXCEPT ![p] = "collect"]
  /\ ran' = [ran EXCEPT ![p] = 0]
  /\ working' = [working EXCEPT ![p] = Deps]
  /\ pending' = [pending EXCEPT ![p] = Deps]
  /\ sinceBatch' = 0
  /\ UNCHANGED <<env, draining, cached, cacheAge, left, results, down, resp>>

\* Broken: the cache is not looked at again under probeMu.
StartBatchUnchecked(p) ==
  /\ pc[p] = "queued"
  /\ probeMu = Nobody
  /\ Launch(p)

\* One goroutine per checker.
StartBatch(p) ==
  /\ pc[p] = "queued"
  /\ probeMu = Nobody
  /\ ~Fresh
  /\ Launch(p)

\* A checker that honours its context gives up when it runs out.
OutOfTime(p) == left[p] = 0 \/ ran[p] >= Timeout

CheckerReturns(p, d) ==
  /\ d \in working[p]
  /\ \E ok \in BOOLEAN :
       /\ IF ok THEN d \in up ELSE d \notin up \/ OutOfTime(p)
       /\ results' = [results EXCEPT ![p] = @ \cup {<<d, ok>>}]
  /\ working' = [working EXCEPT ![p] = @ \ {d}]
  /\ UNCHANGED <<env, draining, cached, cacheAge, probeMu, pc, left, ran, pending, down, resp, sinceBatch>>

\* Broken: a failed dependency is reported, but not as unhealthy.
CollectForgiving(p) ==
  \E r \in results[p] :
    /\ results' = [results EXCEPT ![p] = @ \ {r}]
    /\ pending' = [pending EXCEPT ![p] = @ \ {r[1]}]
    /\ UNCHANGED <<env, draining, cached, cacheAge, probeMu, pc, left, ran, working, down, resp, sinceBatch>>

\* The select of the collecting loop: a result, or the end of probeCtx.
Collect(p) ==
  \E r \in results[p] :
    /\ results' = [results EXCEPT ![p] = @ \ {r}]
    /\ pending' = [pending EXCEPT ![p] = @ \ {r[1]}]
    /\ down' = IF r[2] THEN down ELSE [down EXCEPT ![p] = @ \cup {r[1]}]
    /\ UNCHANGED <<env, draining, cached, cacheAge, probeMu, pc, left, ran, working, resp, sinceBatch>>

\* Broken: the loop waits for every checker, whatever its context says.
GiveUpNever(p) == FALSE /\ UNCHANGED vars

\* The report is completed without the silent checkers.  Their goroutines run
\* on, and nothing of the registry sees them any more.
GiveUp(p) ==
  /\ pc[p] = "collect"
  /\ pending[p] # {}
  /\ left[p] = 0
  /\ down' = [down EXCEPT ![p] = @ \cup pending[p]]
  /\ pending' = [pending EXCEPT ![p] = {}]
  /\ working' = [working EXCEPT ![p] = {}]
  /\ results' = [results EXCEPT ![p] = {}]
  /\ UNCHANGED <<env, draining, cached, cacheAge, probeMu, pc, left, ran, resp, sinceBatch>>

\* Broken: the cache is dated with the end of the batch.
FinishDatedLate(p) ==
  /\ pc[p] = "collect"
  /\ pending[p] = {}
  /\ cached' = down[p]
  /\ cacheAge' = 0
  /\ probeMu' = Nobody
  /\ down' = [down EXCEPT ![p] = {}]
  /\ ran' = [ran EXCEPT ![p] = 0]
  /\ Answer(p, Verdict(down[p]))
  /\ UNCHANGED <<env, draining, working, results, pending, sinceBatch>>

\* The report is cached under the time its batch started.
Finish(p) ==
  /\ pc[p] = "collect"
  /\ pending[p] = {}
  /\ cached' = down[p]
  /\ cacheAge' = ran[p]
  /\ probeMu' = Nobody
  /\ down' = [down EXCEPT ![p] = {}]
  /\ ran' = [ran EXCEPT ![p] = 0]
  /\ Answer(p, Verdict(down[p]))
  /\ UNCHANGED <<env, draining, working, results, pending, sinceBatch>>

-----------------------------------------------------------------------------
Queued(p) == CachedMeanwhile(p) \/ StartBatch(p)
Proceed(p) == ReadCache(p) \/ Collect(p) \/ GiveUp(p) \/ Finish(p)

Next ==
  \/ Tick \/ StartDraining
  \/ \E d \in Deps : Flip(d)
  \/ \E p \in Probes : \/ Enter(p) \/ Queued(p) \/ Proceed(p)
                       \/ \E d \in Deps : CheckerReturns(p, d)

Runnable(p) ==
  \/ pc[p] = "entered"
  \/ pc[p] = "queued" /\ probeMu = Nobody
  \/ pc[p] = "collect" /\ (results[p] # {} \/ pending[p] = {} \/ left[p] = 0)
  \/ OutOfTime(p) /\ working[p] \ Hangs # {}

\* Time passes, goroutines run, sync.Mutex starves nobody, and a checker that
\* honours its context returns.
Fairness ==
  /\ WF_vars(Tick)
  /\ \A p \in Probes :
       /\ WF_vars(Proceed(p)) /\ SF_vars(Queued(p))
       /\ \A d \in Deps \ Hangs : WF_vars(CheckerReturns(p, d))

Spec == Init /\ [][Next]_vars
LiveSpec == Spec /\ Fairness

\* The same on a machine with time to spare: the clock stands while a probe, or
\* a checker that is out of time, can take a step of its own.
PromptSpec == Init /\ [][Next /\ (Tick => \A p \in Probes : ~Runnable(p))]_vars /\ Fairness

-----------------------------------------------------------------------------
\* Type invariant; probeMu is held by the one probe that runs a batch.
TypeOK ==
  /\ \A p \in Probes : pc[p] = "collect" <=> probeMu = p
  /\ up \subseteq Deps /\ draining \in BOOLEAN
  /\ cached \subseteq Deps /\ cacheAge \in Ages
  /\ probeMu \in Probes \cup {Nobody}
  /\ pc \in [Probes -> {"idle", "entered", "queued", "collect"}]
  /\ left \in [Probes -> 0..overallTimeout]
  /\ ran \in [Probes -> Ages]
  /\ working \in [Probes -> SUBSET Deps]
  /\ results \in [Probes -> SUBSET (Deps \X BOOLEAN)]
  /\ pending \in [Probes -> SUBSET Deps]
  /\ down \in [Probes -> SUBSET Deps]
  /\ resp \in [Probes -> {"none", "ready", "unavailable", "draining"}]
  /\ downFor \in [Deps -> Ages]
  /\ sinceBatch \in Ages

\* /readyz is no amplifier: however many probes arrive, wait and time out, two
\* batches start at least a TTL apart.
BatchesApart == [][\A p \in Probes : StartBatch(p) => sinceBatch >= TTL]_vars

ReadyFromCache(p) ==
  /\ pc[p] \in {"entered", "queued"} /\ pc'[p] = "idle"
  /\ resp'[p] = "ready"
ReadyFromBatch(p) == pc[p] = "collect" /\ pc'[p] = "idle" /\ resp'[p] = "ready"

\* A ready answer is recent: one out of the cache is never older than the TTL,
\* slow batches included, so that no dependency has been down for as long as
\* that; and a batch answers ready only if it saw every dependency up itself.
ReadyIsRecent ==
  [][\A p \in Probes :
       /\ ReadyFromCache(p) => \A d \in Deps : downFor[d] < TTL
       /\ ReadyFromBatch(p) => \A d \in Deps : downFor[d] <= ran[p]]_vars

\* Every probe is answered, also when a checker hangs and others queue behind
\* the batch that waits for it.
EveryProbeAnswered == \A p \in Probes : pc[p] # "idle" ~> pc[p] = "idle"

\* Probes that were inside Check when draining began may still answer ready;
\* from some point on none does, so that the load balancer takes the instance
\* out.
ReadyAnswer == \E p \in Probes : pc[p] # "idle" /\ pc'[p] = "idle" /\ resp'[p] = "ready"
DrainTakesEffect == <>draining => <>[][~ReadyAnswer]_vars

\* A probe inside Check only gets closer to its answer: no step, of its own or of
\* another, sends it back to the queue, extends its deadline or adds to what its
\* batch waits for; and once draining began no further probe gets inside.
Inside == {p \in Probes : pc[p] # "idle"}
Stage == [entered |-> 3, queued |-> 2, collect |-> 1, idle |-> 0]
WindDownStep ==
  /\ draining => draining' /\ Inside' \subseteq Inside
  /\ \A p \in Inside :
       /\ Stage[pc'[p]] <= Stage[pc[p]] /\ left'[p] <= left[p]
       /\ pc[p] = "collect" => pending'[p] \subseteq pending[p]
ProbesWindDown == [][WindDownStep]_vars

\* What overallTimeout is for: a batch that calls a dependency unhealthy for
\* its silence gave it the time of a checker.  The code does not keep it.
SilenceIsWaitedFor ==
  [][\A p \in Probes : GiveUp(p) => ran[p] >= Timeout]_vars
=============================================================================
