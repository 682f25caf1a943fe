---------------------------- MODULE HealthProofs ----------------------------
(***************************************************************************)
(* Proofs about Health, for any probes, checkers and times.  The inductive *)
(* invariant accounts for every checker of a batch (running, delivered or  *)
(* collected) and relates the ages: the batch's, the cache's, and how long *)
(* each dependency has been down.                                          *)
(***************************************************************************)
EXTENDS Health, TLAPS

\* What a batch waits for is what its checkers have not delivered yet; each
\* delivers one result.
BatchAccounted ==
  \A p \in Probes :
    /\ pc[p] # "collect" => pending[p] = {}
    /\ working[p] \subseteq pending[p]
    /\ \A d \in Deps :
         /\ <<d, TRUE>> \in results[p] =>
              d \in pending[p] /\ d \notin working[p] /\ <<d, FALSE>> \notin results[p]
         /\ <<d, FALSE>> \in results[p] =>
              d \in pending[p] /\ d \notin working[p] /\ <<d, TRUE>> \notin results[p]

\* A dependency that is not waited for and not reported has been up since the
\* batch started.
SeenUp ==
  \A p \in Probes : pc[p] = "collect" =>
    \A d \in Deps :
      /\ d \in pending[p] \/ d \in down[p] \/ downFor[d] <= ran[p]
      /\ <<d, TRUE>> \in results[p] => downFor[d] <= ran[p]

\* The cache is as old as the batch it came from.
AgesAgree ==
  /\ \A d \in up : downFor[d] = 0
  /\ cached = {} => \A d \in Deps : downFor[d] <= cacheAge
  /\ \A p \in Probes : pc[p] = "collect" => ran[p] = sinceBatch
  /\ probeMu = Nobody => cacheAge = sinceBatch

Inv == TypeOK /\ BatchAccounted /\ SeenUp /\ AgesAgree

-----------------------------------------------------------------------------
LEMMA CapIsPositive == Cap \in Nat /\ TTL <= Cap /\ 0 \in Ages /\ Cap \in Ages
BY TimesArePositive DEF Cap, Ages

\* Ages grow together, also where they stop.
LEMMA OlderKeepsOrder ==
  ASSUME NEW a \in Ages, NEW b \in Ages
  PROVE  /\ Older(a) \in Ages
         /\ a <= b => Older(a) <= Older(b)
BY CapIsPositive DEF Ages, Older

LEMMA InvInit == Init => Inv
<1> SUFFICES ASSUME Init PROVE Inv
  OBVIOUS
<1>1. TypeOK
  <2>1. /\ left \in [Probes -> 0..overallTimeout]
        /\ ran \in [Probes -> Ages] /\ downFor \in [Deps -> Ages]
    BY CapIsPositive, TimesArePositive DEF Init, overallTimeout
  <2>2. up \subseteq Deps /\ draining \in BOOLEAN /\ cached \subseteq Deps
    BY Zenon DEF Init
  <2>3. cacheAge \in Ages /\ sinceBatch \in Ages
    BY CapIsPositive DEF Init
  <2> QED
    BY <2>1, <2>2, <2>3, NobodyIsNoProbe DEF Init, TypeOK
<1>2. \A d \in Deps : downFor[d] <= cacheAge
  BY CapIsPositive DEF Init
<1> QED
  BY <1>1, <1>2 DEF Init, Inv, BatchAccounted, SeenUp, AgesAgree

LEMMA TickKeepsInv ==
  ASSUME Inv, Tick
  PROVE  Inv'
<1>1. TypeOK'
  <2>1. left' \in [Probes -> 0..overallTimeout]
    <3>1. overallTimeout \in Nat
      BY TimesArePositive DEF overallTimeout
    <3> QED
      BY <3>1 DEF Inv, TypeOK, Tick
  <2>2. ran' \in [Probes -> Ages] /\ downFor' \in [Deps -> Ages]
    BY CapIsPositive, OlderKeepsOrder DEF Inv, TypeOK, Tick
  <2>3. cacheAge' \in Ages /\ sinceBatch' \in Ages
    BY OlderKeepsOrder DEF Inv, TypeOK, Tick
  <2> QED
    BY <2>1, <2>2, <2>3 DEF Inv, TypeOK, Tick, batch
<1>2. BatchAccounted'
  BY DEF Inv, BatchAccounted, Tick, batch
<1>3. \A d \in Deps, age \in Ages : downFor[d] <= age => downFor'[d] <= Older(age)
  <2> SUFFICES ASSUME NEW d \in Deps, NEW age \in Ages, downFor[d] <= age
               PROVE  downFor'[d] <= Older(age)
    OBVIOUS
  <2>1. downFor[d] \in Ages /\ Older(age) \in Ages /\ Older(downFor[d]) <= Older(age)
    BY OlderKeepsOrder DEF Inv, TypeOK
  <2>2. downFor'[d] = 0 \/ downFor'[d] = Older(downFor[d])
    BY DEF Tick
  <2> QED
    BY <2>1, <2>2 DEF Ages
<1>4. SeenUp'
  <2> SUFFICES ASSUME NEW p \in Probes, pc'[p] = "collect", NEW d \in Deps
               PROVE  /\ d \in pending'[p] \/ d \in down'[p] \/ downFor'[d] <= ran'[p]
                      /\ <<d, TRUE>> \in results'[p] => downFor'[d] <= ran'[p]
    BY DEF SeenUp
  <2>1. /\ pc[p] = "collect" /\ pending'[p] = pending[p] /\ down'[p] = down[p]
        /\ results'[p] = results[p] /\ ran[p] \in Ages /\ ran'[p] = Older(ran[p])
    BY DEF Tick, batch, Inv, TypeOK
  <2> QED
    BY <1>3, <2>1 DEF Inv, SeenUp
<1>5. AgesAgree'
  <2>1. cacheAge \in Ages
    BY DEF Inv, TypeOK
  <2>2. cached' = {} => \A d \in Deps : downFor'[d] <= cacheAge'
    BY <1>3, <2>1 DEF Inv, AgesAgree, Tick
  <2>3. \A d \in up' : downFor'[d] = 0
    BY DEF Inv, TypeOK, Tick
  <2>4. \A p \in Probes : pc'[p] = "collect" => ran'[p] = sinceBatch'
    BY DEF Inv, AgesAgree, Tick
  <2>5. probeMu' = Nobody => cacheAge' = sinceBatch'
    BY DEF Inv, AgesAgree, Tick
  <2> QED
    BY <2>2, <2>3, <2>4, <2>5 DEF AgesAgree
<1> QED
  BY <1>1, <1>2, <1>4, <1>5 DEF Inv

\* Steps of p that neither start nor end a batch.
LEMMA OutsideBatchKeepsInv ==
  ASSUME Inv, NEW p \in Probes, pc[p] # "collect",
         NEW place \in {"idle", "entered", "queued"}, pc' = [pc EXCEPT ![p] = place],
         left' \in [Probes -> 0..overallTimeout],
         resp' \in [Probes -> {"none", "ready", "unavailable", "draining"}],
         UNCHANGED <<env, draining, cached, cacheAge, probeMu, ran, batch, sinceBatch>>
  PROVE  Inv'
BY DEF Inv, TypeOK, BatchAccounted, SeenUp, AgesAgree, env, batch

LEMMA AnswerEffect ==
  ASSUME TypeOK, NEW p \in Probes, NEW answer \in {"ready", "unavailable", "draining"},
         Answer(p, answer)
  PROVE  /\ pc' = [pc EXCEPT ![p] = "idle"]
         /\ left' \in [Probes -> 0..overallTimeout]
         /\ resp' \in [Probes -> {"none", "ready", "unavailable", "draining"}]
BY TimesArePositive DEF TypeOK, Answer, overallTimeout

LEMMA EnterKeepsInv ==
  ASSUME Inv, NEW p \in Probes, Enter(p) \/ ReadCache(p) \/ CachedMeanwhile(p)
  PROVE  Inv'
<1>1. \A report : Verdict(report) \in {"ready", "unavailable", "draining"}
  BY DEF Verdict
<1>2. CASE Enter(p)
  <2>1. CASE draining
    BY <1>2, <2>1, AnswerEffect, OutsideBatchKeepsInv DEF Enter, Inv
  <2>2. CASE ~draining
    <3>1. /\ left' \in [Probes -> 0..overallTimeout]
          /\ resp' \in [Probes -> {"none", "ready", "unavailable", "draining"}]
      BY <1>2, <2>2, TimesArePositive DEF Enter, Inv, TypeOK, overallTimeout
    <3> QED
      BY <1>2, <2>2, <3>1, OutsideBatchKeepsInv DEF Enter
  <2> QED
    BY <2>1, <2>2
<1>3. CASE ReadCache(p)
  <2>1. CASE Fresh
    BY <1>1, <1>3, <2>1, AnswerEffect, OutsideBatchKeepsInv DEF ReadCache, Inv
  <2>2. CASE ~Fresh
    BY <1>3, <2>2, OutsideBatchKeepsInv DEF ReadCache, Inv, TypeOK
  <2> QED
    BY <2>1, <2>2
<1>4. CASE CachedMeanwhile(p)
  BY <1>1, <1>4, AnswerEffect, OutsideBatchKeepsInv DEF CachedMeanwhile, Inv
<1> QED
  BY <1>2, <1>3, <1>4

\* Nothing of an earlier batch is left in the channel of the next.
LEMMA NoResultsOutsideBatch ==
  ASSUME TypeOK, BatchAccounted, NEW p \in Probes, pc[p] # "collect"
  PROVE  results[p] = {}
<1> SUFFICES ASSUME NEW r \in results[p] PROVE FALSE
  OBVIOUS
<1>1. PICK d \in Deps, b \in BOOLEAN : r = <<d, b>>
  BY DEF TypeOK
<1>2. pending[p] = {} /\ (<<d, TRUE>> \in results[p] => d \in pending[p])
                     /\ (<<d, FALSE>> \in results[p] => d \in pending[p])
  BY DEF BatchAccounted
<1>3. CASE b = TRUE
  BY <1>1, <1>2, <1>3
<1>4. CASE b = FALSE
  BY <1>1, <1>2, <1>4
<1> QED
  BY <1>3, <1>4

LEMMA StartBatchKeepsInv ==
  ASSUME Inv, NEW p \in Probes, StartBatch(p)
  PROVE  Inv'
<1> USE CapIsPositive, NobodyIsNoProbe DEF StartBatch, Launch, Inv
<1>1. TypeOK'
  BY DEF TypeOK, env
<1>2. results[p] = {}
  BY NoResultsOutsideBatch
<1>3. BatchAccounted'
  BY <1>2 DEF TypeOK, BatchAccounted
<1>4. SeenUp'
  BY <1>2 DEF TypeOK, SeenUp, env
<1>5. AgesAgree'
  BY DEF TypeOK, AgesAgree, env
<1> QED
  BY <1>1, <1>3, <1>4, <1>5

\* The result of a checker that was still working is its only one.
LEMMA ResultIsAccounted ==
  ASSUME TypeOK, BatchAccounted, NEW p \in Probes, NEW d \in Deps, NEW ok \in BOOLEAN,
         d \in working[p], working' = [working EXCEPT ![p] = @ \ {d}],
         results' = [results EXCEPT ![p] = @ \cup {<<d, ok>>}], UNCHANGED <<pc, pending>>
  PROVE  BatchAccounted'
<1>1. /\ results \in [Probes -> SUBSET (Deps \X BOOLEAN)]
      /\ working \in [Probes -> SUBSET Deps]
  BY DEF TypeOK
<1>2. /\ d \in pending[p] /\ <<d, TRUE>> \notin results[p] /\ <<d, FALSE>> \notin results[p]
  BY DEF BatchAccounted
<1>3. ASSUME NEW q \in Probes
      PROVE  /\ pc[q] # "collect" => pending[q] = {}
             /\ working[q] \subseteq pending[q]
             /\ \A e \in Deps :
                  /\ <<e, TRUE>> \in results[q] =>
                       e \in pending[q] /\ e \notin working[q] /\ <<e, FALSE>> \notin results[q]
                  /\ <<e, FALSE>> \in results[q] =>
                       e \in pending[q] /\ e \notin working[q] /\ <<e, TRUE>> \notin results[q]
  BY DEF BatchAccounted
<1>4. ASSUME NEW q \in Probes
      PROVE  /\ pc'[q] # "collect" => pending'[q] = {}
             /\ working'[q] \subseteq pending'[q]
             /\ \A e \in Deps :
                  /\ <<e, TRUE>> \in results'[q] =>
                       e \in pending'[q] /\ e \notin working'[q] /\ <<e, FALSE>> \notin results'[q]
                  /\ <<e, FALSE>> \in results'[q] =>
                       e \in pending'[q] /\ e \notin working'[q] /\ <<e, TRUE>> \notin results'[q]
  <2>1. CASE q # p
    <3>1. results'[q] = results[q] /\ working'[q] = working[q]
      BY <1>1, <2>1
    <3> QED
      BY <1>3, <3>1
  <2>2. CASE q = p
    <3>1. results'[p] = results[p] \cup {<<d, ok>>} /\ working'[p] = working[p] \ {d}
      BY <1>1
    <3>2. \A e \in Deps, b \in BOOLEAN :
            <<e, b>> \in results'[p] <=> <<e, b>> \in results[p] \/ (e = d /\ b = ok)
      BY <3>1
    <3>3. ASSUME NEW e \in Deps, e # d
          PROVE  /\ <<e, TRUE>> \in results'[p] =>
                      e \in pending[p] /\ e \notin working'[p] /\ <<e, FALSE>> \notin results'[p]
                 /\ <<e, FALSE>> \in results'[p] =>
                      e \in pending[p] /\ e \notin working'[p] /\ <<e, TRUE>> \notin results'[p]
      BY <1>3, <3>1, <3>2, <3>3
    <3>4. /\ <<d, TRUE>> \in results'[p] => d \notin working'[p] /\ <<d, FALSE>> \notin results'[p]
          /\ <<d, FALSE>> \in results'[p] => d \notin working'[p] /\ <<d, TRUE>> \notin results'[p]
      BY <1>2, <3>1, <3>2
    <3> QED
      BY <1>2, <1>3, <2>2, <3>1, <3>3, <3>4
  <2> QED
    BY <2>1, <2>2
<1> QED
  BY <1>4 DEF BatchAccounted

LEMMA CheckerReturnsKeepsInv ==
  ASSUME Inv, NEW p \in Probes, NEW d \in Deps, CheckerReturns(p, d)
  PROVE  Inv'
<1>1. PICK ok \in BOOLEAN :
        /\ IF ok THEN d \in up ELSE d \notin up \/ OutOfTime(p)
        /\ results' = [results EXCEPT ![p] = @ \cup {<<d, ok>>}]
  BY DEF CheckerReturns
<1>2. /\ d \in working[p] /\ working' = [working EXCEPT ![p] = @ \ {d}]
      /\ UNCHANGED <<env, draining, cached, cacheAge, probeMu, pc, left, ran, pending, down, resp,
                     sinceBatch>>
  BY DEF CheckerReturns
<1>3. TypeOK'
  BY <1>1, <1>2 DEF Inv, TypeOK, env
<1>4. CASE ok = TRUE
  <2>1. downFor[d] = 0 /\ d \in up
    BY <1>1, <1>4 DEF Inv, AgesAgree
  <2>2. BatchAccounted'
    BY <1>1, <1>2, <1>4, ResultIsAccounted DEF Inv
  <2>3. SeenUp'
    <3>1. \A q \in Probes : 0 <= ran[q]
      BY CapIsPositive DEF Inv, TypeOK, Ages
    <3> QED
      BY <1>1, <1>2, <1>4, <2>1, <3>1 DEF Inv, TypeOK, SeenUp, env
  <2> QED
    BY <1>2, <1>3, <2>2, <2>3 DEF Inv, AgesAgree, env
<1>5. CASE ok = FALSE
  <2>1. BatchAccounted'
    BY <1>1, <1>2, <1>5, ResultIsAccounted DEF Inv
  <2>2. SeenUp'
    BY <1>1, <1>2, <1>5 DEF Inv, TypeOK, SeenUp, env
  <2> QED
    BY <1>2, <1>3, <2>1, <2>2 DEF Inv, AgesAgree, env
<1> QED
  BY <1>4, <1>5

\* A result taken from the channel settles its dependency.
LEMMA CollectKeepsInv ==
  ASSUME Inv, NEW p \in Probes, Collect(p)
  PROVE  Inv'
<1>1. PICK r \in results[p] :
        /\ results' = [results EXCEPT ![p] = @ \ {r}]
        /\ pending' = [pending EXCEPT ![p] = @ \ {r[1]}]
        /\ down' = IF r[2] THEN down ELSE [down EXCEPT ![p] = @ \cup {r[1]}]
        /\ UNCHANGED <<env, draining, cached, cacheAge, probeMu, pc, left, ran, working, resp,
                       sinceBatch>>
  BY DEF Collect
<1>2. PICK d \in Deps, ok \in BOOLEAN : r = <<d, ok>>
  BY DEF Inv, TypeOK
<1>3. AgesAgree'
  BY <1>1 DEF Inv, AgesAgree, env
<1>4. CASE ok = TRUE
  <2>1. /\ <<d, TRUE>> \in results[p]
        /\ results' = [results EXCEPT ![p] = @ \ {<<d, TRUE>>}]
        /\ pending' = [pending EXCEPT ![p] = @ \ {d}]
        /\ UNCHANGED down
        /\ UNCHANGED <<up, downFor, draining, cached, cacheAge, probeMu, pc, left, ran, working,
                       resp, sinceBatch>>
    BY <1>1, <1>2, <1>4 DEF env
  <2>2. TypeOK'
    BY <2>1 DEF Inv, TypeOK
  <2>3. BatchAccounted'
    BY <2>1 DEF Inv, TypeOK, BatchAccounted
  <2>4. SeenUp'
    BY <2>1 DEF Inv, TypeOK, SeenUp
  <2> QED
    BY <1>3, <2>2, <2>3, <2>4 DEF Inv
<1>5. CASE ok = FALSE
  <2>1. /\ <<d, FALSE>> \in results[p]
        /\ results' = [results EXCEPT ![p] = @ \ {<<d, FALSE>>}]
        /\ pending' = [pending EXCEPT ![p] = @ \ {d}]
        /\ down' = [down EXCEPT ![p] = @ \cup {d}]
        /\ UNCHANGED <<up, downFor, draining, cached, cacheAge, probeMu, pc, left, ran, working,
                       resp, sinceBatch>>
    BY <1>1, <1>2, <1>5 DEF env
  <2>2. TypeOK'
    BY <2>1 DEF Inv, TypeOK
  <2>3. BatchAccounted'
    BY <2>1 DEF Inv, TypeOK, BatchAccounted
  <2>4. SeenUp'
    BY <2>1 DEF Inv, TypeOK, SeenUp
  <2> QED
    BY <1>3, <2>2, <2>3, <2>4 DEF Inv
<1> QED
  BY <1>4, <1>5

LEMMA GiveUpKeepsInv ==
  ASSUME Inv, NEW p \in Probes, GiveUp(p)
  PROVE  Inv'
<1> USE DEF GiveUp, Inv, env
<1>1. TypeOK'
  BY DEF TypeOK
<1>2. BatchAccounted'
  BY DEF TypeOK, BatchAccounted
<1>3. SeenUp'
  BY DEF TypeOK, SeenUp
<1>4. AgesAgree'
  BY DEF AgesAgree
<1> QED
  BY <1>1, <1>2, <1>3, <1>4

LEMMA FinishKeepsInv ==
  ASSUME Inv, NEW p \in Probes, Finish(p)
  PROVE  Inv'
<1> USE DEF Finish, Inv, env
<1>1. /\ pc' = [pc EXCEPT ![p] = "idle"]
      /\ left' \in [Probes -> 0..overallTimeout]
      /\ resp' \in [Probes -> {"none", "ready", "unavailable", "draining"}]
  BY AnswerEffect DEF Verdict
<1>2. TypeOK'
  BY <1>1, CapIsPositive, NobodyIsNoProbe DEF TypeOK
<1>3. BatchAccounted'
  BY <1>1 DEF TypeOK, BatchAccounted
<1>4. SeenUp'
  BY <1>1 DEF TypeOK, SeenUp
<1>5. AgesAgree'
  BY <1>1 DEF TypeOK, SeenUp, AgesAgree
<1> QED
  BY <1>2, <1>3, <1>4, <1>5

LEMMA FlipKeepsInv ==
  ASSUME Inv, NEW d \in Deps, Flip(d)
  PROVE  Inv'
<1> USE CapIsPositive DEF Flip, Inv, batch
<1>1. TypeOK'
  BY DEF TypeOK
<1>2. \A c \in Deps : downFor'[c] = downFor[c] \/ downFor'[c] = 0
  BY DEF TypeOK
<1>3. BatchAccounted'
  BY DEF BatchAccounted
<1>4. SeenUp'
  <2>1. \A q \in Probes : 0 <= ran[q]
    BY DEF TypeOK, Ages
  <2> QED
    BY <1>2, <2>1 DEF SeenUp
<1>5. AgesAgree'
  BY <1>2 DEF TypeOK, AgesAgree, Ages
<1> QED
  BY <1>1, <1>3, <1>4, <1>5

LEMMA InvNext == Inv /\ [Next]_vars => Inv'
<1> SUFFICES ASSUME Inv, [Next]_vars PROVE Inv'
  OBVIOUS
<1>1. CASE Tick
  BY <1>1, TickKeepsInv
<1>2. CASE StartDraining
  BY <1>2 DEF StartDraining, Inv, TypeOK, BatchAccounted, SeenUp, AgesAgree, env, batch
<1>3. ASSUME NEW d \in Deps, Flip(d) PROVE Inv'
  BY <1>3, FlipKeepsInv
<1>4. ASSUME NEW p \in Probes, Enter(p) \/ ReadCache(p) \/ CachedMeanwhile(p) PROVE Inv'
  BY <1>4, EnterKeepsInv
<1>5. ASSUME NEW p \in Probes, StartBatch(p) PROVE Inv'
  BY <1>5, StartBatchKeepsInv
<1>6. ASSUME NEW p \in Probes, NEW d \in Deps, CheckerReturns(p, d) PROVE Inv'
  BY <1>6, CheckerReturnsKeepsInv
<1>7. ASSUME NEW p \in Probes, Collect(p) PROVE Inv'
  BY <1>7, CollectKeepsInv
<1>8. ASSUME NEW p \in Probes, GiveUp(p) PROVE Inv'
  BY <1>8, GiveUpKeepsInv
<1>9. ASSUME NEW p \in Probes, Finish(p) PROVE Inv'
  BY <1>9, FinishKeepsInv
<1>10. CASE UNCHANGED vars
  BY <1>10 DEF vars, batch, Inv, TypeOK, BatchAccounted, SeenUp, AgesAgree
<1> QED
  BY <1>1, <1>2, <1>3, <1>4, <1>5, <1>6, <1>7, <1>8, <1>9, <1>10 DEF Next, Queued, Proceed

LEMMA InvHolds == Spec => []Inv
BY InvInit, InvNext, PTL DEF Spec

-----------------------------------------------------------------------------
\* The type invariant of Health; in particular the one probe that runs a batch
\* is the one that holds probeMu.
THEOREM TypeCorrect == Spec => []TypeOK
<1>1. Inv => TypeOK
  BY DEF Inv
<1> QED
  BY <1>1, InvHolds, PTL

\* Batches start at least a TTL apart, for any number of probes: whoever finds
\* the cache stale under probeMu knows that the last batch is as old as it.
THEOREM BatchesStayApart == Spec => BatchesApart
<1>1. Inv => \A p \in Probes : StartBatch(p) => sinceBatch >= TTL
  BY CapIsPositive, TimesArePositive DEF Inv, TypeOK, AgesAgree, StartBatch, Fresh, Ages
<1> QED
  BY <1>1, InvHolds, PTL DEF Spec, BatchesApart

\* What a ready answer promises, as a predicate of the step.
ReadyStep ==
  \A p \in Probes :
    /\ ReadyFromCache(p) => \A d \in Deps : downFor[d] < TTL
    /\ ReadyFromBatch(p) => \A d \in Deps : downFor[d] <= ran[p]

LEMMA ReadyStepHolds == Inv /\ [Next]_vars => ReadyStep
<1> SUFFICES ASSUME Inv, [Next]_vars, NEW p \in Probes, pc'[p] = "idle", resp'[p] = "ready",
                    pc[p] # "idle", NEW d \in Deps
             PROVE  /\ pc[p] \in {"entered", "queued"} => downFor[d] < TTL
                    /\ pc[p] = "collect" => downFor[d] <= ran[p]
  BY DEF ReadyStep, ReadyFromCache, ReadyFromBatch
<1>1. pc \in [Probes -> {"idle", "entered", "queued", "collect"}]
  BY DEF Inv, TypeOK
<1>2. ReadCache(p) \/ CachedMeanwhile(p) \/ Finish(p)
  BY <1>1 DEF Next, vars, Tick, StartDraining, Flip, Enter, Queued, Proceed, ReadCache,
              CachedMeanwhile, StartBatch, Launch, CheckerReturns, Collect, GiveUp, Finish, Answer
<1>3. resp \in [Probes -> {"none", "ready", "unavailable", "draining"}]
  BY DEF Inv, TypeOK
<1>4. CASE ReadCache(p) \/ CachedMeanwhile(p)
  <2>1. pc[p] \in {"entered", "queued"} /\ Fresh /\ Verdict(cached) = "ready"
    BY <1>1, <1>3, <1>4 DEF ReadCache, CachedMeanwhile, Answer
  <2>2. cached = {} /\ cacheAge < TTL
    BY <2>1 DEF Verdict, Fresh
  <2>3. downFor[d] <= cacheAge /\ downFor[d] \in Ages /\ cacheAge \in Ages
    BY <2>2 DEF Inv, TypeOK, AgesAgree
  <2> QED
    BY <2>1, <2>2, <2>3, CapIsPositive, TimesArePositive DEF Ages
<1>5. CASE Finish(p)
  <2>1. pc[p] = "collect" /\ pending[p] = {} /\ Verdict(down[p]) = "ready"
    BY <1>3, <1>5 DEF Finish, Answer
  <2> QED
    BY <2>1 DEF Verdict, Inv, SeenUp
<1> QED
  BY <1>2, <1>4, <1>5

\* No ready answer, from the cache or from a batch, however slow, hides a
\* dependency that had been down for the TTL, or for the whole batch.
THEOREM ReadyAnswersAreRecent == Spec => ReadyIsRecent
<1>1. Inv /\ [Next]_vars => [ReadyStep]_vars
  BY ReadyStepHolds
<1> QED
  BY <1>1, InvHolds, PTL DEF Spec, ReadyIsRecent, ReadyStep

-----------------------------------------------------------------------------
\* What a step does to a probe that is inside Check.
WindsDown(p) ==
  /\ \/ pc'[p] = pc[p] \/ pc'[p] = "idle"
     \/ pc[p] = "entered" /\ pc'[p] = "queued"
     \/ pc[p] = "queued" /\ pc'[p] = "collect"
  /\ \/ left'[p] = left[p] \/ left'[p] = 0
     \/ left[p] > 0 /\ left'[p] = left[p] - 1
  /\ pc[p] = "collect" => pending'[p] \subseteq pending[p]

LEMMA ProbeSteps ==
  ASSUME Inv, [Next]_vars, NEW p \in Probes, pc[p] # "idle"
  PROVE  /\ Stage[pc'[p]] <= Stage[pc[p]] /\ left'[p] <= left[p]
         /\ pc[p] = "collect" => pending'[p] \subseteq pending[p]
<1>1. /\ pc \in [Probes -> {"idle", "entered", "queued", "collect"}]
      /\ pending \in [Probes -> SUBSET Deps]
  BY DEF Inv, TypeOK
<1>2. left \in [Probes -> Nat] /\ left[p] \in Nat
  BY TimesArePositive DEF Inv, TypeOK, overallTimeout
<1>3. Stage["entered"] = 3 /\ Stage["queued"] = 2 /\ Stage["collect"] = 1 /\ Stage["idle"] = 0
  BY DEF Stage
<1>4. WindsDown(p)
  <2> USE <1>1, <1>2 DEF WindsDown
  <2>1. CASE Tick
    BY <2>1 DEF Tick, batch
  <2>2. CASE StartDraining \/ \E d \in Deps : Flip(d)
    BY <2>2 DEF StartDraining, Flip, batch
  <2>3. ASSUME NEW q \in Probes, Enter(q) PROVE WindsDown(p)
    <3>1. q # p
      BY <2>3 DEF Enter
    <3>2. pc'[p] = pc[p] /\ left'[p] = left[p]
      BY <2>3, <3>1 DEF Enter, Answer
    <3> QED
      BY <2>3, <3>2 DEF Enter, batch
  <2>4. ASSUME NEW q \in Probes, ReadCache(q) \/ CachedMeanwhile(q) PROVE WindsDown(p)
    BY <2>4 DEF ReadCache, CachedMeanwhile, Answer, batch
  <2>5. ASSUME NEW q \in Probes, StartBatch(q) PROVE WindsDown(p)
    BY <2>5 DEF StartBatch, Launch, batch
  <2>6. ASSUME NEW q \in Probes, NEW d \in Deps, CheckerReturns(q, d) PROVE WindsDown(p)
    BY <2>6 DEF CheckerReturns
  <2>7. ASSUME NEW q \in Probes, Collect(q) \/ GiveUp(q) PROVE WindsDown(p)
    BY <2>7 DEF Collect, GiveUp
  <2>8. ASSUME NEW q \in Probes, Finish(q) PROVE WindsDown(p)
    BY <2>8 DEF Finish, Answer
  <2>9. CASE UNCHANGED vars
    BY <2>9 DEF vars, batch
  <2> QED
    BY <2>1, <2>2, <2>3, <2>4, <2>5, <2>6, <2>7, <2>8, <2>9 DEF Next, Queued, Proceed
<1>5. Stage[pc'[p]] <= Stage[pc[p]]
  BY <1>1, <1>3, <1>4 DEF WindsDown
<1>6. left'[p] <= left[p]
  BY <1>2, <1>4 DEF WindsDown
<1> QED
  BY <1>4, <1>5, <1>6 DEF WindsDown

LEMMA DrainingStays ==
  ASSUME Inv, [Next]_vars, draining
  PROVE  draining' /\ Inside' \subseteq Inside
<1>1. pc \in [Probes -> {"idle", "entered", "queued", "collect"}]
  BY DEF Inv, TypeOK
<1>2. draining'
  BY DEF Next, vars, Tick, StartDraining, Flip, Enter, Queued, Proceed, ReadCache,
         CachedMeanwhile, StartBatch, Launch, CheckerReturns, Collect, GiveUp, Finish
<1>3. ASSUME NEW p \in Probes, pc[p] = "idle" PROVE pc'[p] = "idle"
  BY <1>1, <1>3 DEF Next, vars, Tick, StartDraining, Flip, Enter, Queued, Proceed, ReadCache,
    CachedMeanwhile, StartBatch, Launch, CheckerReturns, Collect, GiveUp, Finish, Answer
<1> QED
  BY <1>2, <1>3 DEF Inside

\* What EveryProbeAnswered and DrainTakesEffect rest on, besides fairness: for
\* any probes, queues and hanging checkers a probe inside Check never goes back
\* and its deadline never moves, and after StartDraining nobody comes in.
THEOREM ProbesOnlyWindDown == Spec => ProbesWindDown
<1>1. Inv /\ [Next]_vars => [WindDownStep]_vars
  BY ProbeSteps, DrainingStays DEF WindDownStep, Inside
<1> QED
  BY <1>1, InvHolds, PTL DEF Spec, ProbesWindDown
=============================================================================
