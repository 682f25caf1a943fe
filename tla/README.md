# TLA+ models and proofs of the gin project template

This directory models the concurrent and failure-prone parts of the server in
this repository: the order and account write paths, the readiness probe, the
process lifecycle, the rotating log writer, the rate limiter, the handler chain
that every request passes, transactions and their nesting, and the way from the
configuration to a migrated database. TLC checks the models on small instances;
TLAPS proves every safety property that the passing runs check, two refinements
among them, for all values of the constants, and for the liveness properties what
they rest on besides fairness.
Paths below are relative to `src/`.

    tlc -workers 2 -config MCOrders.cfg MCOrders     # one run, from this directory
    tlapm OrdersProofs.tla                           # the proofs of a component

`PROJECT.json` is the index: components, runs, the source lines behind every
definition (`map`), a broken variant per property that must make it fail
(`mutants`), `findings`, `hazards` and `theorems`. The broken variants stand in
the modules, each right before the definition it breaks, with a comment that
starts with "Broken:"; no specification uses them.

## 1. The system

A Go HTTP service: gin router, middleware chain, controllers, services, data
layer on GORM and MySQL, optional Redis. Every request is a goroutine. The
shared state is the database, a few process-wide singletons with a mutex each
(health registry, rate limiter, log writer) and the lifecycle of the process.

| Component | State it keeps | Operations | What makes it correct | Module |
|---|---|---|---|---|
| Order write path (`internal/{controller,service,data,model}/order.go`) | tables `orders`, `order_status_logs`, row locks | create with retry, change status in a transaction, delete | status and log agree, one winner, owners only, one order per create, no lock left | `OrderModel`, `OrderLedger`, `Orders`, `OrdersProofs` |
| Accounts (`.../user.go`) | table `users` | register, log in, update profile | unique names and emails, disabled stays disabled | `Users`, `UsersProofs` |
| Readiness (`pkg/health`, `controller/system.go`) | cached report, probe mutex, draining flag, running batch | `Check`, `StartDraining`, checker goroutines | one batch per TTL, no stale "ready", every probe answered | `Health`, `HealthProofs` |
| Lifecycle (`cmd/server`, `internal/bootstrap`, `pkg/admin`) | both pools, both servers, signal handling | init, run, drain, shut down, close, forced exit | every pool in its hands closed on every path, clean exit is true, nobody refused | `Lifecycle`, `Process`, `ProcessProofs` |
| Log writer (`pkg/logger/rotate.go`) | open file, its hour, the directory | `Write`, rotate, clean up, `Close` | active file kept, removal for cause only, lines in their hour unless the rotation failed | `RotateWriter`, `RotateWriterProofs` |
| Rate limiter (`internal/middleware/ratelimit.go`) | one bucket per client, time of the last sweep | `allow`, sweep | no client with a bucket gets more, or is refused more, than an ideal one says; without a bucket only when all are taken | `RateLimit`, `RateLimitProofs` |
| Transactions (`pkg/transaction`, `internal/resource`) | root connection, its pool, the handle in the context | `Do`, nested `Do`, `TxFrom`, `resource.DB` | all or nothing, an inner failure takes back its own writes only (as long as its context lives), a handle dies with its closure, every connection comes back | `NestedTx`, `Transaction`, `TransactionProofs` |
| HTTP pipeline (`internal/router`, `internal/middleware`, `pkg/response`, `pkg/metrics`) | chain index and stack of each request, its response and body, gauge and counters | middlewares in and out, panic and recovery, refusal | metrics and log tell what was sent, one response, nothing runs after a refusal, bodies whole | `Pipeline`, `PipelineProofs` |
| Configuration (`internal/config`) | the files, the `APP_` variables, the loaded configuration | `Load`, `Validate` | every key has the value of its first source, production runs under its rules or not at all | `Config`, `Process`, `ProcessProofs` |
| Schema migration (`cmd/migrate`) | the tables of each database | the command, with and without `-drop` | tables are lost only where named, a completed run leaves all of them | `Migrate`, `Process`, `ProcessProofs` |
| Connections (`pkg/database`, `pkg/cache`) | a pool, opened at start | open, ping, close | closed on every path once the ping succeeded | as seen from `Lifecycle`, `Migrate` and `Transaction` |
| JWT and bcrypt, paging | none | | | not modelled, see section 6 |

How they interact. A request passes the rate limiter and `Auth`, gets a deadline
from `Timeout`, and runs one of the write paths, whose statements share the
database with every other request. The load balancer calls `/readyz`, which is
the registry; `bootstrap` marks the registry as draining and then shuts the
servers down while requests are in flight. Every component writes log lines
through the one writer.

What is hard. Reads made outside a transaction and relied on later (owner,
status, row copies); statements that fail half way, replies that are lost and
deadlines that expire inside a transaction; checkers that never return; two
shutdowns on one context; second signals; clocks read before a lock is taken or
read several times in one call; contexts of closures that are kept after the
transaction ended; five sources for one key; migrations that fail half way. `PROJECT.json` lists 39 such hazards, each at
its line, with the property that guards it or the reason why none does.

## 2. Modules and how they correspond to the code

### Orders

`OrderModel` holds the rows and the status graph (`isValidStatusTransition`);
`Orders` the three handlers; `OrderLedger` what a reader of the two tables is
promised; `OrdersProofs` the proofs.

A *handler* is a request goroutine that serves one request at a time. Each
action is one SQL statement, the unit at which the server interleaves requests:

| Code | Actions |
|---|---|
| `CreateOrder`: up to three times, number and INSERT | `ArriveCreate`, `Generate`, `InsertOk`, `InsertDuplicate`, `InsertExhausted` |
| `getOwnedOrder` and the status check on the row it read | `RejectForeign`, `RejectStatus`, `Accept` |
| `UpdateOrderStatus` inside `transaction.Do` | `ChangeStatus` (BEGIN and the conditional UPDATE), `AppendLog`, `Commit`, `Rollback` |
| `DELETE ... WHERE id = ?` | `DeleteRow` |
| failed statements, expired deadlines, lost replies, deaths | `Fail`, `FailInTx`, reply `"error"` of a committing step, `Die` |

`orders` and `logs` are the committed tables. The writes of an open transaction
are in `staged` and its row lock in `lock` until `Commit` or `Rollback`. BEGIN is
part of the UPDATE's step: nothing can tell the two apart. `Die` kills handlers
one by one, which includes the death of all of them. An abandoned statement is
taken to be resolved by the server before its error is answered. Amounts,
remarks and timestamps decide nothing and are left out, and so are the read-only
GET and list. AUTO_INCREMENT never issues a key twice (MySQL 8 persists it).
Gap locks are left out: they could only delay what the model lets through.

### Users

One statement per step, no transaction, as in the code. `CheckName`,
`CheckEmail` and `InsertUser` are separate, so that two registrations race past
the checks; `row` is `UpdateUser`'s copy with the requested fields already set;
`Conflict` and `EmailConflict` are the unique indexes. `phone` stands for avatar
too. `Toggle` is an operator working in the database: the code has no operation
that changes an account's status, only one that reads it.

### Health

A *probe* is a request goroutine inside `Registry.Check`. `Enter` is the check of
the draining flag and the start of `probeCtx`; `ReadCache`, `CachedMeanwhile` and
`StartBatch` are the double-checked cache around `probeMu`; `CheckerReturns`,
`Collect`, `GiveUp` and `Finish` the batch. A checker in `Hangs` may never return.
Time is relative (what is left of a deadline, ages that saturate where no
comparison tells longer ones apart), so no bound on the clock is needed.
The goroutine of a checker that was given up runs on unseen and is not counted.

### Lifecycle

`pc` is `main`, from `bootstrap.Init` through `Run` to the deferred `Close`; the
goroutines of `ListenAndServe` and of the second signal are `Listen`,
`ForcedClose` and `ForcedExit`. `handler` says what a signal does at that moment:
between `stop()` and the second `signal.Notify` it kills the process. `Send` is a
client behind the load balancer; a request may last for ever, on either server
(`Admin`).

A probe of the load balancer has two steps. `Probe` is its start and the check of
the draining flag, which answers at once when draining; `Answer` is the end of the
checks, in 200 or 503, up to `ProbeTime` later and whatever the flag is by then. In
the code that is about two checker timeouts (`overallTimeout`). One prober is
modelled, with one probe at a time; a probe under way keeps its connection busy, so
that `Shutdown` waits for it as for a request. What the checks find is either
answer here and the subject of `Health`.

`InitDatabase` and `InitRedis` are `NewMySQL` and `NewRedis`. Both return the error
of a failed ping with the pool, or the client, open, and `app.DB` and `app.Redis`
stay nil: the pool is then `"orphaned"` and nothing closes it before the process
ends. gorm has mostly no pool left when `gorm.Open` itself fails (`"none"`).

### RotateWriter

One call of `Write` at a time, as under `w.mu`, but in steps, since the clock
(`Clock`, in both directions) moves between the up to three times one call reads
it. `Rotate` and `RotateFails`, `Glob` and `Clean` (one turn of the loop per
step) are `rotateLocked` and `cleanupLocked`. Any open, write, stat or removal may
fail (`failed` says which did in this call; a file whose age cannot be read is
kept), and the process may die at any step and start again (`Die`, `Start`).

### RateLimit

`now[c]` is the clock reading a caller made before it queued for the mutex, as an
age; `Overflow`, `FirstSeen` and `Seen` are the three ways through `allow`, each
with the sweep it may trigger. `credit` is not in the code: it is an ideal bucket
that is never dropped and is charged whenever `allow` charges the client's own.
`Overflow` charges neither: with `maxBuckets` buckets in use the code lets a new
client through without any limit, which its comment says it intends. The limit is
therefore stated for clients with a bucket, and of the others `AdmitsNoMore` says
that they are let through only while every bucket is taken.

### Pipeline

`Chain` is the route's chain as `Setup` builds it; `index` and `frames` are gin's
index into it and the Go stack of the middlewares that called `c.Next`. Each
middleware has an action for the way in; `Return` and `Unwind` take one frame off
the stack, in the ordinary way or in a panic, and `Epilogue` is what the frame
does then: `Metrics` and `Logger` have one, deferred, and `Recover` is the defer
of `Recovery`. `reply` is the response writer: the status it would send, the one
it has sent, and how many JSON documents were written. A body is three numbers:
the bytes the access log put back in front of it, those left on the connection
and what `http.MaxBytesReader` still lets through. A JSON body is one value, so
that binding it reads all of it.

Both limiters, the token check and the CORS origin check answer either way, and
a handler answers with any status its route can give, fails to bind, or panics
before or after its answer: what decides between these is in the other modules
or in libraries. `FromStatus` gives business errors the statuses their table has
(400, 401, 403, 404, 409, 500). An OPTIONS request from an allowed origin is
answered 204 by the CORS middleware on any path, one without routes included. A request whose client has gone is counted with status 200 when
its handler panicked with a broken pipe before it answered; the model agrees, and
`TellsWhatWasSent` calls that the status that was sent.
Unmatched requests for a path the access log skips (`/metrics`, `/favicon.ico`, a
POST to a probe) are left out: they are answered like the others, unlogged.

### NestedTx and Transaction

`NestedTx` is what the comment of `Do` promises, with tables and levels only: an
outermost `Do` publishes in one step, an inner one that fails takes back what was
written since it began. That promise is `Spec`, and the code breaks it in one way:
under a context of its own that has ended, an inner `Do` cannot send ROLLBACK TO.
`StrandingSpec` is the promise with that one exception, `Strand`, written out; the
code is shown to break the first and to implement the second. When the outermost
context has ended too, nothing will be published, and `Undo` may leave the rows
where they are. `Transaction` is the code: `Begin` and `Nest` are `Do` on
its way in (a connection from the pool and BEGIN, or the handle found in the
context and a savepoint), `Return` the end of the closure with the deferred
`handle.done`, and `Keep`, `RollbackTo`, `Commit` and `Rollback` what gorm does
then. `log[h]` are the uncommitted writes on the connection, in order; `frames[h]`
says where in it each open `Do` began, so the savepoint of the inner `Do` is its
last element. `alive[h]` counts the live contexts from the outermost: an inner
one may have a tighter deadline and end first. `Lose` is a broken connection, or
the rollback that `database/sql` issues itself when a context ends.

`Escape`, `Lookup` and `Execute` are a goroutine that keeps the closure's context
against the comment of `Do`: the lookup (`resource.DB`, `TxFrom`) and the
statement are two steps, so the transaction may end between them. A statement
that was looked up in time and executed too late gets `ErrTxDone`; one looked up
late runs on the root connection. `late` is set by the end of the closure and not
read off the handle's `done`, so that a flag that is set too late, or never, shows
in `LateStatementsStandAlone`.

Nesting is bounded to two levels. gorm names a savepoint after the code address
of the closure it runs, which for `Do` is always `run`'s, so a third level would
set the same savepoint again and the promise would not hold of it; nothing in the
repository nests that deep. The behaviour of gorm and `database/sql` is taken
from how `Do` relies on it and is marked external in `map`.

### Config and Migrate

`CheckEnv`, `ReadConfig`, `MergeEnv`, `MergeLocal`, `Unmarshal` and `Validate` are
`Load` step by step, each of which may end in "refused". `Values` has one key for
each way the code declares and checks a key: with a default or only known through
`envOnlyKeys`, an enumeration, a positive number, and each key with a rule for
production; a value stands for those the checks do not tell apart (`"short"` is a
secret below the length that production asks for). `Value` is viper's order: a
bound `APP_` variable that is not empty, then the files, then the default. A file
may set keys the program does not know; they are merged and never decoded.

`Migrate` runs on from "loaded": `Guard` is the check of `-drop`, `Connect`,
`DropTable` and `AutoMigrate` may each fail, and `End` is the end or the kill of
the process at any of them. Tables survive it and the next process starts from
them. The server is started through the same `Load`; what it does then is `Lifecycle`.

### Process

`Process` puts the three together, as `run` of `cmd/server/main.go` does:
`ProcessNext` is a step of `MigrateNext`, or one of `Lifecycle` while the process is
a server whose configuration is loaded (`Serving`, `Serves`). Since `bootstrap`
asks the configuration only for what `Lifecycle` has as constants, every server's
life is the same, and the model follows it for one start, given by the constants
`Directory` and `Startup`; other servers just end. Without that bound the two state
spaces multiply and nothing is gained.

## 3. What the runs check

| Run | Shows | Bounds |
|---|---|---|
| `orders` | status and log stay one and the log is a walk of the status graph (`LogTellsStatus`), one of two racing updates wins (`OneWinner`), a create that retries places one order, lost replies included (`PlacesAtMostOnce`), nobody waits for a row lock whose holder waits, and no path leaves a lock behind to wait for (`LocksDoNotChain`), only owners write although the check is earlier and unlocked (`OnlyOwnerActs`), the tables follow `OrderLedger` (`ImplementsLedger`) | 2 handlers, 2 users, 2 keys, 2 numbers: every pair of requests meets on one row and on one number, an insert follows a delete, and the retries are exhausted |
| `health` | one batch per TTL (`BatchesApart`), a "ready", cached or fresh, rests on observations no older than promised (`ReadyIsRecent`), `EveryProbeAnswered`, `DrainTakesEffect` | 2 probes, 1 hanging and 1 well-behaved dependency, TTL = timeout as `bootstrap.go` sets them |
| `process` | of each start `FollowsPriority`, `ProductionIsGuarded`, `MigratesWhatWasNamed`; of the server that is followed `ResourcesReleased`, `CleanExitCutsNothing`, `NobodyIsRefused`, `SignalEnds` | 2 processes, so that the second meets what a failed first left; 6 spellings, 7 directories, 9 sets of variables, 4 command lines: one complete configuration per environment and one deviation from it for each rule and each source. The server: 2 requests, 3 signals (one more than the code tells apart), drain delay 4, twice the probe interval as the repository's README.md asks, and longer than a probe takes; a probe takes 3, longer than the interval, so that one started before the drain is answered well inside it |
| `rotate` | `TrimmedByRotation`, `LineInItsHour` (unless the call's own rotation failed), `RemovedForCause` (never the active file) | 4 hours, 1 history file, age limit 2: both limits bite, and files outlive restarts |
| `users` | `IdentitiesAreUnique`, `ProfileKeepsIdentity` | 2 sessions, 2 accounts, 2 values of every field |
| `ratelimit` | `AdmitsNoMore`, `RefusesOnlyTheEmpty`, at most `MaxBuckets` buckets | 2 callers, 3 clients for 2 buckets, burst 3, stalls of 1 tick |
| `pipeline` | `TellsWhatWasSent` (counters, log and in-flight gauge), `PanicIsAnswered`, `NothingAfterTheAnswer`, `BodyWhole` | 2 requests (they share the gauge only), 5 kinds of traffic: every route, a declared body of 2 bytes and an undeclared one of 3; body limits 0 (none), 1 and 2 against the 2 bytes the log reads: the log runs into the quota, leaves the excess to the handler, or the body fits exactly; one kind of failure, the deadline, for all of `FromStatus` (they differ in the number and take the same path) |
| `transaction` | `Do` implements `NestedTx` except for `Strand` (`KeepsPromiseButStrands`), a late statement of an escaped context stands alone (`LateStatementsStandAlone`), no `Do` waits for ever (`ConnectionGranted`) | 2 handlers on 1 connection, the tightest pool; one nests and leaks, the other competes; 2 rows, so that an inner `Do` loses one and keeps one |

Each of these runs also checks the type invariant of its modules. Symmetry is used
only in runs without liveness properties.

`NobodyIsRefused` is stated for a drain delay longer than the probe interval and
longer than a probe takes (`DrainOutlastsProbes`). With one shorter than the
interval requests are refused, as the repository's README.md says; that it must
also outlast a probe is not said there. With the drain delay of the run and
`ProbeTime` 4, and the property stated for the interval alone, TLC finds the
refused request: a probe passes the flag just before the drain begins, is answered
200 when the delay is over, and puts the instance back in rotation as the listener
closes. With the shipped values (`drain_delay` 5 s, probes of 4 s at most) there is
one second to spare.
`RateLimit` assumes `IdleMeansFull`, that a bucket is full by the time it counts
as idle, even when the reading that stamped it and the one that sweeps it were
both a stall off. The code fixes `idleTTL` and takes `rps` and `burst` from the
configuration without relating them; with `rps` 1 and `burst` 5 of the shipped
configuration it holds by far.

## 4. Findings

Four runs expect a violation. Each shows the code doing what a comment in it says
it does not do.

| Run | What happens |
|---|---|
| `orders_delete` | An order that is paid between `DeleteOrder`'s status check and its DELETE by key is deleted. The update path has the `WHERE status = ?` that the delete path lacks. |
| `health_queue` | A probe's overall deadline runs while it queues for `probeMu`: the third of three probes starts its batch with almost nothing left and calls a live dependency unhealthy, for a TTL. |
| `rotate_fallback` | `rotateLocked` closes the old file before it opens the new one. When the open fails the line is dropped and `Write` reports success, and so for every line until an open succeeds; the comment on the call says that the old file is written on (`FailedRotationWritesOn`). |
| `transaction_strand` | An inner `Do` that fails after its own, tighter context has ended cannot send ROLLBACK TO. gorm drops that error, and an outer `Do` that goes on publishes the writes of the inner one; the comment of `Do` says that they are rolled back (`KeepsPromise`). |

Met while reading and modelling, without a run:

- The admin server shuts down first and on the same context: a profile being
  taken leaves nothing of `shutdown_timeout` to the requests in flight
  (`internal/bootstrap/bootstrap.go:244`).
- Three nested `Do`'s share one savepoint name, see section 2.
- A signal between `stop()` and the second `signal.Notify` kills the process
  without `Close` (`internal/bootstrap/bootstrap.go:227`). `SignalEnds` counts that
  as an end; no property forbids it.
- A start that fails at a ping leaves the pool, or the Redis client, open
  (`pkg/database/mysql.go:77`, `pkg/cache/redis.go:36`): nobody got hold of it, so
  the deferred `Close` skips it, while the comment on `Init`
  (`internal/bootstrap/bootstrap.go:46`) says that the failure path releases what
  was set up. The process ends soon after, which is what limits the harm.
  `Lifecycle` calls it `"orphaned"`, and `ResourcesReleased` does not speak of it.
- `-drop -confirm` compares the name of the database and not its host, which is
  what the example in its comment is about (`cmd/migrate/main.go:50`). The model
  compares what the code compares, so `MigratesWhatWasNamed` is silent on it.
- Outside production a `config.<env>.yaml` that is not YAML is reported as not
  found and skipped (`internal/config/config.go:293`).
- An `APP_` variable that is set and empty counts as not set.
- Two concurrent profile updates that change different fields lose one of them,
  since `UpdateUserProfile` writes email, phone and avatar of a copy read earlier
  (`Users!UpdateProfile` does the same).
- A body refused for its declared length is counted but leaves no access log
  line, as `BodyLimit` is outside `Logger`.
- The repository's README.md lists a `DELETE /api/v1/users/:id` that the router
  does not have, and says of `health/` that hanging checkers do not pile up
  goroutines, while each batch that gives up on one leaves its goroutine behind,
  one per TTL.

## 5. Fairness

| Specification | Assumed | Why the code justifies it |
|---|---|---|
| `Health!LiveSpec` | WF of `Tick`, `Proceed` and the checkers not in `Hangs`; SF of `Queued` | time passes, goroutines run, and a `sync.Mutex` hands over to a waiter after 1 ms (starvation mode). Nothing is assumed of a checker in `Hangs` |
| `Process!ProcessSpec` and `Lifecycle!Spec` | WF of `MainStep`, `Tick`, `Probe`, `Answer` | main runs, time passes, the load balancer keeps probing, and its probes are answered: their checks have a deadline. No request is assumed to end |
| `RotateWriter!Spec` | WF of `Call` | a call that has begun runs to its end |
| `Transaction!FairSpec` | SF of the outermost `Return`, WF of inner ones; WF of `WindUp`, of `Nest` and of an inner `Do` that fails because its transaction is unusable; SF of `Begin` | a closure is straight code over statements that have a timeout, so it returns (strongly fair for the outermost one, whose `run` is left and entered again around inner `Do`s); what follows the closure waits for nothing; `database/sql` hands a connection that is given back to a waiter picked at random, so that one that waits again and again is picked |

`Health` also has a `PromptSpec`, in which the clock stands while the code can
take a step. `health_queue` uses it, so that its counterexample is due to the
order of waits in the code and not to a machine too slow to run it.

## 6. What is proved, and what is not

Eight modules hold the proofs, each extending what it is about; `ProcessProofs`
holds those of `Lifecycle`, `Config`, `Migrate` and `Process`, one process from its
configuration to its exit. "For all" below means for every value of the constants
that the named assumptions of that module admit; they are all there is to assume.

| Module | Theorem | States | Assumes |
|---|---|---|---|
| `OrdersProofs` | `TypeCorrect` | `[]TypeOK` | keys are numbers; `None` is neither a row, a handler nor an order number |
| | `NoLockLeaks` | `[]LocksAreInTx` | |
| | `LogAlwaysTellsStatus` | `[]LogTellsStatus` | |
| | `AtMostOneWinner` | `[]OneWinner` | |
| | `CreatePlacesAtMostOnce` | `[]PlacesAtMostOnce` | |
| | `OnlyOwnersAct` | `OnlyOwnerActs` | |
| | `DeletesWhatItSaw` | `DeletedAsSeen` | |
| | `OrdersImplementLedger` | `ImplementsLedger` | |
| | `RequestsDoNotDeadlock` | `[]LocksDoNotChain` | |
| | `RequestsEndInSixSteps` | `RequestsWindDown` | |
| `UsersProofs` | `TypeCorrect` | `[]TypeOK` | the bound on keys is a number; `None` is no row and no value of a field |
| | `IdentitiesStayUnique` | `[]IdentitiesAreUnique` | |
| | `ProfileUpdatesKeepIdentity` | `ProfileKeepsIdentity` | |
| `ProcessProofs` | `TypeCorrect` | `[]TypeOK` | delays are numbers, `shutdown_timeout` is positive |
| | `ResourcesAreReleased` | `[]ResourcesReleased` | |
| | `CleanExitIsTrue` | `[]CleanExitCutsNothing` | |
| | `DrainingRefusesNobody` | `[]NobodyIsRefused` | |
| | `ShutdownStaysBounded` | `ShutdownIsBounded` | |
| | `MigrateTypeCorrect` | `[]MigrateTypeOK` | command lines consist of a program, the flag `-drop` and a confirmed name, and there is one; the bound on starts is a number; nothing is assumed of files and variables |
| | `PriorityIsFollowed` | `[]FollowsPriority` | |
| | `ProductionStaysGuarded` | `[]ProductionIsGuarded` | |
| | `MigrationKeepsToItsName` | `MigratesWhatWasNamed` | |
| | `WholeProcessIsSafe` | `ProcessSpec` implies `MigrateSpec` and the state properties of `Lifecycle` | |
| `RotateWriterProofs` | `TypeCorrect` | `[]TypeOK` | limits are numbers |
| | `LinesGoToTheirHour` | `LineInItsHour` | |
| | `RotationTrims` | `[]TrimmedByRotation` | |
| | `RemovalsHaveCause` | `RemovedForCause` | |
| `HealthProofs` | `TypeCorrect` | `[]TypeOK` | timeout and TTL are positive |
| | `BatchesStayApart` | `BatchesApart` | |
| | `ReadyAnswersAreRecent` | `ReadyIsRecent` | |
| | `ProbesOnlyWindDown` | `ProbesWindDown` | |
| `TransactionProofs` | `TypeCorrect` | `[]TypeOK` | at least one connection |
| | `LateStatementsAreApart` | `LateStatementsStandAlone` | |
| | `DoImplementsNested` | `KeepsPromiseButStrands` | |
| | `PoolNeverSticks` | `[]PoolIsNotStuck` | |
| `RateLimitProofs` | `TypeCorrect` | `[]TypeOK` | rate and burst are positive; `IdleMeansFull` |
| | `LimitDoesNotLeak` | `AdmitsNoMore` | |
| | `RefusalIsEarned` | `RefusesOnlyTheEmpty` | |
| `PipelineProofs` | `TypeCorrect` | `[]TypeOK` | sizes and limits are numbers; handlers fail with errors `errcode.From` knows |
| | `EachRequestIsToldOnce` | `[]TellsWhatWasSent` | |
| | `PanicsAreAnswered` | `[]PanicIsAnswered` | |
| | `BodiesArriveWhole` | `[]BodyWhole` | |
| | `AnsweredIsDone` | `NothingAfterTheAnswer` | |

`LocksAreInTx` (no path leaves a row lock behind) and `DeletedAsSeen` (a cancelled
order is still cancelled when it is deleted) are proved and not run; neither are,
but for `LocksDoNotChain`, the properties that liveness rests on, see the end of this
section.

Hardly any of these properties is inductive. Each module defines the invariant
that is, called `Inv` (in layers in `OrdersProofs`), proves it by one lemma per
action or group of actions, and derives the state properties from it and the step
properties from it at the step before. `Inv` was checked by TLC on the run's
instance before it was proved. What it adds, and why:

**Orders.** The invariant is built in layers, each proved with the ones below as
known facts:

1. `Typed`: types, and which kind of request each place in the code serves.
2. `Locked`: the row lock is held by exactly the handlers inside a transaction,
   on the row of their request. Two of them on one row would be the same.
3. `Consistent`, of two parts. `Informed`: what a handler read still holds as far
   as it relies on it. An accepted order exists under the same owner or is gone
   for good; after a matched UPDATE, while the lock is held, the order exists and
   has the status that was seen; an order seen cancelled is still cancelled if it
   exists; the staged writes are those of the place in the code.
   `Fresh`: keys above `lastId` have neither row nor log, so that a deleted
   order's key never comes back with another owner or an old log.
4. `LogsInv`: `LogTellsStatus`, and `Rising`: statuses only grow along the graph.
   `OneWinner` needs the latter, since a log that came back to a status could
   leave it twice.

The refinement (`LedgerStep`) maps `InsertOk` to `Place`, `Commit` to `Advance`,
`DeleteRow` of a row to `Remove` and all else to a stutter.

**Users.** `PlaceFitsRequest` says which request each place serves, `RowIsThere`
that the row `UpdateUser` read is still there when it is written. Uniqueness
itself is inductive: only two statements write names and emails, and the unique
indexes guard both. That the earlier SELECTs cannot be relied on is why the proof
does not mention them.

**Lifecycle.** A table by `pc`: who answers a signal (`HandlerByPlace`), how many
signals were seen (`SignalsSeen`), what is closed (`ReleasedByPlace`,
`ListenerByPlace`), which exit is possible (`ExitByPlace`). Only after two signals
does the forced path run beside `main`, and then both close both pools.
`ReleasedByPlace` knows orphaned pools only behind a start that failed at them.
`NobodyIsRefused` needs `OutOfServiceInTime`: during the drain delay, what is left
of the load balancer's interval while it may send here, and what is left of a
probe that is under way, are both less than what is left of the delay; after it
the load balancer does not send here any more and no probe can change that.

**Config and Migrate.** `EnvIsChecked`: past the first check the environment is
the one asked for, in its normal spelling, and an allowed one. `FilesAreMerged`
says at each step which files the keys merged so far come from, the first file
that sets a key winning, and that production has found its own file and never
looks at `config.local.yaml`. `CfgIsDecoded`: after `Unmarshal` each key has the
value of its first source, and after `Validate` (`Validated`) it has passed the
rules of its environment. No later step touches the files or the configuration,
which is what carries these facts into the running process. `TodoIsPart` is the
loop invariant of both loops of the migration: dropping, what is left is an
initial part of the models; creating, it is a final part and the tables before it
are there; and neither is reached with `-drop` unless the name was confirmed.

**RotateWriter.** `CleanupInOrder` is the loop invariant of `cleanupLocked`: the
files it has looked at are newer than those it has not, it has kept as many as
`kept` says, and as long as no removal failed all that it kept is within both
limits. `OpenedInCall` ties the hour of the open file to the readings of the
clock during the call.

**Health.** `BatchAccounted`: every checker of a batch is running, has delivered
one result, or has been collected. `SeenUp` and `AgesAgree` carry an observation
from the checker to the cache: a dependency that a batch found up has not been
down for longer than the batch runs, and while nobody holds `probeMu` the cache is
exactly as old as the last batch. The latter is what makes the second look at the
cache, under the mutex, enough.

**Transaction.** `PoolIsExact` counts connections: each is free or under one open
transaction. `LevelsFit`: the outermost frame begins at an empty log, and what is
not open has no writes. `TasksApart` is `LateStatementsStandAlone` as a state: a
context is late exactly when its handle is done (`TaskFits`), and a late one is
off the transaction. The refinement, to `StrandingSpec`, maps each open `Do` to a level of `NestedTx` that holds what was
written since the next frame began (`Levels`, `Span`): the savepoint of an inner
`Do` cuts the log where the level begins, so that `RollbackTo` takes back that
level, `Keep` joins it to the one below and `Commit` publishes the only one. Each
action has its lemma (`Abstract...`).

**RateLimit.** `Accounts` relates every bucket to the ideal one (`Agrees`). What a
bucket would hold at a reading taken now is never less than the ideal credit, and
more by one stall's refill at most; a client without a bucket has its full credit,
which is what makes dropping idle buckets harmless. The proof needs `IdleMeansFull` with two
stalls: a bucket may carry a `lastSeen` from before a stall and be swept by a
reading from before another. With one stall only, TLC finds a client admitted one
token too much when stalls last as long as a bucket takes to refill.

**Pipeline.** The invariant speaks of one request at a time, plus `GaugeIsExact`.
`Stacked`: the frames are the handlers of the route's chain in order, without
`Cors`, which never calls `c.Next`; on the way in their number is a function of the
index. `Untouched`: on the way in nothing was sent, counted or logged. On the way
out `ToldOnce` says what has been told by height: `Logger` is the fourth frame and
`Metrics` the second, and the status does not change below the fifth, `Recovery`.
`PanicInPlace` follows a panic through these, and `BodyInPlace` balances what the
log put back, what is left and what the quota lets through. `Chains` and `Places`
compute the four chains that `Setup` builds, and the proof uses no more of them
than where each handler stands.

**What liveness rests on.** Liveness properties need fairness and ENABLED, which are
beyond the prover and stay with TLC. What they need of the code besides fairness is
safety, and is proved. That every order request is answered is the one that no run
checks: with two keys and two users, without which the run `orders` would say
little, its liveness takes TLC too long.

| Liveness property | Proved for all values | What fairness adds |
|---|---|---|
| every order request is answered (not run) | `RequestsDoNotDeadlock`: who holds a row lock asks for none, so there is no circle of waiters. `RequestsEndInSixSteps`: every step of a request after its arrival lowers `StepsLeft`, at most six, and leaves that of all others alone | a request that can take a step takes one, and a lock that is free again and again is granted |
| `ConnectionGranted` | `PoolNeverSticks`: who waits for a connection holds none, and if there is none left some transaction has one and waits for none | the holder goes on, and waiters are served |
| `EveryProbeAnswered`, `DrainTakesEffect` | `ProbesOnlyWindDown`: a probe never goes back and its deadline is never put off; while draining nobody comes in | time passes, goroutines run, `probeMu` starves nobody |
| `SignalEnds` | `ShutdownStaysBounded`: `main` never goes back, and what it can still wait, `drain_delay` and `shutdown_timeout` at most, only falls, by each tick it spends waiting | `main` runs and time passes |

Only model-checked: the four liveness properties that are run, and the four runs
that expect a violation.

Not modelled:

- of the pipeline: headers and request ids, masking and wording of log lines,
  histograms, the table of error codes and messages;
- pagination of the read-only lists: a pure function with tests;
- MySQL, Redis, JWT and bcrypt: libraries, seen through the calls made to them;
  the GORM logger and the Redis adapter keep no state the program reads;
- of the migration: columns and indexes of a table that exists, which are GORM's;
  two migrations at the same time;
- configuration files that change while they are read, and keys that repeat the
  rules of a modelled one.

## 7. Plan

Done, in this order: `OrderModel`, `OrderLedger`, `Orders` and `OrdersProofs`;
`Health`; `Lifecycle`; `RotateWriter`; `Users`; `RateLimit`; `Pipeline`;
`NestedTx` and `Transaction`; `Config` and `Migrate`; `Process`; then the proofs of `Users`,
`Lifecycle`, `RotateWriter`, `Health`, `Transaction`, `RateLimit`, `Pipeline`,
`Config` and `Migrate`, and what the liveness properties rest on.

Next, extending the model:

1. `Pipeline` over `RateLimit`, so that refused and admitted requests are those
   of the buckets, and probes are seen to cost no token.
2. `Lifecycle` with `Health` in place of its probe, so that the answers of probes
   in flight are those of the checks and the cached report.
3. An abstract registry that `Health` implements, and an abstract account table
   that `Users` implements.

Next, proofs: the refinements of point 3.
