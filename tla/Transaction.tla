---------------------------- MODULE Transaction ----------------------------
(***************************************************************************)
(* pkg/transaction and the lookup of internal/resource: transaction.Do,    *)
(* nested or not, over gorm's Transaction and the connection pool that     *)
(* NewMySQL bounds, and a goroutine that keeps the context of a closure    *)
(* and uses it whenever it likes.                                          *)
(*                                                                         *)
(* A closure writes rows, calls Do again, and returns nil, an error or a   *)
(* panic.  A context may end at any moment, an inner one before the outer; *)
(* a connection may break, and database/sql may roll the transaction of an *)
(* ended context back.  log[h] are the writes on h's connection that are   *)
(* not committed, in order.  gorm names a savepoint after the code of the  *)
(* closure in run, so that a transaction has one savepoint at a time: that *)
(* of the inner Do, with the two levels allowed here.                      *)
(***************************************************************************)
EXTENDS Naturals, Sequences

CONSTANTS
  Handlers,   \* request goroutines
  Leaky,      \* those of them whose closures let their context escape
  Nesting,    \* those whose closures call Do again
  Conns,      \* SetMaxOpenConns
  MaxWrites   \* bound: rows written in a behaviour

ASSUME BoundsAreSane ==
  /\ Leaky \cup Nesting \subseteq Handlers
  /\ Conns \in Nat \ {0} /\ MaxWrites \in Nat

\* Bound: a Do in a Do, and none in that.
MaxDepth(h) == IF h \in Nesting THEN 2 ELSE 1

Rows == 1..MaxWrites
Outcomes == {"nil", "error", "panic"}
NoTask == [step |-> "none", depth |-> 0, done |-> FALSE, late |-> FALSE]

VARIABLES
  wired,    \* resource.Set has run
  free,     \* connections the pool may still hand out
  pc,       \* idle; begin: in Do, before the closure; run: in the innermost
            \* closure; leave: that closure has ended and Do winds up
  frames,   \* per open Do, the outermost first, Len(log) when it began
  ret,      \* in leave, how the closure ended
  alive,    \* how many of the Do's, from the outermost, have a live context
  tx,       \* the sql.Tx: none, open, or lost with its connection
  log,
  table,    \* what is committed
  written,  \* rows written so far
  told,     \* the answer of the Do that returned last
  task      \* what the goroutine that keeps a closure's context does with it

vars == <<wired, free, pc, frames, ret, alive, tx, log, table, written, told, task>>

Depth(h) == Len(frames[h])
Usable(h) == tx[h] = "open" /\ alive[h] = Depth(h)

Init ==
  /\ wired = FALSE
  /\ free = Conns
  /\ pc = [h \in Handlers |-> "idle"]
  /\ frames = [h \in Handlers |-> <<>>]
  /\ ret = [h \in Handlers |-> "nil"]
  /\ alive = [h \in Handlers |-> 0]
  /\ tx = [h \in Handlers |-> "none"]
  /\ log = [h \in Handlers |-> <<>>]
  /\ table = {}
  /\ written = 0
  /\ told = "none"
  /\ task = [h \in Handlers |-> NoTask]

\* Only the first Set has an effect.
Set ==
  /\ ~wired
  /\ wired' = TRUE
  /\ UNCHANGED <<free, pc, frames, ret, alive, tx, log, table, written, told, task>>

Answer(answer) == told' = answer

---------------------------------------------------------------------------
\* The way in.

Do(h) ==
  /\ wired
  /\ \/ pc[h] = "idle"
     \/ pc[h] = "run" /\ Depth(h) < MaxDepth(h)
  /\ pc' = [pc EXCEPT ![h] = "begin"]
  /\ UNCHANGED <<wired, free, frames, ret, alive, tx, log, table, written, told, task>>

DoUnwired(h) ==
  /\ ~wired
  /\ Answer("error")
  /\ UNCHANGED <<wired, free, pc, frames, ret, alive, tx, log, table, written, task>>

\* Broken: the transaction runs on a connection the pool does not count.
BeginUncounted(h) ==
  /\ pc[h] = "begin" /\ frames[h] = <<>>
  /\ pc' = [pc EXCEPT ![h] = "run"]
  /\ frames' = [frames EXCEPT ![h] = <<0>>]
  /\ alive' = [alive EXCEPT ![h] = 1]
  /\ tx' = [tx EXCEPT ![h] = "open"]
  /\ UNCHANGED <<wired, free, ret, log, table, written, told, task>>

\* The outermost Do waits for a connection and begins a transaction on it.
Begin(h) ==
  /\ pc[h] = "begin" /\ frames[h] = <<>>
  /\ free > 0
  /\ free' = free - 1
  /\ pc' = [pc EXCEPT ![h] = "run"]
  /\ frames' = [frames EXCEPT ![h] = <<0>>]
  /\ alive' = [alive EXCEPT ![h] = 1]
  /\ tx' = [tx EXCEPT ![h] = "open"]
  /\ UNCHANGED <<wired, ret, log, table, written, told, task>>

\* Broken: an inner Do takes a transaction of its own from the root.
NestOnRoot(h) ==
  /\ pc[h] = "begin" /\ frames[h] # <<>>
  /\ free > 0
  /\ free' = free - 1
  /\ pc' = [pc EXCEPT ![h] = "run"]
  /\ frames' = [frames EXCEPT ![h] = Append(@, Len(log[h]))]
  /\ alive' = [alive EXCEPT ![h] = @ + 1]
  /\ UNCHANGED <<wired, ret, tx, log, table, written, told, task>>

\* An inner Do finds the handle in its context and sets the savepoint.
Nest(h) ==
  /\ pc[h] = "begin" /\ frames[h] # <<>>
  /\ Usable(h)
  /\ pc' = [pc EXCEPT ![h] = "run"]
  /\ frames' = [frames EXCEPT ![h] = Append(@, Len(log[h]))]
  /\ alive' = [alive EXCEPT ![h] = @ + 1]
  /\ UNCHANGED <<wired, free, ret, tx, log, table, written, told, task>>

\* The context of this Do ended, no connection came, or the server is down:
\* the closure is not called.
BeginFails(h) ==
  /\ pc[h] = "begin"
  /\ pc' = [pc EXCEPT ![h] = IF frames[h] = <<>> THEN "idle" ELSE "run"]
  /\ Answer("error")
  /\ UNCHANGED <<wired, free, frames, ret, alive, tx, log, table, written, task>>

---------------------------------------------------------------------------
\* In the closure.

\* A statement of the closure; one that fails changes nothing.
Write(h) ==
  /\ pc[h] = "run" /\ Usable(h)
  /\ written < MaxWrites
  /\ written' = written + 1
  /\ log' = [log EXCEPT ![h] = Append(@, written')]
  /\ UNCHANGED <<wired, free, pc, frames, ret, alive, tx, table, told, task>>

\* Once the transaction is lost it makes no difference.
ContextEnds(h) ==
  /\ tx[h] = "open"
  /\ \E n \in 0..Depth(h) : n < alive[h] /\ alive' = [alive EXCEPT ![h] = n]
  /\ UNCHANGED <<wired, free, pc, frames, ret, tx, log, table, written, told, task>>

\* database/sql ends the transaction: its goroutines get ErrTxDone from now on.
Released(h, tasks) ==
  /\ free' = IF tx[h] = "open" THEN free + 1 ELSE free
  /\ log' = [log EXCEPT ![h] = <<>>]
  /\ task' = [tasks EXCEPT ![h].step = IF @ = "tx" THEN "txDone" ELSE @]

Lose(h) ==
  /\ tx[h] = "open"
  /\ tx' = [tx EXCEPT ![h] = "lost"]
  /\ frames' = [frames EXCEPT ![h] = [i \in 1..Depth(h) |-> 0]]
  /\ Released(h, task)
  /\ UNCHANGED <<wired, pc, ret, alive, table, written, told>>

\* Broken: run has no defer, and the handle outlives its closure.
NeverExpires(h, d) ==
  task' = [task EXCEPT ![h] = IF @.depth = d THEN [@ EXCEPT !.late = TRUE] ELSE @]

\* The closure of the d-th Do ends: its context is late from here on, and
\* run's defer declares its handle done before gorm commits or rolls back.
Expires(h, d) ==
  task' = [task EXCEPT ![h] =
    IF @.depth = d THEN [@ EXCEPT !.done = TRUE, !.late = TRUE] ELSE @]

Return(h) ==
  /\ pc[h] = "run"
  /\ pc' = [pc EXCEPT ![h] = "leave"]
  /\ \E r \in Outcomes : ret' = [ret EXCEPT ![h] = r]
  /\ Expires(h, Depth(h))
  /\ UNCHANGED <<wired, free, frames, alive, tx, log, table, written, told>>

---------------------------------------------------------------------------
\* The way out.

Ended(h) == pc[h] = "leave" /\ Depth(h) > 1
OuterFrames(h) == SubSeq(frames[h], 1, Depth(h) - 1)
OuterAlive(h) == IF alive[h] < Depth(h) THEN alive[h] ELSE Depth(h) - 1

\* The inner Do returns to the closure around it.
Resume(h, answer) ==
  /\ frames' = [frames EXCEPT ![h] = OuterFrames(h)]
  /\ alive' = [alive EXCEPT ![h] = OuterAlive(h)]
  /\ Answer(answer)
  /\ UNCHANGED <<wired, free, tx, table, written>>

\* gorm leaves the savepoint of an inner Do that succeeds where it is.
Keep(h) ==
  /\ Ended(h) /\ ret[h] = "nil"
  /\ pc' = [pc EXCEPT ![h] = "run"]
  /\ Resume(h, "ok")
  /\ UNCHANGED <<ret, log, task>>

\* Broken: an inner Do calls its closure on the handle, without a savepoint.
TakenBackNothing(h) == log[h]

\* ROLLBACK TO goes through the context of the inner Do, and gorm drops its
\* error: under a context that has ended nothing is taken back.
TakenBack(h) == IF Usable(h) THEN SubSeq(log[h], 1, frames[h][Depth(h)]) ELSE log[h]

\* An error is returned to the closure around it, a panic ends that one too.
RollbackTo(h) ==
  /\ Ended(h) /\ ret[h] # "nil"
  /\ log' = [log EXCEPT ![h] = TakenBack(h)]
  /\ Resume(h, "error")
  /\ \/ /\ ret[h] = "error"
        /\ pc' = [pc EXCEPT ![h] = "run"]
        /\ ret' = [ret EXCEPT ![h] = "nil"]
        /\ UNCHANGED task
     \/ /\ ret[h] = "panic"
        /\ Expires(h, Depth(h) - 1)
        /\ UNCHANGED <<pc, ret>>

End(h) ==
  /\ pc[h] = "leave" /\ Depth(h) = 1
  /\ pc' = [pc EXCEPT ![h] = "idle"]
  /\ frames' = [frames EXCEPT ![h] = <<>>]
  /\ alive' = [alive EXCEPT ![h] = 0]
  /\ tx' = [tx EXCEPT ![h] = "none"]
  /\ ret' = [ret EXCEPT ![h] = "nil"]
  /\ Released(h, task)
  /\ UNCHANGED <<wired, written>>

\* database/sql does not commit under a context that has ended.  The reply of
\* the server may be lost.
Commit(h) ==
  /\ End(h)
  /\ ret[h] = "nil" /\ Usable(h)
  /\ table' = table \cup {log[h][i] : i \in 1..Len(log[h])}
  /\ \E answer \in {"ok", "error"} : Answer(answer)

Rollback(h) ==
  /\ End(h)
  /\ ret[h] # "nil" \/ ~Usable(h)
  /\ Answer("error")
  /\ UNCHANGED table

---------------------------------------------------------------------------
\* The goroutine that kept the context, with its deadline or without.

Escape(h) ==
  /\ h \in Leaky
  /\ pc[h] = "run" /\ task[h].step = "none"
  /\ task' = [task EXCEPT ![h] = [NoTask EXCEPT !.step = "holds", !.depth = Depth(h)]]
  /\ UNCHANGED <<wired, free, pc, frames, ret, alive, tx, log, table, written, told>>

TxFrom(h) == ~task[h].done

\* resource.DB: the transaction of the handle, or the root connection.
Lookup(h) ==
  /\ task[h].step = "holds"
  /\ task' = [task EXCEPT ![h] = [NoTask EXCEPT
       !.step = IF ~TxFrom(h) THEN "root" ELSE IF tx[h] = "open" THEN "tx" ELSE "txDone",
       !.late = task[h].late]]
  /\ UNCHANGED <<wired, free, pc, frames, ret, alive, tx, log, table, written, told>>

\* In the transaction, or on a connection of its own and committed at once.
Execute(h) ==
  /\ written < MaxWrites
  /\ written' = written + 1
  /\ \/ /\ task[h].step = "tx"
        /\ log' = [log EXCEPT ![h] = Append(@, written')]
        /\ UNCHANGED table
     \/ /\ task[h].step = "root" /\ free > 0
        /\ table' = table \cup {written'}
        /\ UNCHANGED log
  /\ task' = [task EXCEPT ![h] = NoTask]
  /\ UNCHANGED <<wired, free, pc, frames, ret, alive, tx, told>>

\* ErrTxDone, or any other error.
TaskFails(h) ==
  /\ task[h].step \in {"tx", "txDone", "root"}
  /\ task' = [task EXCEPT ![h] = NoTask]
  /\ UNCHANGED <<wired, free, pc, frames, ret, alive, tx, log, table, written, told>>

---------------------------------------------------------------------------
WindUp(h) == Keep(h) \/ RollbackTo(h) \/ Commit(h) \/ Rollback(h)

Next ==
  \/ Set
  \/ \E h \in Handlers :
       \/ Do(h) \/ DoUnwired(h) \/ Begin(h) \/ Nest(h) \/ BeginFails(h)
       \/ Write(h) \/ ContextEnds(h) \/ Lose(h) \/ Return(h) \/ WindUp(h)
       \/ Escape(h) \/ Lookup(h) \/ Execute(h) \/ TaskFails(h)

Spec == Init /\ [][Next]_vars

\* The closures are straight code over statements with a timeout, so the
\* outermost one returns; what Do does after it does not wait, and an inner Do
\* waits for nothing.  database/sql hands a connection that is given back to one
\* of the waiters, picked at random: one that waits again and again is picked.
Fairness ==
  \A h \in Handlers :
    /\ SF_vars(Return(h) /\ Depth(h) = 1) /\ WF_vars(Return(h) /\ Depth(h) > 1)
    /\ WF_vars(WindUp(h)) /\ SF_vars(Begin(h))
    /\ WF_vars(Nest(h)) /\ WF_vars(frames[h] # <<>> /\ ~Usable(h) /\ BeginFails(h))

FairSpec == Spec /\ Fairness

---------------------------------------------------------------------------
TypeOK ==
  /\ wired \in BOOLEAN
  /\ free \in 0..Conns
  /\ pc \in [Handlers -> {"idle", "begin", "run", "leave"}]
  /\ \A h \in Handlers :
       /\ Depth(h) \in 0..MaxDepth(h)
       /\ \A i \in 1..Depth(h) : frames[h][i] \in 0..Len(log[h])
       /\ alive[h] \in 0..Depth(h)
       /\ \A i \in 1..Len(log[h]) : log[h][i] \in 1..written
       /\ (tx[h] = "none") = (frames[h] = <<>>)
       /\ pc[h] \in {"run", "leave"} => tx[h] # "none"
  /\ ret \in [Handlers -> Outcomes]
  /\ tx \in [Handlers -> {"none", "open", "lost"}]
  /\ table \subseteq 1..written
  /\ written \in 0..MaxWrites
  /\ told \in {"none", "ok", "error"}
  /\ task \in [Handlers -> [step: {"none", "holds", "tx", "txDone", "root"},
                            depth: 0..2, done: BOOLEAN, late: BOOLEAN]]

---------------------------------------------------------------------------
\* What each open Do wrote: the part of log that begins at its frame.
LevelEnd(h, i) == IF i < Depth(h) THEN frames[h][i + 1] ELSE Len(log[h])
Nested(h) ==
  [i \in 1..Depth(h) |-> {log[h][k] : k \in frames[h][i] + 1 .. LevelEnd(h, i)}]

Abstract == INSTANCE NestedTx WITH
  Writes <- Rows,
  nest <- [h \in Handlers |-> Nested(h)]

\* Do keeps the promise of NestedTx but for Strand: the rows of an outermost Do
\* and of the Do's that succeeded inside it appear together or not at all, and
\* an inner Do that fails under a live context takes back its own rows and no
\* others.
KeepsPromiseButStrands == Abstract!StrandingSpec

\* The comment of Do has no such exception: whenever an inner Do fails, what it
\* wrote is taken back to its savepoint.
KeepsPromise == Abstract!Spec

\* A goroutine that looks its connection up once the closure has ended, by the
\* closure's end and not by what its handle says, never touches the
\* transaction: it neither writes into it while Do commits or rolls back, nor
\* meets ErrTxDone; what it writes stands alone (handle.done).
LateStatementsStandAlone ==
  [][\A h \in Handlers : task[h].late =>
       task'[h].step # "txDone" /\ (task'[h] # task[h] => log' = log)]_vars

\* A Do that waits for a connection holds none, and when it finds the pool
\* empty some other Do has the connection and waits for none itself.
WaitsForConnection(h) == pc[h] = "begin" /\ frames[h] = <<>>
PoolIsNotStuck ==
  \A h \in Handlers : WaitsForConnection(h) =>
    /\ tx[h] = "none"
    /\ free = 0 => \E g \in Handlers : tx[g] = "open" /\ ~WaitsForConnection(g)

\* A Do that waits, for a connection or in its transaction, does not wait for
\* ever, with the pool down to one connection: an inner Do takes none of its
\* own, and every way out of a closure gives the connection back.
ConnectionGranted == \A h \in Handlers : pc[h] = "begin" ~> pc[h] # "begin"
=============================================================================
