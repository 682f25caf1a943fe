------------------------- MODULE TransactionProofs -------------------------
(***************************************************************************)
(* Proofs about Transaction, for any handlers and any number of            *)
(* connections and writes.  The inductive invariant adds to the types that *)
(* the pool's count is exact, what a lost transaction leaves, and that a   *)
(* goroutine which looks its connection up late is off the transaction.    *)
(***************************************************************************)
EXTENDS Transaction, SequenceTheorems, FiniteSetTheorems, TLAPS

Sequenced ==
  /\ frames \in [Handlers -> Seq(Nat)]
  /\ log \in [Handlers -> Seq(Nat)]
  /\ alive \in [Handlers -> Nat]

\* Every connection is in the pool or under one open transaction.
OpenTx == {h \in Handlers : tx[h] = "open"}
PoolIsExact == IsFiniteSet(OpenTx) /\ free + Cardinality(OpenTx) = Conns

\* The outermost Do begins with an empty log; a Do inside begins where the
\* code may nest; a transaction that is not open has no writes.
LevelsFit ==
  \A h \in Handlers :
    /\ frames[h] # <<>> => frames[h][1] = 0
    /\ pc[h] = "idle" => frames[h] = <<>>
    /\ pc[h] = "begin" => Depth(h) < MaxDepth(h)
    /\ tx[h] # "open" => log[h] = <<>>

\* Only who holds a context has its depth; a late context has a handle that is
\* done, and a statement looked up with it is off the transaction.
TaskFits(t) ==
  /\ t.step # "holds" => t.depth = 0
  /\ t.late => IF t.step = "holds" THEN t.done ELSE t.step = "root"

\* A statement on the transaction has an open one.
TasksApart ==
  \A h \in Handlers :
    /\ task[h].step = "tx" => tx[h] = "open"
    /\ TaskFits(task[h])

Inv == TypeOK /\ Sequenced /\ PoolIsExact /\ LevelsFit /\ TasksApart

-----------------------------------------------------------------------------
Task == [step: {"none", "holds", "tx", "txDone", "root"},
         depth: 0..2, done: BOOLEAN, late: BOOLEAN]

LEMMA DepthIsSmall ==
  ASSUME Inv, NEW h \in Handlers
  PROVE  /\ frames[h] \in Seq(Nat) /\ log[h] \in Seq(Nat) /\ Len(log[h]) \in Nat
         /\ MaxDepth(h) \in 1..2 /\ Depth(h) \in 0..2 /\ Depth(h) <= MaxDepth(h)
         /\ frames[h] = <<>> <=> Depth(h) = 0
<1>1. frames[h] \in Seq(Nat) /\ log[h] \in Seq(Nat)
  BY DEF Inv, Sequenced
<1>2. MaxDepth(h) \in 1..2 /\ Depth(h) \in 0..MaxDepth(h)
  BY DEF Inv, TypeOK, MaxDepth
<1>3. frames[h] = <<>> <=> Depth(h) = 0
  BY <1>1, EmptySeq DEF Depth
<1> QED
  BY <1>1, <1>2, <1>3, LenProperties

\* The pool over a connection that is taken, or given back.
LEMMA PoolTaken ==
  ASSUME PoolIsExact, free \in Nat, NEW h \in Handlers, h \notin OpenTx,
         free' = free - 1, OpenTx' = OpenTx \cup {h}
  PROVE  PoolIsExact'
<1>1. Cardinality(OpenTx) \in Nat
  BY FS_CardinalityType DEF PoolIsExact
<1>2. IsFiniteSet(OpenTx') /\ Cardinality(OpenTx') = Cardinality(OpenTx) + 1
  BY FS_AddElement DEF PoolIsExact
<1> QED
  BY <1>1, <1>2, BoundsAreSane DEF PoolIsExact

LEMMA PoolGivenBack ==
  ASSUME PoolIsExact, free \in Nat, NEW h \in OpenTx,
         free' = free + 1, OpenTx' = OpenTx \ {h}
  PROVE  PoolIsExact' /\ free' \in 0..Conns
<1>1. Cardinality(OpenTx) \in Nat /\ Cardinality(OpenTx') \in Nat
  BY FS_CardinalityType, FS_RemoveElement DEF PoolIsExact
<1>2. IsFiniteSet(OpenTx') /\ Cardinality(OpenTx') = Cardinality(OpenTx) - 1
  BY FS_RemoveElement DEF PoolIsExact
<1> QED
  BY <1>1, <1>2, BoundsAreSane DEF PoolIsExact

\* Whoever ends a transaction gives its connection back, and turns the
\* statements that were to run on it into ErrTxDone.
LEMMA ReleasedEffect ==
  ASSUME Inv, NEW h \in Handlers, Released(h, task),
         tx' = [tx EXCEPT ![h] = "none"] \/ tx' = [tx EXCEPT ![h] = "lost"]
  PROVE  /\ PoolIsExact' /\ free' \in 0..Conns
         /\ log' = [log EXCEPT ![h] = <<>>]
         /\ task' \in [Handlers -> Task]
         /\ \A g \in Handlers \ {h} : task'[g] = task[g]
         /\ task[h].step # "tx" => task'[h] = task[h]
         /\ task'[h].step # "tx"
         /\ TaskFits(task'[h])
<1>1. /\ tx \in [Handlers -> {"none", "open", "lost"}] /\ free \in Nat /\ free \in 0..Conns
      /\ task \in [Handlers -> Task]
  BY BoundsAreSane DEF Inv, TypeOK, Task
<1>2. PoolIsExact' /\ free' \in 0..Conns
  <2>1. CASE tx[h] = "open"
    <3>1. h \in OpenTx /\ OpenTx' = OpenTx \ {h}
      BY <1>1, <2>1 DEF OpenTx
    <3>2. free' = free + 1
      BY <2>1 DEF Released
    <3> QED
      BY <1>1, <3>1, <3>2, PoolGivenBack DEF Inv
  <2>2. CASE tx[h] # "open"
    <3>1. OpenTx' = OpenTx
      BY <1>1, <2>2 DEF OpenTx
    <3> QED
      BY <1>1, <2>2, <3>1 DEF Released, Inv, PoolIsExact
  <2> QED
    BY <2>1, <2>2
<1>3. task[h] \in Task
  BY <1>1
<1>4. task' = [task EXCEPT ![h].step = IF @ = "tx" THEN "txDone" ELSE @]
  BY DEF Released
<1>5. task[h].step # "tx" => task'[h] = task[h]
  BY <1>1, <1>3, <1>4 DEF Task
<1>6. TaskFits(task'[h])
  <2>1. TaskFits(task[h])
    BY DEF Inv, TasksApart
  <2>2. CASE task[h].step = "tx"
    <3>1. ~task[h].late /\ task[h].depth = 0
      BY <2>1, <2>2 DEF TaskFits
    <3>2. task'[h].step = "txDone" /\ task'[h].late = task[h].late /\ task'[h].depth = task[h].depth
      BY <1>1, <1>3, <1>4, <2>2 DEF Task
    <3> QED
      BY <3>1, <3>2 DEF TaskFits
  <2> QED
    BY <1>5, <2>1, <2>2
<1> QED
  BY <1>1, <1>2, <1>3, <1>4, <1>5, <1>6 DEF Released, Task

\* The handle of a closure that ended is done, and its context is late; a task
\* that was late stays as it is.
LEMMA ExpiresEffect ==
  ASSUME Inv, NEW h \in Handlers, NEW d \in Nat \ {0}, Expires(h, d)
  PROVE  /\ task' \in [Handlers -> Task]
         /\ \A g \in Handlers : task'[g].step = task[g].step /\ TaskFits(task'[g])
         /\ \A g \in Handlers : g # h \/ task[g].late => task'[g] = task[g]
<1>1. /\ task \in [Handlers -> Task] /\ task[h] \in Task
      /\ \A g \in Handlers : TaskFits(task[g])
  BY DEF Inv, TypeOK, Task, TasksApart
<1> DEFINE new == IF task[h].depth = d THEN [task[h] EXCEPT !.done = TRUE, !.late = TRUE] ELSE task[h]
<1>2. new \in Task /\ new.step = task[h].step
  BY <1>1 DEF Task
<1>3. TaskFits(new)
  <2>1. CASE task[h].depth = d
    <3>1. task[h].step = "holds"
      BY <1>1, <2>1 DEF TaskFits
    <3>2. new.step = "holds" /\ new.done = TRUE
      BY <1>1, <2>1, <3>1 DEF Task
    <3> QED
      BY <3>2 DEF TaskFits
  <2>2. CASE task[h].depth # d
    BY <1>1, <2>2
  <2> QED
    BY <2>1, <2>2
<1>4. task[h].late => new = task[h]
  <2> SUFFICES ASSUME task[h].late, task[h].depth = d PROVE new = task[h]
    OBVIOUS
  <2>1. task[h].step = "holds" /\ task[h].done
    BY <1>1 DEF TaskFits
  <2>2. task[h].done = TRUE /\ task[h].late = TRUE
    BY <1>1, <2>1 DEF Task
  <2> QED
    BY <1>1, <2>2 DEF Task
<1>5. task' = [task EXCEPT ![h] = new]
  BY DEF Expires
<1> HIDE DEF new
<1> QED
  BY <1>1, <1>2, <1>3, <1>4, <1>5

-----------------------------------------------------------------------------
LEMMA InvInit == Init => Inv
<1> SUFFICES ASSUME Init PROVE Inv
  OBVIOUS
<1> USE BoundsAreSane DEF Init
<1>1. \A h \in Handlers : frames[h] = <<>> /\ log[h] = <<>> /\ Depth(h) = 0 /\ Len(log[h]) = 0
  BY EmptySeq DEF Depth
<1>2. Sequenced
  BY EmptySeq DEF Sequenced
<1>3. PoolIsExact
  <2>1. OpenTx = {}
    BY DEF OpenTx
  <2> QED
    BY <2>1, FS_EmptySet DEF PoolIsExact
<1>4. LevelsFit
  BY <1>1 DEF LevelsFit
<1>5. NoTask \in Task /\ NoTask.step = "none" /\ NoTask.late = FALSE
  BY DEF NoTask, Task
<1>6. TasksApart
  BY <1>5 DEF TasksApart, TaskFits, NoTask
<1>7. TypeOK
  <2>1. \A h \in Handlers :
          /\ Depth(h) \in 0..MaxDepth(h)
          /\ \A i \in 1..Depth(h) : frames[h][i] \in 0..Len(log[h])
          /\ alive[h] \in 0..Depth(h)
          /\ \A i \in 1..Len(log[h]) : log[h][i] \in 1..written
          /\ (tx[h] = "none") = (frames[h] = <<>>)
          /\ pc[h] \in {"run", "leave"} => tx[h] # "none"
    <3> SUFFICES ASSUME NEW h \in Handlers
                 PROVE  /\ Depth(h) \in 0..MaxDepth(h)
                        /\ \A i \in 1..Depth(h) : frames[h][i] \in 0..Len(log[h])
                        /\ alive[h] \in 0..Depth(h)
                        /\ \A i \in 1..Len(log[h]) : log[h][i] \in 1..written
                        /\ (tx[h] = "none") = (frames[h] = <<>>)
                        /\ pc[h] \in {"run", "leave"} => tx[h] # "none"
      OBVIOUS
    <3>1. MaxDepth(h) \in Nat /\ alive[h] = 0
      BY DEF MaxDepth
    <3>2. tx[h] = "none" /\ frames[h] = <<>> /\ pc[h] = "idle"
      BY <1>1
    <3> QED
      BY <1>1, <3>1, <3>2
  <2>2. task \in [Handlers -> Task]
    BY <1>5
  <2>3. /\ pc \in [Handlers -> {"idle", "begin", "run", "leave"}]
        /\ ret \in [Handlers -> Outcomes]
        /\ tx \in [Handlers -> {"none", "open", "lost"}]
    BY DEF Outcomes
  <2>4. wired \in BOOLEAN
    BY Zenon
  <2>5. free \in 0..Conns /\ written \in 0..MaxWrites /\ table \subseteq 1..written
    OBVIOUS
  <2>6. told \in {"none", "ok", "error"}
    OBVIOUS
  <2> QED
    BY <2>1, <2>2, <2>3, <2>4, <2>5, <2>6 DEF TypeOK, Task
<1> QED
  BY <1>2, <1>3, <1>4, <1>6, <1>7 DEF Inv

\* Steps that move a handler without touching its transaction.
LEMMA MoveKeepsInv ==
  ASSUME Inv, NEW h \in Handlers,
         NEW place \in {"idle", "begin", "run", "leave"}, pc' = [pc EXCEPT ![h] = place],
         place = "idle" => frames[h] = <<>>,
         place = "begin" => Depth(h) < MaxDepth(h),
         place \in {"run", "leave"} => frames[h] # <<>>,
         ret' \in [Handlers -> Outcomes], told' \in {"none", "ok", "error"},
         task' \in [Handlers -> Task],
         \A g \in Handlers : task'[g].step = task[g].step /\ TaskFits(task'[g]),
         UNCHANGED <<wired, free, frames, alive, tx, log, table, written>>
  PROVE  Inv'
<1> USE DEF Inv, Depth
<1>1. TypeOK'
  BY DEF TypeOK, Task, MaxDepth
<1>2. Sequenced'
  BY DEF Sequenced
<1>3. PoolIsExact'
  BY DEF PoolIsExact, OpenTx
<1>4. LevelsFit'
  BY DEF TypeOK, LevelsFit, MaxDepth
<1>5. TasksApart'
  BY DEF TasksApart
<1> QED
  BY <1>1, <1>2, <1>3, <1>4, <1>5

\* Set, Do, a Do that cannot begin, and a closure that ends.
LEMMA PlainKeepsInv ==
  ASSUME Inv, NEW h \in Handlers, Do(h) \/ BeginFails(h) \/ Return(h)
  PROVE  Inv'
<1>1. /\ task \in [Handlers -> Task] /\ ret \in [Handlers -> Outcomes]
      /\ told \in {"none", "ok", "error"} /\ \A g \in Handlers : TaskFits(task[g])
  BY DEF Inv, TypeOK, Task, TasksApart
<1>2. CASE Do(h)
  <2>1. Depth(h) < MaxDepth(h)
    BY <1>2, DepthIsSmall DEF Do, Inv, LevelsFit
  <2> QED
    BY <1>1, <1>2, <2>1, MoveKeepsInv DEF Do
<1>3. CASE BeginFails(h)
  BY <1>1, <1>3, MoveKeepsInv DEF BeginFails, Answer
<1>4. CASE Return(h)
  <2>1. ret' \in [Handlers -> Outcomes]
    BY <1>1, <1>4 DEF Return
  <2>2. frames[h] # <<>>
    BY <1>4 DEF Return, Inv, TypeOK
  <2>3. Depth(h) \in Nat \ {0}
    BY <2>2, DepthIsSmall
  <2>4. /\ task' \in [Handlers -> Task]
        /\ \A g \in Handlers : task'[g].step = task[g].step /\ TaskFits(task'[g])
    <3>1. Expires(h, Depth(h))
      BY <1>4 DEF Return
    <3> QED
      BY <2>3, <3>1, ExpiresEffect
  <2> QED
    BY <1>1, <1>4, <2>1, <2>2, <2>4, MoveKeepsInv DEF Return
<1> QED
  BY <1>2, <1>3, <1>4

LEMMA LookupTask ==
  ASSUME NEW step \in {"root", "tx", "txDone"}, NEW late \in BOOLEAN
  PROVE  LET t == [NoTask EXCEPT !.step = step, !.late = late]
         IN  t \in Task /\ t.step = step /\ t.late = late /\ t.depth = 0
<1> DEFINE t == [NoTask EXCEPT !.step = step, !.late = late]
<1>1. NoTask \in Task
  BY DEF NoTask, Task
<1>2. /\ DOMAIN NoTask = {"step", "depth", "done", "late"}
      /\ NoTask.depth = 0 /\ NoTask.done = FALSE
  BY DEF NoTask
<1>3. t.step = step /\ t.late = late /\ t.depth = 0 /\ t.done = FALSE
  BY <1>2
<1>4. t \in Task
  BY <1>1 DEF Task
<1> QED
  BY <1>3, <1>4 DEF Task

\* Steps of the goroutine that leave the transaction and the table alone.
LEMMA TaskKeepsInv ==
  ASSUME Inv, NEW h \in Handlers, Escape(h) \/ Lookup(h) \/ TaskFails(h)
  PROVE  Inv'
<1>1. task \in [Handlers -> Task]
  BY DEF Inv, TypeOK, Task
<1>2. PICK t \in Task :
        /\ task' = [task EXCEPT ![h] = t]
        /\ t.step = "tx" => tx[h] = "open"
        /\ TaskFits(t)
  <2>1. CASE Escape(h)
    <3> DEFINE t == [NoTask EXCEPT !.step = "holds", !.depth = Depth(h)]
    <3>1. t \in Task /\ t.step = "holds" /\ t.late = FALSE
      BY DepthIsSmall DEF Task, NoTask
    <3> QED
      BY <2>1, <3>1 DEF Escape, TaskFits
  <2>2. CASE Lookup(h)
    <3> DEFINE step == IF ~TxFrom(h) THEN "root" ELSE IF tx[h] = "open" THEN "tx" ELSE "txDone"
               t == [NoTask EXCEPT !.step = step, !.late = task[h].late]
    <3>1. task[h].late \in BOOLEAN
      BY <1>1 DEF Task
    <3>2. step \in {"root", "tx", "txDone"}
      OBVIOUS
    <3>4. task' = [task EXCEPT ![h] = t]
      BY <2>2 DEF Lookup
    <3>5. step = "tx" => tx[h] = "open"
      OBVIOUS
    <3>6. task[h].late => step = "root"
      <4>1. task[h].late => task[h].done
        BY <2>2 DEF Lookup, Inv, TasksApart, TaskFits
      <4> QED
        BY <4>1 DEF TxFrom
    <3> HIDE DEF step
    <3>3. t \in Task /\ t.step = step /\ t.late = task[h].late /\ t.depth = 0
      BY <3>1, <3>2, LookupTask
    <3> HIDE DEF t
    <3>7. TaskFits(t)
      BY <3>2, <3>3, <3>6 DEF TaskFits
    <3> QED
      BY <3>3, <3>4, <3>5, <3>7
  <2>3. CASE TaskFails(h)
    <3>1. NoTask \in Task /\ NoTask.step = "none" /\ TaskFits(NoTask)
      BY DEF Task, NoTask, TaskFits
    <3> QED
      BY <2>3, <3>1 DEF TaskFails
  <2> QED
    BY <2>1, <2>2, <2>3
<1>3. UNCHANGED <<wired, free, pc, frames, ret, alive, tx, log, table, written, told>>
  BY DEF Escape, Lookup, TaskFails
<1>4. TypeOK'
  BY <1>1, <1>2, <1>3 DEF Inv, TypeOK, Depth, Task
<1>5. Sequenced' /\ PoolIsExact' /\ LevelsFit'
  BY <1>3 DEF Inv, Sequenced, PoolIsExact, OpenTx, LevelsFit, Depth
<1>6. TasksApart'
  BY <1>1, <1>2, <1>3 DEF Inv, TasksApart
<1> QED
  BY <1>4, <1>5, <1>6 DEF Inv

-----------------------------------------------------------------------------
\* A step of h that leaves h with frames F, log L, A live contexts and its
\* transaction at X keeps the invariant if these fit together.
LEMMA StepKeepsInv ==
  ASSUME Inv, NEW h \in Handlers,
         NEW F \in Seq(Nat), frames' = [frames EXCEPT ![h] = F],
         NEW L \in Seq(Nat), log' = [log EXCEPT ![h] = L],
         NEW A \in Nat, alive' = [alive EXCEPT ![h] = A],
         NEW X \in {"none", "open", "lost"}, tx' = [tx EXCEPT ![h] = X],
         NEW place \in {"idle", "begin", "run", "leave"}, pc' = [pc EXCEPT ![h] = place],
         Len(F) <= MaxDepth(h), \A i \in 1..Len(F) : F[i] \in 0..Len(L),
         F # <<>> => F[1] = 0, A <= Len(F),
         X = "none" <=> F = <<>>, X # "open" => L = <<>>,
         place \in {"run", "leave"} => X # "none", place = "idle" => F = <<>>,
         place = "begin" => Len(F) < MaxDepth(h),
         written' \in 0..MaxWrites, written <= written', table' \subseteq 1..written',
         \A i \in 1..Len(L) : L[i] \in 1..written',
         task' \in [Handlers -> Task],
         \A g \in Handlers \ {h} : task'[g] = task[g],
         task'[h].step = "tx" => X = "open",
         TaskFits(task'[h]),
         PoolIsExact', free' \in 0..Conns, ret' \in [Handlers -> Outcomes],
         told' \in {"none", "ok", "error"}, wired' = wired
  PROVE  Inv'
<1>1. /\ frames \in [Handlers -> Seq(Nat)] /\ log \in [Handlers -> Seq(Nat)]
      /\ alive \in [Handlers -> Nat] /\ tx \in [Handlers -> {"none", "open", "lost"}]
      /\ pc \in [Handlers -> {"idle", "begin", "run", "leave"}]
      /\ written \in Nat /\ written' \in Nat
  BY BoundsAreSane DEF Inv, Sequenced, TypeOK
<1>2. Sequenced'
  BY <1>1 DEF Sequenced
<1>3. ASSUME NEW g \in Handlers, g # h
      PROVE  /\ frames'[g] = frames[g] /\ log'[g] = log[g] /\ alive'[g] = alive[g]
             /\ tx'[g] = tx[g] /\ pc'[g] = pc[g]
  BY <1>1, <1>3
<1>4. frames'[h] = F /\ log'[h] = L /\ alive'[h] = A /\ tx'[h] = X /\ pc'[h] = place
  BY <1>1
<1>5. LevelsFit'
  BY <1>3, <1>4 DEF Inv, LevelsFit, Depth, MaxDepth
<1>6. TasksApart'
  BY <1>3, <1>4 DEF Inv, TasksApart
<1>7. ASSUME NEW g \in Handlers
      PROVE  /\ Len(frames'[g]) \in 0..MaxDepth(g)
             /\ \A i \in 1..Len(frames'[g]) : frames'[g][i] \in 0..Len(log'[g])
             /\ alive'[g] \in 0..Len(frames'[g])
             /\ \A i \in 1..Len(log'[g]) : log'[g][i] \in 1..written'
             /\ (tx'[g] = "none") = (frames'[g] = <<>>)
             /\ pc'[g] \in {"run", "leave"} => tx'[g] # "none"
  <2>1. CASE g = h
    <3>1. Len(F) \in 0..MaxDepth(h) /\ A \in 0..Len(F)
      BY LenProperties DEF MaxDepth
    <3> QED
      BY <1>4, <2>1, <3>1
  <2>2. CASE g # h
    <3>1. /\ Depth(g) \in 0..MaxDepth(g)
          /\ \A i \in 1..Depth(g) : frames[g][i] \in 0..Len(log[g])
          /\ alive[g] \in 0..Depth(g)
          /\ (tx[g] = "none") = (frames[g] = <<>>)
          /\ pc[g] \in {"run", "leave"} => tx[g] # "none"
      BY DEF Inv, TypeOK
    <3>2. \A i \in 1..Len(log[g]) : log[g][i] \in 1..written'
      <4>1. \A i \in 1..Len(log[g]) : log[g][i] \in 1..written
        BY DEF Inv, TypeOK
      <4>2. \A i \in 1..written : i \in 1..written'
        BY <1>1
      <4> QED
        BY <4>1, <4>2
    <3>3. /\ frames'[g] = frames[g] /\ log'[g] = log[g] /\ alive'[g] = alive[g]
          /\ tx'[g] = tx[g] /\ pc'[g] = pc[g]
      BY <1>3, <2>2
    <3> QED
      BY <3>1, <3>2, <3>3 DEF Depth
  <2> QED
    BY <2>1, <2>2
<1>8. /\ pc' \in [Handlers -> {"idle", "begin", "run", "leave"}]
      /\ tx' \in [Handlers -> {"none", "open", "lost"}]
      /\ wired' \in BOOLEAN
  BY <1>1 DEF Inv, TypeOK
<1>9. TypeOK'
  BY <1>7, <1>8 DEF TypeOK, Depth, Task, MaxDepth
<1> QED
  BY <1>2, <1>5, <1>6, <1>9 DEF Inv

\* What the invariant says of a task, for a step that leaves tasks alone.
LEMMA TasksAsTheyWere ==
  ASSUME Inv, NEW h \in Handlers
  PROVE  /\ task \in [Handlers -> Task] /\ task[h] \in Task
         /\ task[h].step = "tx" => tx[h] = "open"
         /\ TaskFits(task[h])
         /\ free \in 0..Conns /\ written \in 0..MaxWrites /\ table \subseteq 1..written
         /\ ret \in [Handlers -> Outcomes] /\ told \in {"none", "ok", "error"}
         /\ tx[h] \in {"none", "open", "lost"} /\ pc[h] \in {"idle", "begin", "run", "leave"}
         /\ alive[h] \in Nat /\ alive[h] <= Depth(h)
         /\ \A i \in 1..Depth(h) : frames[h][i] \in 0..Len(log[h])
         /\ \A i \in 1..Len(log[h]) : log[h][i] \in 1..written
         /\ frames[h] # <<>> => frames[h][1] = 0
         /\ tx[h] = "none" <=> frames[h] = <<>>
         /\ tx[h] # "open" => log[h] = <<>>
         /\ pc[h] \in {"run", "leave"} => tx[h] # "none"
         /\ pc[h] = "begin" => Depth(h) < MaxDepth(h)
         /\ pc[h] = "idle" => frames[h] = <<>>
BY DEF Inv, TypeOK, Sequenced, LevelsFit, TasksApart, Task

-----------------------------------------------------------------------------
LEMMA BeginKeepsInv ==
  ASSUME Inv, NEW h \in Handlers, Begin(h)
  PROVE  Inv'
<1> DEFINE F == <<0>>
           L == <<>>
<1>1. pc[h] = "begin" /\ frames[h] = <<>> /\ tx[h] = "none" /\ log[h] = <<>> /\ free > 0
  BY TasksAsTheyWere DEF Begin
<1>2. F \in Seq(Nat) /\ L \in Seq(Nat) /\ F # <<>> /\ Len(F) = 1 /\ F[1] = 0 /\ Len(L) = 0
  BY EmptySeq
<1>3. PoolIsExact' /\ free' \in 0..Conns
  <2>1. h \notin OpenTx /\ OpenTx' = OpenTx \cup {h}
    BY <1>1 DEF Begin, OpenTx, Inv, TypeOK
  <2> QED
    BY <1>1, <2>1, PoolTaken, TasksAsTheyWere, BoundsAreSane DEF Begin, Inv
<1>4. /\ UNCHANGED <<wired, ret, table, written, told, task>>
      /\ frames' = [frames EXCEPT ![h] = F] /\ log' = [log EXCEPT ![h] = L]
      /\ alive' = [alive EXCEPT ![h] = 1] /\ tx' = [tx EXCEPT ![h] = "open"]
      /\ pc' = [pc EXCEPT ![h] = "run"]
  BY <1>1 DEF Begin, Inv, Sequenced
<1>5. Len(F) <= MaxDepth(h)
  BY <1>2 DEF MaxDepth
<1> HIDE DEF F, L
<1>6. \A i \in 1..Len(F) : F[i] \in 0..Len(L)
  BY <1>2
<1>7. \A i \in 1..Len(L) : L[i] \in 1..written'
  BY <1>2
<1>8. /\ written' \in 0..MaxWrites /\ table' \subseteq 1..written' /\ written <= written'
      /\ task' \in [Handlers -> Task] /\ \A g \in Handlers \ {h} : task'[g] = task[g]
      /\ TaskFits(task'[h])
      /\ ret' \in [Handlers -> Outcomes] /\ told' \in {"none", "ok", "error"} /\ wired' = wired
  <2>1. written \in Nat
    BY TasksAsTheyWere, BoundsAreSane
  <2> QED
    BY <1>4, <2>1, TasksAsTheyWere
<1>9. 1 <= Len(F) /\ 1 \in Nat
  BY <1>2
<1> QED
  BY <1>2, <1>3, <1>4, <1>5, <1>6, <1>7, <1>8, <1>9, StepKeepsInv

LEMMA NestKeepsInv ==
  ASSUME Inv, NEW h \in Handlers, Nest(h)
  PROVE  Inv'
<1> DEFINE F == Append(frames[h], Len(log[h]))
<1>1. /\ pc[h] = "begin" /\ frames[h] # <<>> /\ tx[h] = "open" /\ alive[h] = Depth(h)
      /\ Depth(h) \in 1..2 /\ Depth(h) < MaxDepth(h)
      /\ frames[h] \in Seq(Nat) /\ log[h] \in Seq(Nat) /\ Len(log[h]) \in Nat
  BY TasksAsTheyWere, DepthIsSmall DEF Nest, Usable
<1>2. /\ F \in Seq(Nat) /\ F # <<>> /\ Len(F) = Depth(h) + 1
      /\ \A i \in 1..Depth(h) : F[i] = frames[h][i]
      /\ F[Depth(h) + 1] = Len(log[h])
  <2> DEFINE f == frames[h]
             n == Len(log[h])
  <2>1. f \in Seq(Nat) /\ n \in Nat
    BY <1>1
  <2> HIDE DEF f, n
  <2>2. /\ Append(f, n) \in Seq(Nat) /\ Append(f, n) # <<>> /\ Len(Append(f, n)) = Len(f) + 1
        /\ \A i \in 1..Len(f) : Append(f, n)[i] = f[i]
        /\ Append(f, n)[Len(f) + 1] = n
    BY <2>1, AppendProperties
  <2> QED
    BY <2>2 DEF f, n, Depth
<1>3. /\ task' = task /\ wired' = wired /\ ret' = ret /\ told' = told /\ written' = written
      /\ table' = table /\ frames' = [frames EXCEPT ![h] = F] /\ log' = [log EXCEPT ![h] = log[h]]
      /\ alive' = [alive EXCEPT ![h] = Depth(h) + 1] /\ tx' = [tx EXCEPT ![h] = "open"]
      /\ pc' = [pc EXCEPT ![h] = "run"] /\ free' = free /\ PoolIsExact'
  BY <1>1 DEF Nest, Inv, Sequenced, TypeOK, PoolIsExact, OpenTx
<1> HIDE DEF F
<1>4. /\ \A i \in 1..Len(F) : F[i] \in 0..Len(log[h])
      /\ F[1] = 0
  <2>1. \A i \in 1..Depth(h) : frames[h][i] \in 0..Len(log[h])
    BY TasksAsTheyWere
  <2>2. frames[h][1] = 0
    BY <1>1, TasksAsTheyWere
  <2>3. ASSUME NEW i \in 1..Len(F) PROVE F[i] \in 0..Len(log[h])
    <3>1. CASE i = Depth(h) + 1
      BY <1>1, <1>2, <3>1
    <3>2. CASE i # Depth(h) + 1
      <4>1. i \in 1..Depth(h)
        BY <1>1, <1>2, <3>2
      <4> QED
        BY <1>2, <2>1, <4>1
    <3> QED
      BY <3>1, <3>2
  <2>4. F[1] = 0
    <3>1. 1 \in 1..Depth(h)
      BY <1>1
    <3> QED
      BY <1>2, <2>2, <3>1
  <2> QED
    BY <2>3, <2>4
<1>5. /\ written' \in 0..MaxWrites /\ table' \subseteq 1..written' /\ written <= written'
      /\ task' \in [Handlers -> Task] /\ \A g \in Handlers \ {h} : task'[g] = task[g]
      /\ TaskFits(task'[h])
      /\ ret' \in [Handlers -> Outcomes] /\ told' \in {"none", "ok", "error"} /\ wired' = wired
      /\ \A i \in 1..Len(log[h]) : log[h][i] \in 1..written'
      /\ free' \in 0..Conns
  <2>1. written \in Nat
    BY TasksAsTheyWere, BoundsAreSane
  <2> QED
    BY <1>3, <2>1, TasksAsTheyWere
<1>6. Len(F) <= MaxDepth(h) /\ Depth(h) + 1 \in Nat /\ Depth(h) + 1 <= Len(F)
  <2>1. MaxDepth(h) \in Nat
    BY DepthIsSmall
  <2>2. Depth(h) \in Nat /\ Depth(h) < MaxDepth(h) /\ Len(F) = Depth(h) + 1
    BY <1>1, <1>2
  <2> QED
    BY <2>1, <2>2
<1> QED
  BY <1>1, <1>2, <1>3, <1>4, <1>5, <1>6, StepKeepsInv

\* A row at the end of the log of an open transaction, by its closure or by
\* the goroutine that kept its context.
LEMMA RowKeepsInv ==
  ASSUME Inv, NEW h \in Handlers, tx[h] = "open", written < MaxWrites, written' = written + 1,
         log' = [log EXCEPT ![h] = Append(@, written')],
         task' \in [Handlers -> Task], \A g \in Handlers \ {h} : task'[g] = task[g],
         TaskFits(task'[h]),
         UNCHANGED <<wired, free, pc, frames, ret, alive, tx, table, told>>
  PROVE  Inv'
<1> DEFINE L == Append(log[h], written')
<1>1. /\ written \in Nat /\ written' \in 0..MaxWrites /\ written <= written'
      /\ table \subseteq 1..written /\ written' \in Nat
  BY TasksAsTheyWere, BoundsAreSane
<1>2. /\ frames[h] \in Seq(Nat) /\ log[h] \in Seq(Nat) /\ Len(log[h]) \in Nat
      /\ Len(frames[h]) <= MaxDepth(h) /\ Len(frames[h]) \in Nat
  BY DepthIsSmall DEF Depth
<1>3. /\ L \in Seq(Nat) /\ Len(L) = Len(log[h]) + 1
      /\ \A i \in 1..Len(log[h]) : L[i] = log[h][i]
      /\ L[Len(log[h]) + 1] = written'
  BY <1>1, <1>2, AppendProperties
<1>4. /\ log' = [log EXCEPT ![h] = L] /\ frames' = [frames EXCEPT ![h] = frames[h]]
      /\ alive' = [alive EXCEPT ![h] = alive[h]] /\ tx' = [tx EXCEPT ![h] = "open"]
      /\ pc' = [pc EXCEPT ![h] = pc[h]] /\ PoolIsExact'
  BY DEF Inv, Sequenced, TypeOK, PoolIsExact, OpenTx
<1> HIDE DEF L
<1>5. \A i \in 1..Len(frames[h]) : frames[h][i] \in 0..Len(L)
  <2>1. \A i \in 1..Len(frames[h]) : frames[h][i] \in 0..Len(log[h])
    BY TasksAsTheyWere DEF Depth
  <2>2. \A k \in 0..Len(log[h]) : k \in 0..Len(L)
    BY <1>2, <1>3
  <2> QED
    BY <2>1, <2>2
<1>6. \A i \in 1..Len(L) : L[i] \in 1..written'
  <2>1. \A i \in 1..Len(log[h]) : log[h][i] \in 1..written
    BY TasksAsTheyWere
  <2>2. ASSUME NEW i \in 1..Len(L) PROVE L[i] \in 1..written'
    <3>1. CASE i = Len(log[h]) + 1
      BY <1>1, <1>3, <3>1
    <3>2. CASE i # Len(log[h]) + 1
      <4>1. i \in 1..Len(log[h])
        BY <1>2, <1>3, <3>2
      <4>2. L[i] \in 1..written
        BY <1>3, <2>1, <4>1
      <4> QED
        BY <1>1, <4>2
    <3> QED
      BY <3>1, <3>2
  <2> QED
    BY <2>2
<1>7. table' \subseteq 1..written'
  BY <1>1
<1>8. /\ ret \in [Handlers -> Outcomes] /\ told \in {"none", "ok", "error"}
      /\ frames[h] # <<>> /\ frames[h][1] = 0 /\ alive[h] \in Nat /\ alive[h] <= Len(frames[h])
      /\ pc[h] \in {"idle", "begin", "run", "leave"} /\ free \in 0..Conns /\ pc[h] # "idle"
      /\ pc[h] = "begin" => Len(frames[h]) < MaxDepth(h)
  BY TasksAsTheyWere DEF Depth
<1> QED
  BY <1>1, <1>2, <1>3, <1>4, <1>5, <1>6, <1>7, <1>8, StepKeepsInv

LEMMA WriteKeepsInv ==
  ASSUME Inv, NEW h \in Handlers, Write(h)
  PROVE  Inv'
BY RowKeepsInv, TasksAsTheyWere DEF Write, Usable

LEMMA ExecuteKeepsInv ==
  ASSUME Inv, NEW h \in Handlers, Execute(h)
  PROVE  Inv'
<1>1. NoTask \in Task /\ NoTask.step = "none" /\ TaskFits(NoTask)
  BY DEF Task, NoTask, TaskFits
<1>2. /\ task' \in [Handlers -> Task] /\ \A g \in Handlers \ {h} : task'[g] = task[g]
      /\ task'[h] = NoTask
  BY <1>1, TasksAsTheyWere DEF Execute
<1>3. CASE task[h].step = "tx" /\ log' = [log EXCEPT ![h] = Append(@, written')] /\ UNCHANGED table
  BY <1>1, <1>2, <1>3, RowKeepsInv, TasksAsTheyWere DEF Execute
<1>4. CASE table' = table \cup {written'} /\ UNCHANGED log
  <2>1. /\ written \in 0..MaxWrites /\ written < MaxWrites /\ written' = written + 1
        /\ table \subseteq 1..written
    BY TasksAsTheyWere DEF Execute
  <2>2. written' \in 0..MaxWrites /\ written <= written' /\ table' \subseteq 1..written'
    BY <1>4, <2>1, BoundsAreSane
  <2>3. /\ log' = [log EXCEPT ![h] = log[h]] /\ frames' = [frames EXCEPT ![h] = frames[h]]
        /\ alive' = [alive EXCEPT ![h] = alive[h]] /\ tx' = [tx EXCEPT ![h] = tx[h]]
        /\ pc' = [pc EXCEPT ![h] = pc[h]] /\ PoolIsExact'
        /\ UNCHANGED <<wired, free, ret, told>>
    BY <1>4 DEF Execute, Inv, Sequenced, TypeOK, PoolIsExact, OpenTx
  <2>4. \A i \in 1..Len(log[h]) : log[h][i] \in 1..written'
    BY <2>1, TasksAsTheyWere, BoundsAreSane
  <2>5. /\ frames[h] \in Seq(Nat) /\ log[h] \in Seq(Nat) /\ Len(frames[h]) <= MaxDepth(h)
    BY DepthIsSmall DEF Depth
  <2>6. /\ ret \in [Handlers -> Outcomes] /\ told \in {"none", "ok", "error"}
        /\ alive[h] \in Nat /\ alive[h] <= Len(frames[h])
        /\ pc[h] \in {"idle", "begin", "run", "leave"} /\ free \in 0..Conns
        /\ tx[h] \in {"none", "open", "lost"}
        /\ frames[h] # <<>> => frames[h][1] = 0
        /\ \A i \in 1..Len(frames[h]) : frames[h][i] \in 0..Len(log[h])
        /\ tx[h] = "none" <=> frames[h] = <<>>
        /\ tx[h] # "open" => log[h] = <<>>
        /\ pc[h] \in {"run", "leave"} => tx[h] # "none"
        /\ pc[h] = "begin" => Len(frames[h]) < MaxDepth(h)
        /\ pc[h] = "idle" => frames[h] = <<>>
    BY TasksAsTheyWere DEF Depth
  <2>7. task'[h].step # "tx" /\ TaskFits(task'[h])
    BY <1>1, <1>2
  <2> QED
    BY <1>2, <2>2, <2>3, <2>4, <2>5, <2>6, <2>7, StepKeepsInv
<1> QED
  BY <1>3, <1>4 DEF Execute

LEMMA ContextEndsKeepsInv ==
  ASSUME Inv, NEW h \in Handlers, ContextEnds(h)
  PROVE  Inv'
<1>1. PICK n \in 0..Depth(h) : n < alive[h] /\ alive' = [alive EXCEPT ![h] = n]
  BY DEF ContextEnds
<1>2. UNCHANGED <<wired, free, pc, frames, ret, tx, log, table, written, told, task>>
  BY DEF ContextEnds
<1>3. n \in Nat /\ n \in 0..Depth(h)
  BY DepthIsSmall
<1>4. TypeOK'
  BY <1>1, <1>2, <1>3 DEF Inv, TypeOK, Sequenced, Depth, MaxDepth
<1> QED
  BY <1>1, <1>2, <1>3, <1>4
  DEF Inv, Sequenced, PoolIsExact, OpenTx, LevelsFit, TasksApart, Depth, MaxDepth

LEMMA LoseKeepsInv ==
  ASSUME Inv, NEW h \in Handlers, Lose(h)
  PROVE  Inv'
<1> DEFINE F == [i \in 1..Depth(h) |-> 0]
           L == <<>>
<1>1. /\ tx[h] = "open" /\ frames[h] # <<>> /\ Depth(h) \in 1..2 /\ Depth(h) <= MaxDepth(h)
      /\ pc[h] # "idle" /\ (pc[h] = "begin" => Depth(h) < MaxDepth(h))
      /\ pc[h] \in {"idle", "begin", "run", "leave"}
  BY TasksAsTheyWere, DepthIsSmall DEF Lose
<1>2. /\ F \in Seq(Nat) /\ Len(F) = Depth(h) /\ \A i \in 1..Len(F) : F[i] = 0
      /\ F # <<>> /\ L \in Seq(Nat) /\ Len(L) = 0 /\ L = <<>>
  <2>1. F \in Seq(Nat) /\ Len(F) = Depth(h)
    BY <1>1
  <2> QED
    BY <1>1, <2>1, EmptySeq
<1>3. /\ PoolIsExact' /\ free' \in 0..Conns /\ log' = [log EXCEPT ![h] = L]
      /\ task' \in [Handlers -> Task] /\ \A g \in Handlers \ {h} : task'[g] = task[g]
      /\ task'[h].step # "tx"
      /\ TaskFits(task'[h])
  <2>1. tx' = [tx EXCEPT ![h] = "lost"] /\ Released(h, task)
    BY DEF Lose
  <2>3. /\ PoolIsExact' /\ free' \in 0..Conns /\ log' = [log EXCEPT ![h] = <<>>]
        /\ task' \in [Handlers -> Task] /\ \A g \in Handlers \ {h} : task'[g] = task[g]
        /\ task'[h].step # "tx" /\ TaskFits(task'[h])
    BY <2>1, ReleasedEffect
  <2> QED
    BY <2>3
<1>4. /\ frames' = [frames EXCEPT ![h] = F] /\ tx' = [tx EXCEPT ![h] = "lost"]
      /\ alive' = [alive EXCEPT ![h] = alive[h]] /\ pc' = [pc EXCEPT ![h] = pc[h]]
      /\ UNCHANGED <<wired, ret, table, written, told>>
  BY DEF Lose, Inv, TypeOK, Sequenced
<1> HIDE DEF F, L
<1>5. /\ \A i \in 1..Len(F) : F[i] \in 0..Len(L)
      /\ F[1] = 0 /\ \A i \in 1..Len(L) : L[i] \in 1..written'
  BY <1>1, <1>2
<1>6. /\ written' \in 0..MaxWrites /\ table' \subseteq 1..written' /\ written <= written'
      /\ ret' \in [Handlers -> Outcomes] /\ told' \in {"none", "ok", "error"} /\ wired' = wired
      /\ alive[h] \in Nat /\ alive[h] <= Len(F)
  <2>1. written \in Nat
    BY TasksAsTheyWere, BoundsAreSane
  <2> QED
    BY <1>2, <1>4, <2>1, TasksAsTheyWere
<1>7. /\ Len(F) <= MaxDepth(h) /\ (pc[h] = "begin" => Len(F) < MaxDepth(h))
      /\ "lost" \in {"none", "open", "lost"} /\ ~("lost" = "none") /\ pc[h] # "idle"
  BY <1>1, <1>2
<1> QED
  BY <1>1, <1>2, <1>3, <1>4, <1>5, <1>6, <1>7, StepKeepsInv

\* The inner Do is over: its frame is dropped, and the log is as long as the
\* outermost frame asks.
LEMMA ResumeKeepsInv ==
  ASSUME Inv, NEW h \in Handlers, Ended(h), NEW answer \in {"ok", "error"}, Resume(h, answer),
         NEW L \in Seq(Nat), log' = [log EXCEPT ![h] = L],
         tx[h] # "open" => L = <<>>, \A i \in 1..Len(L) : L[i] \in 1..written,
         NEW place \in {"run", "leave"}, pc' = [pc EXCEPT ![h] = place],
         ret' \in [Handlers -> Outcomes],
         task' \in [Handlers -> Task], \A g \in Handlers \ {h} : task'[g] = task[g],
         task'[h].step = task[h].step, TaskFits(task'[h]),
         UNCHANGED free
  PROVE  Inv'
<1> DEFINE F == SubSeq(frames[h], 1, Depth(h) - 1)
           A == OuterAlive(h)
<1>1. /\ Depth(h) = 2 /\ frames[h] \in Seq(Nat) /\ frames[h] # <<>> /\ frames[h][1] = 0
      /\ tx[h] \in {"open", "lost"} /\ MaxDepth(h) \in 1..2
  BY TasksAsTheyWere, DepthIsSmall DEF Ended
<1>2. F \in Seq(Nat) /\ Len(F) = 1 /\ F[1] = 0
  <2>1. \A i \in 1..1 : frames[h][i] \in Nat
    BY <1>1
  <2> QED
    BY <1>1, <2>1, SubSeqProperties
<1>3. A \in Nat /\ A <= 1
  BY <1>1, TasksAsTheyWere DEF OuterAlive
<1>4. /\ frames' = [frames EXCEPT ![h] = F] /\ alive' = [alive EXCEPT ![h] = A]
      /\ tx' = [tx EXCEPT ![h] = tx[h]] /\ PoolIsExact'
      /\ UNCHANGED <<wired, table, written>> /\ told' = answer
  BY DEF Resume, OuterFrames, Answer, Inv, TypeOK, PoolIsExact, OpenTx
<1> HIDE DEF F, A
<1>5. F # <<>> /\ Len(L) \in Nat /\ \A i \in 1..Len(F) : F[i] \in 0..Len(L)
  <2>1. Len(L) \in Nat
    BY LenProperties
  <2>2. F # <<>>
    <3>1. Len(F) # Len(<<>>)
      BY <1>2, EmptySeq
    <3> QED
      BY <3>1, Zenon
  <2>3. \A i \in 1..Len(F) : i = 1
    BY <1>2
  <2> QED
    BY <1>2, <2>1, <2>2, <2>3
<1>6. /\ written' \in 0..MaxWrites /\ table' \subseteq 1..written' /\ written <= written'
      /\ told' \in {"none", "ok", "error"} /\ free' \in 0..Conns
      /\ task'[h].step = "tx" => tx[h] = "open"
      /\ TaskFits(task'[h])
      /\ \A i \in 1..Len(L) : L[i] \in 1..written'
  <2>1. written \in Nat
    BY TasksAsTheyWere, BoundsAreSane
  <2> QED
    BY <1>4, <2>1, TasksAsTheyWere
<1>7. Len(F) <= MaxDepth(h) /\ A <= Len(F) /\ (tx[h] = "none" <=> F = <<>>)
  BY <1>1, <1>2, <1>3, <1>5
<1> QED
  BY <1>1, <1>2, <1>3, <1>4, <1>5, <1>6, <1>7, StepKeepsInv

LEMMA KeepKeepsInv ==
  ASSUME Inv, NEW h \in Handlers, Keep(h)
  PROVE  Inv'
<1>1. /\ Ended(h) /\ Resume(h, "ok") /\ pc' = [pc EXCEPT ![h] = "run"]
      /\ UNCHANGED <<ret, log, task, free>>
  BY DEF Keep, Resume
<1>2. log' = [log EXCEPT ![h] = log[h]] /\ log[h] \in Seq(Nat)
  BY <1>1 DEF Inv, Sequenced
<1>3. /\ ret' \in [Handlers -> Outcomes] /\ task' \in [Handlers -> Task]
      /\ \A g \in Handlers \ {h} : task'[g] = task[g]
      /\ task'[h].step = task[h].step /\ TaskFits(task'[h])
  BY <1>1, TasksAsTheyWere
<1>4. tx[h] # "open" => log[h] = <<>>
  BY TasksAsTheyWere
<1>5. \A i \in 1..Len(log[h]) : log[h][i] \in 1..written
  BY TasksAsTheyWere
<1> QED
  BY <1>1, <1>2, <1>3, <1>4, <1>5, ResumeKeepsInv

\* What is left of the log when the inner Do is taken back: a prefix of it.
LEMMA TakenBackIsPrefix ==
  ASSUME Inv, NEW h \in Handlers, Depth(h) > 0
  PROVE  /\ TakenBack(h) \in Seq(Nat) /\ Len(TakenBack(h)) <= Len(log[h])
         /\ \A i \in 1..Len(TakenBack(h)) : TakenBack(h)[i] = log[h][i]
         /\ Usable(h) => Len(TakenBack(h)) = frames[h][Depth(h)]
<1> DEFINE n == frames[h][Depth(h)]
<1>1. /\ log[h] \in Seq(Nat) /\ Len(log[h]) \in Nat /\ n \in 0..Len(log[h])
  BY DepthIsSmall, TasksAsTheyWere
<1>2. \A i \in 1..n : log[h][i] \in Nat
  <2>1. \A i \in 1..Len(log[h]) : log[h][i] \in Nat
    BY <1>1
  <2> QED
    BY <1>1, <2>1
<1> HIDE DEF n
<1>3. /\ SubSeq(log[h], 1, n) \in Seq(Nat) /\ Len(SubSeq(log[h], 1, n)) = n
      /\ \A i \in 1..n : SubSeq(log[h], 1, n)[i] = log[h][i]
  BY <1>1, <1>2, SubSeqProperties
<1> QED
  BY <1>1, <1>3 DEF TakenBack, n

LEMMA RollbackToKeepsInv ==
  ASSUME Inv, NEW h \in Handlers, RollbackTo(h)
  PROVE  Inv'
<1> DEFINE L == TakenBack(h)
<1>1. /\ Ended(h) /\ Resume(h, "error") /\ log' = [log EXCEPT ![h] = L]
      /\ UNCHANGED free /\ Depth(h) \in 1..2
  BY DepthIsSmall DEF RollbackTo, Resume, Ended
<1>2. /\ L \in Seq(Nat) /\ Len(L) \in Nat /\ Len(log[h]) \in Nat /\ Len(L) <= Len(log[h])
      /\ \A i \in 1..Len(L) : L[i] = log[h][i]
  BY <1>1, TakenBackIsPrefix, DepthIsSmall, LenProperties
<1>3. tx[h] # "open" => L = <<>>
  BY TasksAsTheyWere DEF TakenBack, Usable
<1> HIDE DEF L
<1>4. \A i \in 1..Len(L) : L[i] \in 1..written
  <2>1. \A i \in 1..Len(log[h]) : log[h][i] \in 1..written
    BY TasksAsTheyWere
  <2>2. \A i \in 1..Len(L) : i \in 1..Len(log[h])
    BY <1>2
  <2> QED
    BY <1>2, <2>1, <2>2
<1>5. CASE ret[h] = "error" /\ pc' = [pc EXCEPT ![h] = "run"]
           /\ ret' = [ret EXCEPT ![h] = "nil"] /\ UNCHANGED task
  <2>1. /\ ret' \in [Handlers -> Outcomes] /\ task' \in [Handlers -> Task]
        /\ \A g \in Handlers \ {h} : task'[g] = task[g]
        /\ task'[h].step = task[h].step /\ TaskFits(task'[h])
    BY <1>5, TasksAsTheyWere DEF Outcomes
  <2> QED
    BY <1>1, <1>2, <1>3, <1>4, <1>5, <2>1, ResumeKeepsInv
<1>6. CASE Expires(h, Depth(h) - 1) /\ UNCHANGED <<pc, ret>>
  <2>1. pc' = [pc EXCEPT ![h] = "leave"] /\ ret' \in [Handlers -> Outcomes]
    BY <1>1, <1>6, TasksAsTheyWere DEF Ended, Inv, TypeOK
  <2>2. Depth(h) - 1 \in Nat \ {0} /\ Expires(h, Depth(h) - 1)
    BY <1>1, <1>6, DepthIsSmall DEF Ended
  <2>3. /\ task' \in [Handlers -> Task]
        /\ \A g \in Handlers \ {h} : task'[g] = task[g]
        /\ task'[h].step = task[h].step /\ TaskFits(task'[h])
    BY <2>2, ExpiresEffect
  <2> QED
    BY <1>1, <1>2, <1>3, <1>4, <2>1, <2>3, ResumeKeepsInv
<1> QED
  BY <1>5, <1>6 DEF RollbackTo

\* The outermost Do is over, one way or the other.
LEMMA EndKeepsInv ==
  ASSUME Inv, NEW h \in Handlers, End(h),
         table' \subseteq 1..written, told' \in {"none", "ok", "error"}
  PROVE  Inv'
<1> DEFINE E == <<>>
<1>1. E \in Seq(Nat) /\ Len(E) = 0 /\ E = <<>>
  BY EmptySeq
<1>2. /\ frames' = [frames EXCEPT ![h] = E] /\ alive' = [alive EXCEPT ![h] = 0]
      /\ tx' = [tx EXCEPT ![h] = "none"] /\ pc' = [pc EXCEPT ![h] = "idle"]
      /\ Released(h, task) /\ ret' = [ret EXCEPT ![h] = "nil"]
      /\ wired' = wired /\ written' = written
  BY DEF End
<1>3. /\ PoolIsExact' /\ free' \in 0..Conns /\ log' = [log EXCEPT ![h] = E]
      /\ task' \in [Handlers -> Task] /\ \A g \in Handlers \ {h} : task'[g] = task[g]
      /\ task'[h].step # "tx"
      /\ TaskFits(task'[h])
  <2>2. /\ PoolIsExact' /\ free' \in 0..Conns /\ log' = [log EXCEPT ![h] = <<>>]
        /\ task' \in [Handlers -> Task] /\ \A g \in Handlers \ {h} : task'[g] = task[g]
        /\ task'[h].step # "tx" /\ TaskFits(task'[h])
    BY <1>2, ReleasedEffect
  <2> QED
    BY <2>2
<1> HIDE DEF E
<1>4. /\ \A i \in 1..Len(E) : E[i] \in 0..Len(E)
      /\ \A i \in 1..Len(E) : E[i] \in 1..written'
      /\ Len(E) <= MaxDepth(h) /\ 0 <= Len(E) /\ 0 \in Nat
  BY <1>1 DEF MaxDepth
<1>5. /\ written' \in 0..MaxWrites /\ table' \subseteq 1..written' /\ written <= written'
      /\ ret' \in [Handlers -> Outcomes]
  <2>1. written \in Nat
    BY TasksAsTheyWere, BoundsAreSane
  <2> QED
    BY <1>2, <2>1, TasksAsTheyWere DEF Outcomes
<1> QED
  BY <1>1, <1>2, <1>3, <1>4, <1>5, StepKeepsInv

LEMMA OutermostKeepsInv ==
  ASSUME Inv, NEW h \in Handlers, Commit(h) \/ Rollback(h)
  PROVE  Inv'
<1>1. End(h) /\ told' \in {"none", "ok", "error"}
  BY DEF Commit, Rollback, Answer
<1>2. table' \subseteq 1..written
  BY TasksAsTheyWere DEF Commit, Rollback
<1> QED
  BY <1>1, <1>2, EndKeepsInv

LEMMA OthersKeepInv ==
  ASSUME Inv, Set \/ \E h \in Handlers : DoUnwired(h)
  PROVE  Inv'
<1>1. /\ UNCHANGED <<free, pc, frames, ret, alive, tx, log, table, written, task>>
      /\ wired' = TRUE \/ wired' = wired
      /\ told' \in {"none", "ok", "error"}
  BY DEF Set, DoUnwired, Answer, Inv, TypeOK
<1>2. wired' \in BOOLEAN
  <2>1. CASE wired' = TRUE
    BY <2>1, Zenon
  <2>2. CASE wired' = wired
    BY <2>2 DEF Inv, TypeOK
  <2> QED
    BY <1>1, <2>1, <2>2
<1>3. TypeOK'
  BY <1>1, <1>2 DEF Inv, TypeOK, Depth, MaxDepth
<1> QED
  BY <1>1, <1>3 DEF Inv, Sequenced, PoolIsExact, OpenTx, LevelsFit, TasksApart, Depth, MaxDepth

-----------------------------------------------------------------------------
LEMMA InvNext == Inv /\ [Next]_vars => Inv'
<1> SUFFICES ASSUME Inv, [Next]_vars PROVE Inv'
  OBVIOUS
<1>1. CASE Set
  BY <1>1, OthersKeepInv
<1>2. ASSUME NEW h \in Handlers,
             \/ Do(h) \/ DoUnwired(h) \/ Begin(h) \/ Nest(h) \/ BeginFails(h)
             \/ Write(h) \/ ContextEnds(h) \/ Lose(h) \/ Return(h) \/ WindUp(h)
             \/ Escape(h) \/ Lookup(h) \/ Execute(h) \/ TaskFails(h)
      PROVE  Inv'
  <2>1. CASE Do(h) \/ BeginFails(h) \/ Return(h)
    BY <2>1, PlainKeepsInv
  <2>2. CASE DoUnwired(h)
    BY <2>2, OthersKeepInv
  <2>3. CASE Begin(h)
    BY <2>3, BeginKeepsInv
  <2>4. CASE Nest(h)
    BY <2>4, NestKeepsInv
  <2>5. CASE Write(h)
    BY <2>5, WriteKeepsInv
  <2>6. CASE ContextEnds(h)
    BY <2>6, ContextEndsKeepsInv
  <2>7. CASE Lose(h)
    BY <2>7, LoseKeepsInv
  <2>8. CASE WindUp(h)
    BY <2>8, KeepKeepsInv, RollbackToKeepsInv, OutermostKeepsInv DEF WindUp
  <2>9. CASE Escape(h) \/ Lookup(h) \/ TaskFails(h)
    BY <2>9, TaskKeepsInv
  <2>10. CASE Execute(h)
    BY <2>10, ExecuteKeepsInv
  <2> QED
    BY <1>2, <2>1, <2>2, <2>3, <2>4, <2>5, <2>6, <2>7, <2>8, <2>9, <2>10
<1>3. CASE UNCHANGED vars
  BY <1>3 DEF vars, Inv, TypeOK, Sequenced, PoolIsExact, OpenTx, LevelsFit, TasksApart,
              Depth, MaxDepth
<1> QED
  BY <1>1, <1>2, <1>3 DEF Next

LEMMA InvHolds == Spec => []Inv
<1> QED
  BY InvInit, InvNext, PTL DEF Spec

\* The types of the state: in particular no more connections are handed out
\* than SetMaxOpenConns allows, a frame never points past the log, and a
\* closure runs only under a transaction (Do, run).
THEOREM TypeCorrect == Spec => []TypeOK
<1>1. Inv => TypeOK
  BY DEF Inv
<1> QED
  BY <1>1, InvHolds, PTL

-----------------------------------------------------------------------------
\* What ConnectionGranted rests on, besides fairness: with any pool, a Do that
\* waits for a connection waits for one that goes on without a further one, so
\* that Do's never wait for each other in a circle (Do, Begin and Nest).
THEOREM PoolNeverSticks == Spec => []PoolIsNotStuck
<1>1. Inv => PoolIsNotStuck
  <2> SUFFICES ASSUME Inv, NEW h \in Handlers, WaitsForConnection(h)
               PROVE  /\ tx[h] = "none"
                      /\ free = 0 =>
                           \E g \in Handlers : tx[g] = "open" /\ ~WaitsForConnection(g)
    BY DEF PoolIsNotStuck
  <2>1. \A g \in Handlers : tx[g] = "none" <=> frames[g] = <<>>
    BY DEF Inv, TypeOK
  <2>2. tx[h] = "none"
    BY <2>1 DEF WaitsForConnection
  <2>3. ASSUME free = 0 PROVE \E g \in Handlers : tx[g] = "open" /\ ~WaitsForConnection(g)
    <3>1. Cardinality(OpenTx) \in Nat /\ Cardinality(OpenTx) = Conns
      BY <2>3, FS_CardinalityType, BoundsAreSane DEF Inv, PoolIsExact
    <3>2. OpenTx # {}
      BY <3>1, FS_EmptySet, BoundsAreSane
    <3>3. PICK g \in Handlers : tx[g] = "open"
      BY <3>2 DEF OpenTx
    <3> QED
      BY <2>1, <3>3 DEF WaitsForConnection
  <2> QED
    BY <2>2, <2>3
<1> QED
  BY <1>1, InvHolds, PTL

-----------------------------------------------------------------------------
\* A late task of h, and what one step of any handler g does to it.
LateIsApart(h) ==
  task'[h].step # "txDone" /\ (task'[h] # task[h] => log' = log)

LEMMA LateStep ==
  ASSUME Inv, [Next]_vars, NEW h \in Handlers, task[h].late
  PROVE  LateIsApart(h)
<1>1. /\ task[h].step \in {"holds", "root"} /\ task \in [Handlers -> Task]
      /\ task[h].step = "holds" => ~TxFrom(h)
  BY TasksAsTheyWere DEF TaskFits, TxFrom
<1>2. CASE UNCHANGED task
  BY <1>1, <1>2 DEF LateIsApart
<1>3. ASSUME NEW g \in Handlers, Lose(g) \/ Commit(g) \/ Rollback(g)
      PROVE  task'[h] = task[h]
  <2>1. /\ Released(g, task)
        /\ tx' = [tx EXCEPT ![g] = "none"] \/ tx' = [tx EXCEPT ![g] = "lost"]
    BY <1>3 DEF Lose, Commit, Rollback, End
  <2>2. /\ \A k \in Handlers \ {g} : task'[k] = task[k]
        /\ task[g].step # "tx" => task'[g] = task[g]
    BY <2>1, ReleasedEffect
  <2> QED
    BY <1>1, <2>2
<1>4. ASSUME NEW g \in Handlers, Return(g)
      PROVE  task'[h] = task[h]
  <2>1. Depth(g) \in 1..2
    BY <1>4, DepthIsSmall, TasksAsTheyWere DEF Return
  <2>2. Expires(g, Depth(g)) /\ Depth(g) \in Nat \ {0}
    BY <1>4, <2>1 DEF Return
  <2> QED
    BY <2>2, ExpiresEffect
<1>5. ASSUME NEW g \in Handlers, RollbackTo(g)
      PROVE  task'[h] = task[h]
  <2>1. Depth(g) = 2
    BY <1>5, DepthIsSmall DEF RollbackTo, Ended
  <2>2. CASE UNCHANGED task
    BY <2>2
  <2>3. CASE Expires(g, Depth(g) - 1)
    <3>1. Depth(g) - 1 \in Nat \ {0}
      BY <2>1
    <3> QED
      BY <2>3, <3>1, ExpiresEffect
  <2> QED
    BY <1>5, <2>2, <2>3 DEF RollbackTo
<1>6. ASSUME NEW g \in Handlers, Escape(g) \/ Lookup(g) \/ TaskFails(g)
      PROVE  LateIsApart(h)
  <2>1. log' = log
    BY <1>6 DEF Escape, Lookup, TaskFails
  <2>2. NoTask.step = "none"
    BY DEF NoTask
  <2>3. CASE Escape(g) \/ TaskFails(g)
    BY <1>1, <2>1, <2>2, <2>3 DEF LateIsApart, Escape, TaskFails
  <2>4. CASE Lookup(g) /\ g # h
    BY <1>1, <2>1, <2>4 DEF LateIsApart, Lookup
  <2>5. CASE Lookup(h)
    <3>1. task'[h] = [NoTask EXCEPT !.step = "root", !.late = task[h].late]
      BY <1>1, <2>5 DEF Lookup
    <3>2. task'[h].step = "root"
      BY <3>1 DEF NoTask
    <3> QED
      BY <2>1, <3>2 DEF LateIsApart
  <2> QED
    BY <1>6, <2>3, <2>4, <2>5
<1>7. ASSUME NEW g \in Handlers, Execute(g)
      PROVE  LateIsApart(h)
  <2>1. NoTask.step = "none"
    BY DEF NoTask
  <2> QED
    BY <1>1, <1>7, <2>1 DEF LateIsApart, Execute
<1>8. task'[h] = task[h] => LateIsApart(h)
  BY <1>1 DEF LateIsApart
<1> QED
  BY <1>2, <1>3, <1>4, <1>5, <1>6, <1>7, <1>8
  DEF Next, vars, Set, Do, DoUnwired, Begin, Nest, BeginFails, Write, ContextEnds, WindUp, Keep

\* A goroutine that looks its connection up after the closure has ended stays
\* off the transaction of that closure, whatever Do is doing with it: run's
\* defer has the handle done by then (handle.done, TxFrom).
THEOREM LateStatementsAreApart == Spec => LateStatementsStandAlone
<1>1. Inv /\ [Next]_vars =>
        [\A h \in Handlers : task[h].late =>
           task'[h].step # "txDone" /\ (task'[h] # task[h] => log' = log)]_vars
  BY LateStep DEF LateIsApart
<1> QED
  BY <1>1, InvHolds, PTL DEF Spec, LateStatementsStandAlone

-----------------------------------------------------------------------------
\* The refinement of NestedTx.  Levels is Nested over any frames and log.
Rise(F, L, i) == IF i < Len(F) THEN F[i + 1] ELSE Len(L)
Span(F, L, i) == {L[k] : k \in F[i] + 1 .. Rise(F, L, i)}
Levels(F, L) == [i \in 1..Len(F) |-> Span(F, L, i)]

Fits(F, L) == F \in Seq(Nat) /\ L \in Seq(Nat) /\ \A i \in 1..Len(F) : F[i] \in 0..Len(L)

LEMMA LevelsAre ==
  ASSUME NEW F, NEW L, Fits(F, L)
  PROVE  /\ Levels(F, L) \in Seq(SUBSET Nat)
         /\ Len(Levels(F, L)) = Len(F) /\ Len(F) \in Nat /\ Len(L) \in Nat
         /\ \A i \in 1..Len(F) : /\ Levels(F, L)[i] = Span(F, L, i)
                                 /\ F[i] \in Nat /\ Rise(F, L, i) \in 0..Len(L)
<1>1. F \in Seq(Nat) /\ L \in Seq(Nat) /\ Len(F) \in Nat /\ Len(L) \in Nat
  BY LenProperties DEF Fits
<1>2. ASSUME NEW i \in 1..Len(F)
      PROVE  /\ F[i] \in Nat /\ Rise(F, L, i) \in 0..Len(L) /\ Span(F, L, i) \in SUBSET Nat
  <2>1. F[i] \in 0..Len(L)
    BY DEF Fits
  <2>2. Rise(F, L, i) \in 0..Len(L)
    <3>1. i < Len(F) => i + 1 \in 1..Len(F)
      BY <1>1
    <3> QED
      BY <1>1, <3>1 DEF Fits, Rise
  <2>3. ASSUME NEW k \in F[i] + 1 .. Rise(F, L, i) PROVE L[k] \in Nat
    <3>1. k \in 1..Len(L)
      BY <1>1, <2>1, <2>2
    <3> QED
      BY <1>1, <3>1
  <2>4. Span(F, L, i) \in SUBSET Nat
    BY <2>3, Zenon DEF Span
  <2>5. F[i] \in Nat
    BY <1>1, <2>1
  <2> QED
    BY <2>2, <2>4, <2>5
<1>3. Levels(F, L) \in [1..Len(F) -> SUBSET Nat]
  BY <1>2 DEF Levels
<1>4. Levels(F, L) \in Seq(SUBSET Nat) /\ Len(Levels(F, L)) = Len(F)
  <2>1. \A i \in 1..Len(F) : Span(F, L, i) \in SUBSET Nat
    BY <1>2
  <2> QED
    BY <1>1, <2>1 DEF Levels
<1> QED
  BY <1>1, <1>2, <1>4 DEF Levels

\* No Do is open: there are no levels.
LEMMA NoLevels == \A L \in Seq(Nat) : Levels(<<>>, L) = <<>>
<1> SUFFICES ASSUME NEW L \in Seq(Nat) PROVE Levels(<<>>, L) = <<>>
  OBVIOUS
<1>1. Fits(<<>>, L)
  BY EmptySeq DEF Fits
<1>2. Len(Levels(<<>>, L)) = 0 /\ Levels(<<>>, L) \in Seq(SUBSET Nat)
  BY <1>1, LevelsAre, EmptySeq
<1> QED
  BY <1>2, EmptySeq

\* A new level, of an inner Do, starts empty.
LEMMA LevelsNested ==
  ASSUME NEW F, NEW L, Fits(F, L)
  PROVE  Levels(Append(F, Len(L)), L) = Append(Levels(F, L), {})
<1> DEFINE G == Append(F, Len(L))
           n == Len(F)
<1>1. F \in Seq(Nat) /\ L \in Seq(Nat) /\ n \in Nat /\ Len(L) \in Nat
  BY LenProperties DEF Fits
<1>2. /\ G \in Seq(Nat) /\ Len(G) = n + 1 /\ G[n + 1] = Len(L)
      /\ \A i \in 1..n : G[i] = F[i]
  BY <1>1, AppendProperties
<1> HIDE DEF G
<1>3. Fits(G, L)
  <2>1. ASSUME NEW i \in 1..Len(G) PROVE G[i] \in 0..Len(L)
    <3>1. CASE i = n + 1
      BY <1>1, <1>2, <3>1
    <3>2. CASE i # n + 1
      <4>1. i \in 1..n
        BY <1>1, <1>2, <3>2
      <4> QED
        BY <1>2, <4>1 DEF Fits
    <3> QED
      BY <3>1, <3>2
  <2> QED
    BY <1>1, <1>2, <2>1 DEF Fits
<1>4. /\ Levels(F, L) \in Seq(SUBSET Nat) /\ Len(Levels(F, L)) = n
      /\ Levels(G, L) \in Seq(SUBSET Nat) /\ Len(Levels(G, L)) = n + 1
      /\ \A i \in 1..n : Levels(F, L)[i] = Span(F, L, i)
      /\ \A i \in 1..n + 1 : Levels(G, L)[i] = Span(G, L, i)
  BY <1>2, <1>3, LevelsAre
<1> DEFINE A == Append(Levels(F, L), {})
<1>5. /\ A \in Seq(SUBSET Nat) /\ Len(A) = n + 1 /\ A[n + 1] = {}
      /\ \A i \in 1..n : A[i] = Levels(F, L)[i]
  <2>1. {} \in SUBSET Nat
    OBVIOUS
  <2> HIDE DEF n
  <2> QED
    BY <1>4, <2>1, AppendProperties
<1> HIDE DEF A
<1>6. ASSUME NEW i \in 1..n + 1 PROVE Levels(G, L)[i] = A[i]
  <2>1. CASE i = n + 1
    <3>1. Rise(G, L, i) = Len(L) /\ G[i] = Len(L)
      BY <1>1, <1>2, <2>1 DEF Rise
    <3>2. Span(G, L, i) = {}
      BY <1>1, <3>1 DEF Span
    <3> QED
      BY <1>4, <1>5, <2>1, <3>2
  <2>2. CASE i # n + 1
    <3>1. i \in 1..n
      BY <1>1, <2>2
    <3>2. Rise(G, L, i) = Rise(F, L, i)
      <4>1. CASE i < n
        <5>1. i + 1 \in 1..n
          BY <1>1, <3>1, <4>1
        <5> QED
          BY <1>1, <1>2, <3>1, <4>1, <5>1 DEF Rise
      <4>2. CASE i = n
        BY <1>1, <1>2, <4>2 DEF Rise
      <4> QED
        BY <1>1, <3>1, <4>1, <4>2
    <3>3. Span(G, L, i) = Span(F, L, i)
      BY <1>2, <3>1, <3>2 DEF Span
    <3> QED
      BY <1>4, <1>5, <3>1, <3>3
  <2> QED
    BY <2>1, <2>2
<1> HIDE DEF n
<1>7. Levels(G, L) = A
  BY <1>4, <1>5, <1>6, SeqEqual
<1> QED
  BY <1>7 DEF A, G

\* A row goes to the innermost level.
LEMMA LevelsWritten ==
  ASSUME NEW F, NEW L, Fits(F, L), Len(F) > 0, NEW w \in Nat
  PROVE  Levels(F, Append(L, w)) = [Levels(F, L) EXCEPT ![Len(F)] = @ \cup {w}]
<1> DEFINE M == Append(L, w)
           n == Len(F)
<1>1. F \in Seq(Nat) /\ L \in Seq(Nat) /\ n \in Nat /\ n > 0 /\ Len(L) \in Nat
  BY LenProperties DEF Fits
<1>2. /\ M \in Seq(Nat) /\ Len(M) = Len(L) + 1 /\ M[Len(L) + 1] = w
      /\ \A i \in 1..Len(L) : M[i] = L[i]
  BY <1>1, AppendProperties
<1> HIDE DEF M
<1>3. Fits(F, M)
  BY <1>1, <1>2 DEF Fits
<1>4. /\ Levels(F, L) \in Seq(SUBSET Nat) /\ Len(Levels(F, L)) = n
      /\ \A i \in 1..n : /\ Levels(F, L)[i] = Span(F, L, i)
                         /\ F[i] \in Nat /\ Rise(F, L, i) \in 0..Len(L)
  BY LevelsAre
<1>5. \A i \in 1..n : F[i] \in 0..Len(L)
  BY DEF Fits
<1>6. ASSUME NEW i \in 1..n
      PROVE  Span(F, M, i) = IF i = n THEN Span(F, L, i) \cup {w} ELSE Span(F, L, i)
  <2>1. CASE i = n
    <3>1. Rise(F, M, i) = Len(L) + 1 /\ Rise(F, L, i) = Len(L)
      BY <1>1, <1>2, <2>1 DEF Rise
    <3>2. \A k \in F[i] + 1 .. Len(L) : M[k] = L[k]
      BY <1>1, <1>2, <1>5
    <3>3. /\ Len(L) + 1 \in F[i] + 1 .. Len(L) + 1
          /\ \A k \in F[i] + 1 .. Len(L) + 1 : k = Len(L) + 1 \/ k \in F[i] + 1 .. Len(L)
          /\ \A k \in F[i] + 1 .. Len(L) : k \in F[i] + 1 .. Len(L) + 1
      BY <1>1, <1>5
    <3>4. /\ Span(F, M, i) = {M[k] : k \in F[i] + 1 .. Len(L) + 1}
          /\ Span(F, L, i) = {L[k] : k \in F[i] + 1 .. Len(L)}
      BY <3>1 DEF Span
    <3>5. {M[k] : k \in F[i] + 1 .. Len(L) + 1} = {M[k] : k \in F[i] + 1 .. Len(L)} \cup {M[Len(L) + 1]}
      BY <3>3
    <3>6. {M[k] : k \in F[i] + 1 .. Len(L)} = {L[k] : k \in F[i] + 1 .. Len(L)}
      BY <3>2
    <3> QED
      BY <1>2, <2>1, <3>4, <3>5, <3>6
  <2>2. CASE i # n
    <3>1. Rise(F, M, i) = Rise(F, L, i) /\ Rise(F, L, i) \in 0..Len(L)
      BY <1>1, <1>4, <2>2 DEF Rise
    <3>2. \A k \in F[i] + 1 .. Rise(F, L, i) : M[k] = L[k]
      <4>1. F[i] \in Nat
        BY <1>4
      <4>2. \A k \in F[i] + 1 .. Rise(F, L, i) : k \in 1..Len(L)
        BY <1>1, <3>1, <4>1
      <4> QED
        BY <1>2, <4>2
    <3> QED
      BY <2>2, <3>1, <3>2 DEF Span
  <2> QED
    BY <2>1, <2>2
<1>7. Levels(F, M) = [Levels(F, L) EXCEPT ![n] = @ \cup {w}]
  BY <1>1, <1>4, <1>6 DEF Levels
<1> QED
  BY <1>7 DEF M

\* The outermost level alone.
LEMMA OneLevel ==
  ASSUME NEW G \in Seq(Nat), Len(G) = 1, G[1] = 0, NEW L \in Seq(Nat)
  PROVE  /\ Levels(G, L) \in Seq(SUBSET Nat) /\ Len(Levels(G, L)) = 1
         /\ Levels(G, L)[1] = {L[k] : k \in 1..Len(L)}
<1>1. Len(L) \in Nat
  BY LenProperties
<1>2. Fits(G, L)
  BY <1>1 DEF Fits
<1>3. /\ Levels(G, L) \in Seq(SUBSET Nat) /\ Len(Levels(G, L)) = 1
      /\ Levels(G, L)[1] = Span(G, L, 1)
  BY <1>2, LevelsAre
<1> QED
  BY <1>1, <1>3 DEF Span, Rise

\* Two levels, and the outer of them.
LEMMA TwoLevels ==
  ASSUME NEW F, NEW L, Fits(F, L), Len(F) = 2, F[1] = 0
  PROVE  LET V == Levels(F, L)
         IN  /\ V \in Seq(SUBSET Nat) /\ Len(V) = 2
             /\ V[1] = {L[k] : k \in 1..F[2]} /\ V[2] = {L[k] : k \in F[2] + 1 .. Len(L)}
             /\ SubSeq(V, 1, 1) \in Seq(SUBSET Nat) /\ Len(SubSeq(V, 1, 1)) = 1
             /\ SubSeq(V, 1, 1)[1] = V[1]
<1> DEFINE V == Levels(F, L)
<1>1. V \in Seq(SUBSET Nat) /\ Len(V) = 2 /\ V[1] = Span(F, L, 1) /\ V[2] = Span(F, L, 2)
  BY LevelsAre
<1>2. Span(F, L, 1) = {L[k] : k \in 1..F[2]} /\ Span(F, L, 2) = {L[k] : k \in F[2] + 1 .. Len(L)}
  BY DEF Span, Rise
<1> HIDE DEF V
<1>3. \A i \in 1..1 : V[i] \in SUBSET Nat
  BY <1>1
<1>4. /\ SubSeq(V, 1, 1) \in Seq(SUBSET Nat) /\ Len(SubSeq(V, 1, 1)) = 1
      /\ SubSeq(V, 1, 1)[1] = V[1]
  BY <1>3, SubSeqProperties
<1> QED
  BY <1>1, <1>2, <1>4 DEF V

\* An inner Do that is kept hands its rows to the level around it.
Folded(V) == [SubSeq(V, 1, 1) EXCEPT ![1] = @ \cup V[2]]

LEMMA LevelsMerged ==
  ASSUME NEW F, NEW L, Fits(F, L), Len(F) = 2, F[1] = 0,
         NEW G \in Seq(Nat), Len(G) = 1, G[1] = 0
  PROVE  Levels(G, L) = Folded(Levels(F, L))
<1> DEFINE V == Levels(F, L)
           W == SubSeq(V, 1, 1)
           e == W[1] \cup V[2]
           E == [W EXCEPT ![1] = e]
<1>1. /\ L \in Seq(Nat) /\ Len(L) \in Nat /\ F[2] \in 0..Len(L)
  BY LenProperties DEF Fits
<1>2. /\ V \in Seq(SUBSET Nat) /\ Len(V) = 2 /\ W \in Seq(SUBSET Nat) /\ Len(W) = 1
      /\ W[1] = {L[k] : k \in 1..F[2]} /\ V[2] = {L[k] : k \in F[2] + 1 .. Len(L)}
  BY TwoLevels
<1>3. e = {L[k] : k \in 1..Len(L)}
  <2>1. \A k \in 1..Len(L) : k \in 1..F[2] \/ k \in F[2] + 1 .. Len(L)
    BY <1>1
  <2>2. /\ \A k \in 1..F[2] : k \in 1..Len(L)
        /\ \A k \in F[2] + 1 .. Len(L) : k \in 1..Len(L)
    BY <1>1
  <2> HIDE DEF V, W
  <2> QED
    BY <1>2, <2>1, <2>2
<1> HIDE DEF V, W
<1>4. e \in SUBSET Nat
  <2>1. W \in [1..1 -> SUBSET Nat] /\ V \in [1..2 -> SUBSET Nat]
    BY <1>2, LenProperties
  <2> QED
    BY <2>1
<1> HIDE DEF e
<1>5. W \in [1..1 -> SUBSET Nat]
  BY <1>2, LenProperties
<1>6. Levels(G, L) \in [1..1 -> SUBSET Nat] /\ Levels(G, L)[1] = {L[k] : k \in 1..Len(L)}
  BY <1>1, OneLevel, LenProperties
<1>7. Levels(G, L) = E
  <2>1. \A i \in 1..1 : i = 1
    OBVIOUS
  <2>2. E \in [1..1 -> SUBSET Nat] /\ E[1] = e
    BY <1>4, <1>5
  <2>3. Levels(G, L)[1] = e
    BY <1>3, <1>6
  <2>4. \A i \in 1..1 : Levels(G, L)[i] = E[i]
    BY <2>1, <2>2, <2>3
  <2>5. Levels(G, L) \in [1..1 -> SUBSET Nat]
    BY <1>6
  <2> HIDE DEF E
  <2> QED
    BY <2>2, <2>4, <2>5
<1> QED
  BY <1>7 DEF V, W, e, Folded

\* One that is taken back leaves the level around it as it was.
LEMMA LevelsUndone ==
  ASSUME NEW F, NEW L, Fits(F, L), Len(F) = 2, F[1] = 0,
         NEW G \in Seq(Nat), Len(G) = 1, G[1] = 0,
         NEW M \in Seq(Nat), Len(M) = F[2], \A k \in 1..Len(M) : M[k] = L[k]
  PROVE  Levels(G, M) = SubSeq(Levels(F, L), 1, 1)
<1> DEFINE W == SubSeq(Levels(F, L), 1, 1)
<1>1. W \in Seq(SUBSET Nat) /\ Len(W) = 1 /\ W[1] = {L[k] : k \in 1..F[2]}
  BY TwoLevels
<1>2. /\ Levels(G, M) \in Seq(SUBSET Nat) /\ Len(Levels(G, M)) = 1
      /\ Levels(G, M)[1] = {M[k] : k \in 1..Len(M)}
  BY OneLevel
<1>3. {M[k] : k \in 1..Len(M)} = {L[k] : k \in 1..F[2]}
  OBVIOUS
<1> HIDE DEF W
<1>4. \A i \in 1..Len(W) : Levels(G, M)[i] = W[i]
  <2>1. \A i \in 1..Len(W) : i = 1
    BY <1>1
  <2> QED
    BY <1>1, <1>2, <1>3, <2>1
<1>5. Levels(G, M) = W
  BY <1>1, <1>2, <1>4, SeqEqual
<1> QED
  BY <1>5 DEF W

\* After a connection is lost every level is empty.
LEMMA LevelsLost ==
  ASSUME NEW n \in Nat
  PROVE  Levels([i \in 1..n |-> 0], <<>>) = [i \in 1..n |-> {}]
<1> DEFINE F == [i \in 1..n |-> 0]
<1>1. F \in Seq(Nat) /\ Len(F) = n /\ \A i \in 1..n : F[i] = 0
  OBVIOUS
<1>2. Len(<<>>) = 0
  BY EmptySeq
<1> HIDE DEF F
<1>3. ASSUME NEW i \in 1..n PROVE Span(F, <<>>, i) = {}
  <2>1. F[i] = 0 /\ Rise(F, <<>>, i) = 0
    <3>1. CASE i < n
      <4>1. i + 1 \in 1..n
        BY <3>1
      <4> QED
        BY <1>1, <3>1, <4>1 DEF Rise
    <3>2. CASE ~(i < n)
      BY <1>1, <1>2, <3>2 DEF Rise
    <3> QED
      BY <3>1, <3>2
  <2> QED
    BY <2>1 DEF Span
<1>4. Levels(F, <<>>) = [i \in 1..n |-> {}]
  BY <1>1, <1>3 DEF Levels
<1> QED
  BY <1>4 DEF F

-----------------------------------------------------------------------------
\* What NestedTx sees of the state.
Seen == [h \in Handlers |-> Nested(h)]

LEMMA SeenIs ==
  ASSUME Inv, NEW h \in Handlers
  PROVE  /\ Seen[h] = Levels(frames[h], log[h]) /\ Fits(frames[h], log[h])
         /\ Len(Seen[h]) = Depth(h) /\ Abstract!Depth(h) = Depth(h)
         /\ Seen[h] = <<>> <=> frames[h] = <<>>
<1>1. Seen[h] = Levels(frames[h], log[h])
  BY DEF Seen, Nested, Levels, Span, Rise, Depth, LevelEnd
<1>2. Fits(frames[h], log[h])
  BY DepthIsSmall, TasksAsTheyWere DEF Fits, Depth
<1>3. Len(Seen[h]) = Depth(h) /\ Seen[h] \in Seq(SUBSET Nat)
  BY <1>1, <1>2, LevelsAre DEF Depth
<1>4. Abstract!Depth(h) = Depth(h)
  BY <1>3 DEF Abstract!Depth, Seen
<1>5. Seen[h] = <<>> <=> frames[h] = <<>>
  <2>1. frames[h] = <<>> <=> Depth(h) = 0
    BY DepthIsSmall
  <2>2. Seen[h] = <<>> <=> Len(Seen[h]) = 0
    BY <1>3, EmptySeq
  <2> QED
    BY <1>3, <2>1, <2>2
<1> QED
  BY <1>1, <1>2, <1>3, <1>4, <1>5

LEMMA SeenChanges ==
  ASSUME NEW h \in Handlers,
         \A g \in Handlers \ {h} : frames'[g] = frames[g] /\ log'[g] = log[g]
  PROVE  Seen' = [Seen EXCEPT ![h] = Levels(frames'[h], log'[h])]
<1>1. ASSUME NEW g \in Handlers
      PROVE  Nested(g)' = IF g = h THEN Levels(frames'[h], log'[h]) ELSE Nested(g)
  <2>1. Nested(g)' = Levels(frames'[g], log'[g])
    BY DEF Nested, Levels, Span, Rise, Depth, LevelEnd
  <2>2. Nested(g) = Levels(frames[g], log[g])
    BY DEF Nested, Levels, Span, Rise, Depth, LevelEnd
  <2> QED
    BY <2>1, <2>2
<1> QED
  BY <1>1 DEF Seen

LEMMA SeenUnchanged == UNCHANGED <<frames, log>> => UNCHANGED Seen
BY DEF Seen, Nested, Depth, LevelEnd

LEMMA WrittenSoFar == Inv => written \in 0..MaxWrites /\ table \subseteq 1..written
BY DEF Inv, TypeOK

\* No row is written twice.
LEMMA RowIsFresh ==
  ASSUME Inv, written < MaxWrites
  PROVE  written + 1 \in Rows /\ Abstract!Fresh(written + 1)
<1>1. written \in Nat /\ table \subseteq 1..written
  BY WrittenSoFar, BoundsAreSane
<1>2. written + 1 \in Rows /\ written + 1 \notin table
  BY <1>1, BoundsAreSane DEF Rows
<1>3. ASSUME NEW h \in Handlers, NEW i \in 1..Len(Seen[h])
      PROVE  written + 1 \notin Seen[h][i]
  <2>1. Len(Seen[h]) = Len(frames[h]) /\ Seen[h] = Levels(frames[h], log[h])
    BY SeenIs DEF Depth
  <2>2. /\ Seen[h][i] = Span(frames[h], log[h], i) /\ frames[h][i] \in Nat
        /\ Rise(frames[h], log[h], i) \in 0..Len(log[h]) /\ Len(log[h]) \in Nat
    BY <2>1, SeenIs, LevelsAre
  <2>3. \A k \in 1..Len(log[h]) : log[h][k] # written + 1
    BY <1>1, TasksAsTheyWere
  <2>4. \A k \in frames[h][i] + 1 .. Rise(frames[h], log[h], i) : k \in 1..Len(log[h])
    BY <2>2
  <2> QED
    BY <2>2, <2>3, <2>4 DEF Span
<1> QED
  BY <1>2, <1>3 DEF Abstract!Fresh, Seen

LEMMA AbstractBegin ==
  ASSUME Inv, NEW h \in Handlers, Begin(h)
  PROVE  Abstract!Begin(h)
<1>1. /\ frames[h] = <<>> /\ log[h] = <<>> /\ log' = log /\ log \in [Handlers -> Seq(Nat)]
  BY TasksAsTheyWere DEF Begin, Inv, Sequenced
<1>2. /\ \A g \in Handlers \ {h} : frames'[g] = frames[g] /\ log'[g] = log[g]
      /\ frames'[h] = <<0>> /\ log'[h] = <<>>
  BY <1>1 DEF Begin, Inv, Sequenced
<1>3. Seen' = [Seen EXCEPT ![h] = Levels(<<0>>, <<>>)]
  BY <1>2, SeenChanges
<1>4. Levels(<<0>>, <<>>) = <<{}>>
  <2>1. Levels(<<0>>, <<>>) = [i \in 1..1 |-> {}]
    BY DEF Levels, Span, Rise
  <2> QED
    BY <2>1
<1>5. Seen[h] = <<>>
  BY <1>1, SeenIs
<1> QED
  BY <1>3, <1>4, <1>5 DEF Begin, Abstract!Begin, Seen

LEMMA AbstractNest ==
  ASSUME Inv, NEW h \in Handlers, Nest(h)
  PROVE  Abstract!Nest(h)
<1> DEFINE F == Append(frames[h], Len(log[h]))
<1>1. frames[h] # <<>> /\ alive[h] = Depth(h) /\ Depth(h) > 0
  <2>1. frames[h] # <<>> /\ alive[h] = Depth(h)
    BY DEF Nest, Usable
  <2>2. Depth(h) \in 0..2 /\ (frames[h] = <<>> <=> Depth(h) = 0)
    BY DepthIsSmall
  <2> QED
    BY <2>1, <2>2
<1>2. /\ \A g \in Handlers \ {h} : frames'[g] = frames[g] /\ log'[g] = log[g]
      /\ frames'[h] = F /\ log'[h] = log[h]
  BY DEF Nest, Inv, Sequenced
<1>3. Levels(F, log[h]) = Append(Seen[h], {})
  BY SeenIs, LevelsNested
<1> HIDE DEF F
<1>4. Seen' = [Seen EXCEPT ![h] = Levels(F, log[h])]
  BY <1>2, SeenChanges
<1>5. Seen' = [Seen EXCEPT ![h] = Append(Seen[h], {})]
  BY <1>3, <1>4
<1> QED
  BY <1>1, <1>5, SeenIs DEF Nest, Abstract!Nest, Seen

\* A row of the closure, or of the goroutine on its transaction.
LEMMA AbstractWrite ==
  ASSUME Inv, NEW h \in Handlers, tx[h] = "open", written < MaxWrites, written' = written + 1,
         log' = [log EXCEPT ![h] = Append(@, written')],
         UNCHANGED <<frames, table, alive, told>>
  PROVE  Abstract!StrandingNext
<1>1. Depth(h) > 0 /\ Fits(frames[h], log[h]) /\ written + 1 \in Nat
  <2>1. frames[h] # <<>>
    BY TasksAsTheyWere
  <2>2. Depth(h) > 0
    <3>1. Depth(h) \in 0..2 /\ (frames[h] = <<>> <=> Depth(h) = 0)
      BY DepthIsSmall
    <3> QED
      BY <2>1, <3>1
  <2>3. Fits(frames[h], log[h])
    BY SeenIs
  <2>4. written + 1 \in Nat
    BY WrittenSoFar, BoundsAreSane
  <2> QED
    BY <2>2, <2>3, <2>4
<1>2. /\ \A g \in Handlers \ {h} : frames'[g] = frames[g] /\ log'[g] = log[g]
      /\ frames'[h] = frames[h] /\ log'[h] = Append(log[h], written + 1)
  BY DEF Inv, Sequenced
<1>3. Levels(frames'[h], log'[h]) = [Seen[h] EXCEPT ![Depth(h)] = @ \cup {written + 1}]
  <2>1. Levels(frames[h], Append(log[h], written + 1))
          = [Levels(frames[h], log[h]) EXCEPT ![Len(frames[h])] = @ \cup {written + 1}]
    BY <1>1, LevelsWritten DEF Depth
  <2>2. Seen[h] = Levels(frames[h], log[h])
    BY SeenIs
  <2> QED
    BY <1>2, <2>1, <2>2 DEF Depth
<1>4. Seen' = [Seen EXCEPT ![h][Depth(h)] = @ \cup {written + 1}]
  BY <1>2, <1>3, SeenChanges
<1>5. Abstract!Write(h, written + 1)
  BY <1>1, <1>4, RowIsFresh, SeenIs DEF Abstract!Write, Seen
<1> QED
  BY <1>5, RowIsFresh DEF Abstract!Next, Abstract!StrandingNext

LEMMA AbstractLose ==
  ASSUME Inv, NEW h \in Handlers, Lose(h)
  PROVE  Abstract!Lose(h)
<1>1. /\ \A g \in Handlers \ {h} : frames'[g] = frames[g] /\ log'[g] = log[g]
      /\ frames'[h] = [i \in 1..Depth(h) |-> 0] /\ log'[h] = <<>>
  BY DEF Lose, Released, Inv, Sequenced
<1>2. Depth(h) \in Nat
  BY DepthIsSmall
<1>3. Levels(frames'[h], log'[h]) = [i \in 1..Depth(h) |-> {}]
  BY <1>1, <1>2, LevelsLost
<1>4. Seen' = [Seen EXCEPT ![h] = [i \in 1..Depth(h) |-> {}]]
  BY <1>1, <1>3, SeenChanges
<1> QED
  BY <1>4, SeenIs DEF Lose, Abstract!Lose, Seen

LEMMA AbstractContextEnds ==
  ASSUME Inv, NEW h \in Handlers, ContextEnds(h)
  PROVE  Abstract!ContextEnds(h)
<1>1. UNCHANGED Seen
  BY SeenUnchanged DEF ContextEnds
<1> QED
  BY <1>1, SeenIs DEF ContextEnds, Abstract!ContextEnds, Seen

\* What the return of an inner Do leaves, common to all its outcomes.
LEMMA ResumeLevels ==
  ASSUME Inv, NEW h \in Handlers, Ended(h), NEW answer, Resume(h, answer),
         \A g \in Handlers \ {h} : log'[g] = log[g]
  PROVE  /\ Len(frames[h]) = 2 /\ frames[h][1] = 0 /\ Depth(h) = 2
         /\ frames'[h] \in Seq(Nat) /\ Len(frames'[h]) = 1 /\ frames'[h][1] = 0
         /\ Seen' = [Seen EXCEPT ![h] = Levels(frames'[h], log'[h])]
         /\ alive' = [alive EXCEPT ![h] = IF @ < Depth(h) THEN @ ELSE Depth(h) - 1]
         /\ told' = answer /\ table' = table /\ alive[h] <= Depth(h)
         /\ Abstract!Outer(h) = SubSeq(Seen[h], 1, 1)
         /\ Abstract!Merged(h) = Folded(Seen[h])
<1>1. Depth(h) = 2 /\ frames[h] \in Seq(Nat) /\ frames[h] # <<>> /\ frames[h][1] = 0
  BY TasksAsTheyWere, DepthIsSmall DEF Ended
<1>2. /\ \A g \in Handlers \ {h} : frames'[g] = frames[g] /\ log'[g] = log[g]
      /\ frames'[h] = SubSeq(frames[h], 1, 1)
  BY <1>1 DEF Resume, OuterFrames, Inv, Sequenced
<1>3. frames'[h] \in Seq(Nat) /\ Len(frames'[h]) = 1 /\ frames'[h][1] = 0
  <2>1. \A i \in 1..1 : frames[h][i] \in Nat
    BY <1>1
  <2> QED
    BY <1>1, <1>2, <2>1, SubSeqProperties
<1>4. Seen' = [Seen EXCEPT ![h] = Levels(frames'[h], log'[h])]
  BY <1>2, SeenChanges
<1>5. /\ alive' = [alive EXCEPT ![h] = IF @ < Depth(h) THEN @ ELSE Depth(h) - 1]
      /\ told' = answer /\ table' = table /\ alive[h] <= Depth(h)
  BY TasksAsTheyWere DEF Resume, OuterAlive, Answer, Inv, Sequenced
<1>6. /\ Abstract!Depth(h) = 2
      /\ Abstract!Outer(h) = SubSeq(Seen[h], 1, 1)
  BY <1>1, SeenIs DEF Abstract!Outer, Seen
<1>7. Abstract!Merged(h) = Folded(Seen[h])
  BY <1>6 DEF Abstract!Merged, Seen, Folded
<1> QED
  BY <1>1, <1>3, <1>4, <1>5, <1>6, <1>7 DEF Depth

\* Leave, with the nest spelt as Seen.
LEMMA AbstractLeave ==
  ASSUME Inv, NEW h \in Handlers, Depth(h) = 2, table' = table,
         alive' = [alive EXCEPT ![h] = IF @ < Depth(h) THEN @ ELSE Depth(h) - 1],
         NEW levels, Seen' = [Seen EXCEPT ![h] = levels]
  PROVE  Abstract!Leave(h, levels)
<1>1. Abstract!Depth(h) = 2
  BY SeenIs
<1> QED
  BY <1>1 DEF Abstract!Leave, Seen

LEMMA AbstractMerge ==
  ASSUME Inv, NEW h \in Handlers, Ended(h), NEW answer, Resume(h, answer), log' = log
  PROVE  Abstract!Leave(h, Abstract!Merged(h))
<1>1. /\ Abstract!Merged(h) = Folded(Seen[h])
      /\ Len(frames[h]) = 2 /\ frames[h][1] = 0 /\ Depth(h) = 2
      /\ frames'[h] \in Seq(Nat) /\ Len(frames'[h]) = 1 /\ frames'[h][1] = 0
      /\ Seen' = [Seen EXCEPT ![h] = Levels(frames'[h], log'[h])]
      /\ alive' = [alive EXCEPT ![h] = IF @ < Depth(h) THEN @ ELSE Depth(h) - 1]
      /\ table' = table
  BY ResumeLevels
<1>2. Levels(frames'[h], log[h]) = Abstract!Merged(h)
  <2>1. Fits(frames[h], log[h]) /\ Seen[h] = Levels(frames[h], log[h])
    BY SeenIs
  <2>2. Levels(frames'[h], log[h]) = Folded(Levels(frames[h], log[h]))
    BY <1>1, <2>1, LevelsMerged
  <2> QED
    BY <1>1, <2>1, <2>2
<1>3. Seen' = [Seen EXCEPT ![h] = Abstract!Merged(h)]
  BY <1>1, <1>2
<1> QED
  BY <1>1, <1>3, AbstractLeave

LEMMA AbstractKeep ==
  ASSUME Inv, NEW h \in Handlers, Keep(h)
  PROVE  Abstract!Keep(h)
<1>1. Ended(h) /\ Resume(h, "ok") /\ log' = log
  BY DEF Keep
<1> QED
  BY <1>1, AbstractMerge, ResumeLevels DEF Abstract!Keep, Abstract!Answer

\* ROLLBACK TO runs, or the log it would cut is gone with the connection, or
\* the context has ended and the rows stay.
LEMMA AbstractRollbackTo ==
  ASSUME Inv, NEW h \in Handlers, RollbackTo(h)
  PROVE  Abstract!Undo(h) \/ Abstract!Strand(h)
<1>1. Ended(h) /\ Resume(h, "error") /\ log' = [log EXCEPT ![h] = TakenBack(h)]
  BY DEF RollbackTo
<1>2. /\ \A g \in Handlers \ {h} : log'[g] = log[g]
      /\ log'[h] = TakenBack(h) /\ log \in [Handlers -> Seq(Nat)]
  BY <1>1 DEF Inv, Sequenced
<1>0. /\ Abstract!Outer(h) = SubSeq(Seen[h], 1, 1)
      /\ Len(frames[h]) = 2 /\ frames[h][1] = 0 /\ Depth(h) = 2
      /\ frames'[h] \in Seq(Nat) /\ Len(frames'[h]) = 1 /\ frames'[h][1] = 0
      /\ Seen' = [Seen EXCEPT ![h] = Levels(frames'[h], log'[h])]
      /\ alive' = [alive EXCEPT ![h] = IF @ < Depth(h) THEN @ ELSE Depth(h) - 1]
      /\ table' = table
  BY <1>1, <1>2, ResumeLevels
<1>3. CASE alive[h] < Depth(h)
  <2>1. log' = log
    BY <1>1, <1>3, <1>2, DepthIsSmall, TasksAsTheyWere DEF TakenBack, Usable
  <2>2. Abstract!Leave(h, Abstract!Merged(h)) /\ Abstract!Answer("error")
    BY <1>1, <1>2, <2>1, AbstractMerge, ResumeLevels DEF Abstract!Answer
  <2>3. alive[h] = 0 \/ alive[h] \in 1 .. Abstract!Depth(h) - 1
    <3>1. alive[h] \in Nat /\ Abstract!Depth(h) = 2
      BY <1>0, TasksAsTheyWere, SeenIs
    <3> QED
      BY <1>0, <1>3, <3>1
  <2> QED
    BY <2>2, <2>3 DEF Abstract!Undo, Abstract!Strand
<1>4. CASE alive[h] = Depth(h)
  <2>1. /\ TakenBack(h) \in Seq(Nat) /\ Len(TakenBack(h)) = frames[h][2]
        /\ \A k \in 1..Len(TakenBack(h)) : TakenBack(h)[k] = log[h][k]
    <3>1. Depth(h) = 2 /\ frames[h][2] \in 0..Len(log[h])
      <4>1. \A i \in 1..Depth(h) : frames[h][i] \in 0..Len(log[h])
        BY TasksAsTheyWere
      <4> QED
        BY <1>0, <4>1
    <3>2. CASE Usable(h)
      BY <3>1, <3>2, TakenBackIsPrefix
    <3>3. CASE ~Usable(h)
      <4>1. TakenBack(h) = <<>> /\ log[h] = <<>>
        BY <1>4, <3>3, TasksAsTheyWere DEF TakenBack, Usable
      <4> QED
        BY <3>1, <4>1, EmptySeq
    <3> QED
      BY <3>2, <3>3
  <2>2. Levels(frames'[h], log'[h]) = Abstract!Outer(h)
    <3>1. Fits(frames[h], log[h]) /\ Seen[h] = Levels(frames[h], log[h])
      BY SeenIs
    <3>2. Levels(frames'[h], TakenBack(h)) = SubSeq(Levels(frames[h], log[h]), 1, 1)
      BY <1>0, <2>1, <3>1, LevelsUndone
    <3> QED
      BY <1>0, <1>2, <3>1, <3>2
  <2>3. Seen' = [Seen EXCEPT ![h] = Abstract!Outer(h)]
    BY <1>0, <2>2
  <2>4. Abstract!Leave(h, Abstract!Outer(h))
    BY <1>0, <2>3, AbstractLeave
  <2> QED
    BY <1>1, <1>2, <1>4, <2>4, ResumeLevels, SeenIs DEF Abstract!Undo, Abstract!Answer
<1> QED
  <2>1. alive[h] <= Depth(h) /\ alive[h] \in Nat /\ Depth(h) \in Nat
    BY TasksAsTheyWere, DepthIsSmall
  <2> QED
    BY <1>3, <1>4, <2>1

LEMMA AbstractEnd ==
  ASSUME Inv, NEW h \in Handlers, End(h)
  PROVE  /\ Abstract!End(h)
         /\ Seen[h][1] = {log[h][k] : k \in 1..Len(log[h])}
<1>1. /\ Depth(h) = 1 /\ frames[h] \in Seq(Nat) /\ frames[h][1] = 0 /\ log[h] \in Seq(Nat)
  BY TasksAsTheyWere, DepthIsSmall DEF End
<1>2. Abstract!Depth(h) = 1 /\ Seen[h] = Levels(frames[h], log[h])
  BY <1>1, SeenIs
<1>3. Seen[h][1] = {log[h][k] : k \in 1..Len(log[h])}
  BY <1>1, <1>2, OneLevel DEF Depth
<1>4. /\ \A g \in Handlers \ {h} : frames'[g] = frames[g] /\ log'[g] = log[g]
      /\ frames'[h] = <<>> /\ log'[h] = <<>>
  BY DEF End, Released, Inv, Sequenced
<1>5. Levels(frames'[h], log'[h]) = <<>>
  BY <1>4, NoLevels, EmptySeq
<1>6. Seen' = [Seen EXCEPT ![h] = <<>>]
  BY <1>4, <1>5, SeenChanges
<1>7. Abstract!End(h)
  BY <1>2, <1>6 DEF End, Abstract!End, Seen
<1> QED
  BY <1>3, <1>7

LEMMA AbstractCommit ==
  ASSUME Inv, NEW h \in Handlers, Commit(h)
  PROVE  Abstract!Publish(h)
<1>1. /\ End(h) /\ alive[h] = 1
      /\ table' = table \cup {log[h][i] : i \in 1..Len(log[h])}
      /\ \E answer \in {"ok", "error"} : told' = answer
  BY DEF Commit, End, Usable, Answer
<1>2. Abstract!End(h) /\ table' = table \cup Seen[h][1]
  BY <1>1, AbstractEnd
<1> QED
  BY <1>1, <1>2 DEF Abstract!Publish, Abstract!Answer, Seen

LEMMA AbstractRollback ==
  ASSUME Inv, NEW h \in Handlers, Rollback(h)
  PROVE  Abstract!Discard(h)
BY AbstractEnd DEF Rollback, Answer, Abstract!Discard, Abstract!Answer

LEMMA AbstractExecute ==
  ASSUME Inv, NEW h \in Handlers, Execute(h)
  PROVE  Abstract!StrandingNext
<1>1. /\ written < MaxWrites /\ written' = written + 1
      /\ UNCHANGED <<frames, alive, told>>
  BY DEF Execute
<1>2. CASE task[h].step = "tx" /\ log' = [log EXCEPT ![h] = Append(@, written')] /\ UNCHANGED table
  BY <1>1, <1>2, AbstractWrite, TasksAsTheyWere
<1>3. CASE table' = table \cup {written'} /\ UNCHANGED log
  <2>1. UNCHANGED Seen
    BY <1>1, <1>3, SeenUnchanged
  <2>2. Abstract!WriteAlone(written + 1)
    BY <1>1, <1>3, <2>1, RowIsFresh DEF Abstract!WriteAlone, Seen
  <2> QED
    BY <1>1, <2>2, RowIsFresh DEF Abstract!Next, Abstract!StrandingNext
<1> QED
  BY <1>2, <1>3 DEF Execute

\* Steps that NestedTx does not see, or sees as a Do that could not begin.
LEMMA AbstractStutter ==
  ASSUME UNCHANGED <<table, frames, log, alive, told>>
  PROVE  UNCHANGED Abstract!vars
<1>1. UNCHANGED Seen
  BY SeenUnchanged
<1> QED
  BY <1>1 DEF Abstract!vars, Seen

LEMMA AbstractRefuse ==
  ASSUME UNCHANGED <<table, frames, log, alive>>, told' = "error"
  PROVE  Abstract!StrandingNext
<1>1. UNCHANGED Seen
  BY SeenUnchanged
<1> QED
  BY <1>1 DEF Abstract!Refuse, Abstract!Next, Abstract!StrandingNext, Abstract!Answer, Seen

LEMMA AbstractStep == Inv /\ [Next]_vars => [Abstract!StrandingNext]_(Abstract!vars)
<1> SUFFICES ASSUME Inv, [Next]_vars
             PROVE  Abstract!StrandingNext \/ UNCHANGED Abstract!vars
  OBVIOUS
<1>1. CASE Set \/ UNCHANGED vars
  BY <1>1, AbstractStutter DEF Set, vars
<1>2. ASSUME NEW h \in Handlers,
             \/ Do(h) \/ DoUnwired(h) \/ Begin(h) \/ Nest(h) \/ BeginFails(h)
             \/ Write(h) \/ ContextEnds(h) \/ Lose(h) \/ Return(h) \/ WindUp(h)
             \/ Escape(h) \/ Lookup(h) \/ Execute(h) \/ TaskFails(h)
      PROVE  Abstract!StrandingNext \/ UNCHANGED Abstract!vars
  <2>1. CASE Do(h) \/ Return(h) \/ Escape(h) \/ Lookup(h) \/ TaskFails(h)
    BY <2>1, AbstractStutter DEF Do, Return, Escape, Lookup, TaskFails
  <2>2. CASE DoUnwired(h) \/ BeginFails(h)
    BY <2>2, AbstractRefuse DEF DoUnwired, BeginFails, Answer
  <2>3. CASE Begin(h)
    BY <2>3, AbstractBegin DEF Abstract!Next, Abstract!StrandingNext
  <2>4. CASE Nest(h)
    BY <2>4, AbstractNest DEF Abstract!Next, Abstract!StrandingNext
  <2>5. CASE Write(h)
    BY <2>5, AbstractWrite DEF Write, Usable
  <2>6. CASE ContextEnds(h)
    BY <2>6, AbstractContextEnds DEF Abstract!Next, Abstract!StrandingNext
  <2>7. CASE Lose(h)
    BY <2>7, AbstractLose DEF Abstract!Next, Abstract!StrandingNext
  <2>8. CASE Keep(h) \/ RollbackTo(h)
    BY <2>8, AbstractKeep, AbstractRollbackTo DEF Abstract!Next, Abstract!StrandingNext
  <2>9. CASE Commit(h) \/ Rollback(h)
    BY <2>9, AbstractCommit, AbstractRollback DEF Abstract!Next, Abstract!StrandingNext
  <2>10. CASE Execute(h)
    BY <2>10, AbstractExecute
  <2> QED
    BY <1>2, <2>1, <2>2, <2>3, <2>4, <2>5, <2>6, <2>7, <2>8, <2>9, <2>10 DEF WindUp
<1> QED
  BY <1>1, <1>2 DEF Next

\* Do, nested or not, keeps the promise of NestedTx but for Strand: what an
\* outermost Do and the Do's that succeeded inside it wrote appears in one step
\* or not at all, and an inner Do that fails under a live context takes back its
\* own rows and no others (Do, run, over gorm's savepoints).  An inner Do whose
\* context has ended, while that of the outer lives, is not promised to take
\* anything back.
THEOREM DoImplementsNested == Spec => KeepsPromiseButStrands
<1>1. Init => Abstract!Init
  <2> SUFFICES ASSUME Init PROVE Abstract!Init
    OBVIOUS
  <2>1. \A h \in Handlers : Nested(h) = <<>>
    <3> SUFFICES ASSUME NEW h \in Handlers PROVE Nested(h) = <<>>
      OBVIOUS
    <3>1. frames[h] = <<>> /\ log[h] = <<>>
      BY DEF Init
    <3>2. Seen[h] = <<>>
      BY <3>1, InvInit, SeenIs
    <3> QED
      BY <3>2 DEF Seen
  <2> QED
    BY <2>1 DEF Init, Abstract!Init
<1> QED
  BY <1>1, AbstractStep, InvHolds, PTL DEF Spec, KeepsPromiseButStrands, Abstract!StrandingSpec
=============================================================================
