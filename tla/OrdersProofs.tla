---------------------------- MODULE OrdersProofs ----------------------------
(***************************************************************************)
(* Proofs about Orders, for any sets of handlers, users, keys and order    *)
(* numbers.  The inductive invariant is built in three layers, each proved *)
(* with the layers below as known facts: the types and what each place in  *)
(* the code implies of the request (Typed), who holds the row locks        *)
(* (Locked), and what an open transaction and the two tables say of each   *)
(* other (Consistent).                                                     *)
(***************************************************************************)
EXTENDS Orders, TLAPS

\* The request a handler serves fits the code it is in.
PlaceFitsRequest ==
  \A h \in Handlers :
    /\ pc[h] \in {"generate", "insert"} => req[h] \in CreateRequest
    /\ pc[h] \in {"change", "log", "commit", "rollback"} => req[h] \in UpdateRequest
    /\ pc[h] = "delete" => req[h] \in DeleteRequest
    /\ pc[h] = "read" => req[h] \in UpdateRequest \cup DeleteRequest
    /\ pc[h] = "insert" => num[h] \in OrderNos

Typed == TypeOK /\ PlaceFitsRequest

LEMMA TypedInit == Init => Typed
BY DEF Init, Typed, TypeOK, PlaceFitsRequest, Places, Answers, MaxRetry, Status, Pending, Cancelled, Log

LEMMA TypedNext == Typed /\ [Next]_vars => Typed'
<1> SUFFICES ASSUME Typed, [Next]_vars PROVE Typed'
  OBVIOUS
<1> USE DEF Typed, TypeOK, PlaceFitsRequest, Places, Answers, MaxRetry, InTx
<1>1. ASSUME NEW h \in Handlers, ArriveCreate(h) PROVE Typed'
  BY <1>1 DEF ArriveCreate, Arrive, Request
<1>2. ASSUME NEW h \in Handlers, ArriveUpdate(h) PROVE Typed'
  BY <1>2 DEF ArriveUpdate, Arrive, Request
<1>3. ASSUME NEW h \in Handlers, ArriveDelete(h) PROVE Typed'
  BY <1>3 DEF ArriveDelete, Arrive, Request
<1>4. ASSUME NEW h \in Handlers, Generate(h) PROVE Typed'
  BY <1>4 DEF Generate
<1>5. ASSUME NEW h \in Handlers, InsertOk(h) PROVE Typed'
  BY <1>5 DEF InsertOk, InsertRow, Answer, Row, CreateRequest, Status, Pending, Cancelled
<1>6. ASSUME NEW h \in Handlers, InsertDuplicate(h) PROVE Typed'
  <2>1. CASE tries[h] + 1 < MaxRetry
    <3>1. /\ tries' = [tries EXCEPT ![h] = tries[h] + 1]
          /\ num' = [num EXCEPT ![h] = None]
          /\ pc' = [pc EXCEPT ![h] = "generate"]
          /\ UNCHANGED <<orders, logs, lastId, lock, req, seen, staged, resp, placed>>
      BY <1>6, <2>1 DEF InsertDuplicate
    <3>2. tries' \in [Handlers -> 0..(MaxRetry - 1)]
      <4>1. tries[h] + 1 \in 0..(MaxRetry - 1)
        <5>1. tries \in [Handlers -> 0..(MaxRetry - 1)]
          BY DEF Typed, TypeOK
        <5>2. tries[h] \in 0..2
          BY <5>1
        <5> QED
          BY <2>1, <5>2
      <4> QED
        BY <3>1, <4>1
    <3>3. req[h] \in CreateRequest
      BY <1>6 DEF InsertDuplicate
    <3> QED
      BY <3>1, <3>2, <3>3
  <2>2. CASE ~(tries[h] + 1 < MaxRetry)
    <3>1. /\ Answer(h, "internal")
          /\ UNCHANGED <<orders, logs, lastId, lock, staged, placed>>
      BY <1>6, <2>2 DEF InsertDuplicate
    <3> QED
      BY <3>1 DEF Answer, Status, Pending, Cancelled
  <2> QED
    BY <2>1, <2>2
<1>7. ASSUME NEW h \in Handlers, InsertExhausted(h) PROVE Typed'
  BY <1>7 DEF InsertExhausted, Answer, Status, Pending, Cancelled
<1>8. ASSUME NEW h \in Handlers, RejectForeign(h) PROVE Typed'
  BY <1>8 DEF RejectForeign, Answer, Status, Pending, Cancelled
<1>9. ASSUME NEW h \in Handlers, RejectStatus(h) PROVE Typed'
  BY <1>9 DEF RejectStatus, Answer, Status, Pending, Cancelled
<1>10. ASSUME NEW h \in Handlers, Accept(h) PROVE Typed'
  BY <1>10 DEF Accept, MayActOn, Owned, Exists, Row, UpdateRequest, DeleteRequest
<1>11. ASSUME NEW h \in Handlers, ChangeStatus(h) PROVE Typed'
  <2>1. req[h] \in UpdateRequest /\ req[h].id \in OrderIds
    BY <1>11 DEF ChangeStatus, UpdateRequest
  <2>2. CASE StillAsSeen(h)
    <3>1. /\ lock' = [lock EXCEPT ![req[h].id] = h]
          /\ staged' = [staged EXCEPT ![h] = {"status"}]
          /\ pc' = [pc EXCEPT ![h] = "log"]
          /\ UNCHANGED <<orders, logs, lastId, req, seen, num, tries, resp, placed>>
      BY <1>11, <2>2 DEF ChangeStatus
    <3>2. staged' \in [Handlers -> SUBSET {"status", "log"}]
      BY <3>1
    <3>3. lock' \in [OrderIds -> Handlers \cup {None}]
      BY <2>1, <3>1
    <3>4. pc' = [pc EXCEPT ![h] = "log"]
      BY <3>1
    <3>5. TypeOK'
      BY <3>1, <3>2, <3>3, <3>4
    <3>6. PlaceFitsRequest'
      BY <2>1, <3>1, <3>4
    <3> QED
      BY <3>5, <3>6
  <2>3. CASE ~StillAsSeen(h)
    <3>1. /\ lock' = [lock EXCEPT ![req[h].id] = h]
          /\ resp' = [resp EXCEPT ![h] = "badStatus"]
          /\ pc' = [pc EXCEPT ![h] = "rollback"]
          /\ UNCHANGED <<orders, logs, lastId, req, seen, num, tries, staged, placed>>
      BY <1>11, <2>3 DEF ChangeStatus
    <3>2. lock' \in [OrderIds -> Handlers \cup {None}]
      BY <2>1, <3>1
    <3>3. TypeOK'
      BY <3>1, <3>2
    <3>4. PlaceFitsRequest'
      BY <2>1, <3>1
    <3> QED
      BY <3>3, <3>4
  <2> QED
    BY <2>2, <2>3
<1>12. ASSUME NEW h \in Handlers, AppendLog(h) PROVE Typed'
  BY <1>12 DEF AppendLog
<1>13. ASSUME NEW h \in Handlers, Commit(h) PROVE Typed'
  <2>1. /\ req[h] \in UpdateRequest /\ req[h].id \in OrderIds
        /\ req[h].to \in Status /\ req[h].user \in Users
    BY <1>13 DEF Commit, UpdateRequest
  <2>2. logs' \in [OrderIds -> Seq(Log)]
    <3>1. LogRow(h) \in Log
      BY <2>1 DEF LogRow, Log
    <3> QED
      BY <1>13, <2>1, <3>1 DEF Commit
  <2>3. orders' \in [OrderIds -> Row \cup {None}]
    <3>1. CASE "status" \in staged[h] /\ Exists(orders, req[h].id)
      <4>0. orders[req[h].id] \in Row
        BY <2>1, <3>1 DEF Exists
      <4>1. [orders[req[h].id] EXCEPT !.status = req[h].to] \in Row
        BY <2>1, <4>0 DEF Row
      <4>2. orders' = [orders EXCEPT ![req[h].id] = [@ EXCEPT !.status = req[h].to]]
        BY <1>13, <3>1 DEF Commit
      <4> QED
        BY <2>1, <4>1, <4>2
    <3>2. CASE ~("status" \in staged[h] /\ Exists(orders, req[h].id))
      BY <1>13, <3>2 DEF Commit
    <3> QED
      BY <3>1, <3>2
  <2> QED
    BY <1>13, <2>1, <2>2, <2>3 DEF Commit, Release, Answer, Status, Pending, Cancelled
<1>14. ASSUME NEW h \in Handlers, Rollback(h) PROVE Typed'
  BY <1>14 DEF Rollback, Release, Answer, UpdateRequest, Status, Pending, Cancelled
<1>15. ASSUME NEW h \in Handlers, DeleteRow(h) PROVE Typed'
  BY <1>15 DEF DeleteRow, Answer, DeleteRequest, Status, Pending, Cancelled
<1>16. ASSUME NEW h \in Handlers, Fail(h) PROVE Typed'
  BY <1>16 DEF Fail, Answer, Status, Pending, Cancelled
<1>17. ASSUME NEW h \in Handlers, FailInTx(h) PROVE Typed'
  BY <1>17 DEF FailInTx
<1>18. ASSUME NEW h \in Handlers, Die(h) PROVE Typed'
  BY <1>18 DEF Die, Answer, Status, Pending, Cancelled
<1>19. ASSUME UNCHANGED vars PROVE Typed'
  BY <1>19 DEF vars
<1> QED
  BY <1>1, <1>2, <1>3, <1>4, <1>5, <1>6, <1>7, <1>8, <1>9, <1>10, <1>11, <1>12, <1>13,
     <1>14, <1>15, <1>16, <1>17, <1>18, <1>19 DEF Next, Serve

\* The type invariant of Orders, for every value of the constants.
THEOREM TypeCorrect == Spec => []TypeOK
<1>1. Spec => []Typed
  BY TypedInit, TypedNext, PTL DEF Spec
<1>2. Typed => TypeOK
  BY DEF Typed
<1> QED
  BY <1>1, <1>2, PTL

-----------------------------------------------------------------------------
\* An open transaction holds the lock of its row and nothing else does.

Locked ==
  /\ \A h \in Handlers : pc[h] \in InTx => lock[req[h].id] = h
  /\ LocksAreInTx

LEMMA LockedInit == Init => Locked
BY NoneIsFresh DEF Init, Locked, LocksAreInTx, InTx

LEMMA LockedNext == Typed /\ Locked /\ [Next]_vars => Locked'
<1> SUFFICES ASSUME Typed, Locked, [Next]_vars PROVE Locked'
  OBVIOUS
<1>0. /\ pc \in [Handlers -> Places]
      /\ req \in [Handlers -> Request \cup {None}]
      /\ lock \in [OrderIds -> Handlers \cup {None}]
      /\ \A h \in Handlers : pc[h] \in {"change", "log", "commit", "rollback"} =>
           req[h] \in UpdateRequest /\ req[h].id \in OrderIds
  BY DEF Typed, TypeOK, PlaceFitsRequest, UpdateRequest
<1> USE NoneIsFresh DEF Locked, LocksAreInTx, InTx
\* Outside a transaction, before and after.
<1>1. ASSUME NEW h \in Handlers, NEW p, UNCHANGED lock,
             pc[h] \notin InTx, p \notin InTx, pc' = [pc EXCEPT ![h] = p],
             \A g \in Handlers \ {h} : req'[g] = req[g]
      PROVE  Locked'
  BY <1>0, <1>1
\* Inside one transaction, before and after.
<1>2. ASSUME NEW h \in Handlers, NEW p, UNCHANGED <<lock, req>>,
             pc[h] \in InTx, p \in InTx, pc' = [pc EXCEPT ![h] = p]
      PROVE  Locked'
  BY <1>0, <1>2
<1>3. ASSUME NEW h \in Handlers, ArriveCreate(h) \/ ArriveUpdate(h) \/ ArriveDelete(h)
      PROVE  Locked'
  BY <1>0, <1>1, <1>3 DEF ArriveCreate, ArriveUpdate, ArriveDelete, Arrive
<1>4. ASSUME NEW h \in Handlers, Generate(h) \/ Accept(h) PROVE Locked'
  BY <1>0, <1>1, <1>4 DEF Generate, Accept
<1>5. ASSUME NEW h \in Handlers,
             \/ InsertOk(h) \/ InsertExhausted(h) \/ RejectForeign(h) \/ RejectStatus(h)
             \/ DeleteRow(h) \/ Fail(h)
      PROVE  Locked'
  BY <1>0, <1>1, <1>5 DEF InsertOk, InsertExhausted, RejectForeign, RejectStatus, DeleteRow,
                          Fail, Answer
<1>6. ASSUME NEW h \in Handlers, InsertDuplicate(h) PROVE Locked'
  BY <1>0, <1>1, <1>6 DEF InsertDuplicate, Answer
<1>7. ASSUME NEW h \in Handlers, ChangeStatus(h) PROVE Locked'
  <2>1. /\ lock[req[h].id] = None /\ pc[h] = "change"
        /\ lock' = [lock EXCEPT ![req[h].id] = h]
        /\ pc' = [pc EXCEPT ![h] = "log"] \/ pc' = [pc EXCEPT ![h] = "rollback"]
        /\ req' = req
    BY <1>7 DEF ChangeStatus
  <2> QED
    BY <1>0, <2>1
<1>8. ASSUME NEW h \in Handlers, AppendLog(h) \/ FailInTx(h) PROVE Locked'
  BY <1>0, <1>2, <1>8 DEF AppendLog, FailInTx
<1>9. ASSUME NEW h \in Handlers, Commit(h) \/ Rollback(h) PROVE Locked'
  <2>1. /\ pc[h] \in {"commit", "rollback"}
        /\ lock' = [lock EXCEPT ![req[h].id] = None]
        /\ pc' = [pc EXCEPT ![h] = "idle"]
        /\ req' = [req EXCEPT ![h] = None]
    BY <1>9 DEF Commit, Rollback, Release, Answer
  <2> QED
    BY <1>0, <2>1
<1>10. ASSUME NEW h \in Handlers, Die(h) PROVE Locked'
  <2>1. /\ lock' = [id \in OrderIds |-> IF lock[id] = h THEN None ELSE lock[id]]
        /\ pc' = [pc EXCEPT ![h] = "idle"]
        /\ req' = [req EXCEPT ![h] = None]
    BY <1>10 DEF Die, Answer
  <2> QED
    BY <1>0, <2>1
<1>11. ASSUME UNCHANGED vars PROVE Locked'
  BY <1>11 DEF vars
<1> QED
  BY <1>3, <1>4, <1>5, <1>6, <1>7, <1>8, <1>9, <1>10, <1>11 DEF Next, Serve

\* No path out of UpdateOrderStatus leaves a row lock behind.
THEOREM NoLockLeaks == Spec => []LocksAreInTx
<1>1. Spec => []Typed
  BY TypedInit, TypedNext, PTL DEF Spec
<1>2. Spec => []Locked
  BY <1>1, LockedInit, LockedNext, PTL DEF Spec
<1>3. Locked => LocksAreInTx
  BY DEF Locked
<1> QED
  BY <1>2, <1>3, PTL

-----------------------------------------------------------------------------
\* What a handler that passed its checks knows of its order.  The status it
\* read may be stale, except while it holds the row lock; the owner cannot be,
\* because a key is never issued twice.

Informed(h) ==
  /\ pc[h] = "log" => staged[h] = {"status"}
  /\ pc[h] = "commit" => staged[h] = {"status", "log"}
  /\ pc[h] \in {"change", "log", "commit"} => ValidTransition(seen[h], req[h].to)
  /\ pc[h] \in {"log", "commit"} =>
       Exists(orders, req[h].id) /\ orders[req[h].id].status = seen[h]
  /\ pc[h] \in {"change", "log", "commit", "delete"} =>
       /\ req[h].id <= lastId
       /\ Exists(orders, req[h].id) => orders[req[h].id].owner = req[h].user
  /\ pc[h] = "delete" /\ seen[h] = Cancelled /\ Exists(orders, req[h].id) =>
       orders[req[h].id].status = Cancelled

\* Keys above the counter were never used.
Fresh == \A id \in OrderIds : id > lastId => orders[id] = None /\ logs[id] = <<>>

Consistent == Fresh /\ \A h \in Handlers : Informed(h)

LEMMA ConsistentInit == Init => Consistent
BY DEF Init, Consistent, Fresh, Informed

\* The steps that touch neither the tables nor another handler.
LEMMA LocalStep ==
  ASSUME NEW h \in Handlers, Consistent,
         UNCHANGED <<orders, logs, lastId>>,
         \A g \in Handlers \ {h} : /\ pc'[g] = pc[g] /\ req'[g] = req[g]
                                   /\ seen'[g] = seen[g] /\ staged'[g] = staged[g],
         Informed(h)'
  PROVE  Consistent'
<1>1. Fresh'
  BY DEF Consistent, Fresh
<1>2. ASSUME NEW g \in Handlers \ {h} PROVE Informed(g)'
  BY DEF Consistent, Informed
<1> QED
  BY <1>1, <1>2 DEF Consistent

\* What Commit does to the tables, once its staged writes are known.
LEMMA CommitEffect ==
  ASSUME NEW h \in Handlers, Typed, Consistent, Commit(h)
  PROVE  /\ req[h] \in UpdateRequest /\ req[h].id \in OrderIds
         /\ Exists(orders, req[h].id)
         /\ orders[req[h].id].status = seen[h]
         /\ orders[req[h].id].owner = req[h].user
         /\ req[h].id <= lastId
         /\ ValidTransition(seen[h], req[h].to)
         /\ orders' = [orders EXCEPT ![req[h].id] = [@ EXCEPT !.status = req[h].to]]
         /\ logs' = [logs EXCEPT ![req[h].id] = Append(@, LogRow(h))]
<1>1. pc[h] = "commit" /\ Informed(h)
  BY DEF Consistent, Commit
<1>2. req[h] \in UpdateRequest /\ req[h].id \in OrderIds
  BY <1>1 DEF Typed, PlaceFitsRequest, UpdateRequest
<1>3. /\ staged[h] = {"status", "log"} /\ Exists(orders, req[h].id)
      /\ orders[req[h].id].status = seen[h] /\ orders[req[h].id].owner = req[h].user
      /\ req[h].id <= lastId /\ ValidTransition(seen[h], req[h].to)
  BY <1>1 DEF Informed
<1> QED
  BY <1>2, <1>3 DEF Commit

LEMMA ConsistentNext == Typed /\ Locked /\ Consistent /\ [Next]_vars => Consistent'
<1> SUFFICES ASSUME Typed, Locked, Consistent, [Next]_vars PROVE Consistent'
  OBVIOUS
<1>0. /\ pc \in [Handlers -> Places]
      /\ req \in [Handlers -> Request \cup {None}]
      /\ seen \in [Handlers -> Status]
      /\ staged \in [Handlers -> SUBSET {"status", "log"}]
      /\ orders \in [OrderIds -> Row \cup {None}]
      /\ logs \in [OrderIds -> Seq(Log)]
      /\ lastId \in Int
      /\ OrderIds \subseteq Int
      /\ \A h \in Handlers : pc[h] \in {"change", "log", "commit", "rollback", "read", "delete"} =>
           req[h].id \in OrderIds
  BY OrderIdsAreNumbers DEF Typed, TypeOK, PlaceFitsRequest, UpdateRequest, DeleteRequest
\* A handler that ends up outside the checked part of the code knows nothing.
<1>1. ASSUME NEW h \in Handlers, NEW p \in Places \ {"change", "log", "commit", "delete"},
             UNCHANGED <<orders, logs, lastId>>,
             pc' = [pc EXCEPT ![h] = p],
             \A g \in Handlers \ {h} : /\ req'[g] = req[g] /\ seen'[g] = seen[g]
                                       /\ staged'[g] = staged[g]
      PROVE  Consistent'
  <2>1. Informed(h)'
    BY <1>0, <1>1 DEF Informed
  <2> QED
    BY <1>0, <1>1, <2>1, LocalStep
<1>2. ASSUME NEW h \in Handlers, ArriveCreate(h) \/ ArriveUpdate(h) \/ ArriveDelete(h)
      PROVE  Consistent'
  BY <1>0, <1>1, <1>2 DEF ArriveCreate, ArriveUpdate, ArriveDelete, Arrive, Places
<1>3. ASSUME NEW h \in Handlers,
             \/ Generate(h) \/ InsertExhausted(h) \/ RejectForeign(h) \/ RejectStatus(h)
             \/ Fail(h) \/ FailInTx(h)
      PROVE  Consistent'
  BY <1>0, <1>1, <1>3 DEF Generate, InsertExhausted, RejectForeign, RejectStatus, Fail,
                          FailInTx, Answer, Places
<1>4. ASSUME NEW h \in Handlers, InsertDuplicate(h) PROVE Consistent'
  <2>1. CASE tries[h] + 1 < MaxRetry
    BY <1>0, <1>1, <1>4, <2>1 DEF InsertDuplicate, Places
  <2>2. CASE ~(tries[h] + 1 < MaxRetry)
    BY <1>0, <1>1, <1>4, <2>2 DEF InsertDuplicate, Answer, Places
  <2> QED
    BY <2>1, <2>2
<1>5. ASSUME NEW h \in Handlers, Rollback(h) \/ Die(h) PROVE Consistent'
  BY <1>0, <1>1, <1>5 DEF Rollback, Die, Release, Answer, Places
<1>6. ASSUME NEW h \in Handlers, InsertOk(h) PROVE Consistent'
  <2>1. PICK id \in OrderIds :
          /\ id > lastId /\ lastId' = id
          /\ orders' = [orders EXCEPT ![id] =
               [owner |-> req[h].user, no |-> num[h], status |-> Pending]]
          /\ pc' = [pc EXCEPT ![h] = "idle"]
          /\ req' = [req EXCEPT ![h] = None]
          /\ seen' = [seen EXCEPT ![h] = Pending]
          /\ UNCHANGED <<logs, staged>>
    BY <1>6 DEF InsertOk, InsertRow, Answer
  <2>2. Fresh'
    BY <1>0, <2>1 DEF Consistent, Fresh
  <2>3. Informed(h)'
    BY <1>0, <2>1 DEF Informed
  <2>4. ASSUME NEW g \in Handlers \ {h} PROVE Informed(g)'
    <3>1. /\ pc'[g] = pc[g] /\ req'[g] = req[g] /\ seen'[g] = seen[g] /\ staged'[g] = staged[g]
          /\ Informed(g)
      BY <1>0, <2>1 DEF Consistent
    <3>2. CASE pc[g] \in {"change", "log", "commit", "delete"}
      <4>1. req[g].id \in OrderIds /\ req[g].id <= lastId
        BY <1>0, <3>1, <3>2 DEF Informed
      <4>2. orders'[req[g].id] = orders[req[g].id] /\ req[g].id <= lastId'
        BY <1>0, <2>1, <4>1
      <4> QED
        BY <3>1, <4>2 DEF Informed, Exists
    <3>3. CASE pc[g] \notin {"change", "log", "commit", "delete"}
      BY <3>1, <3>3 DEF Informed
    <3> QED
      BY <3>2, <3>3
  <2> QED
    BY <2>2, <2>3, <2>4 DEF Consistent
<1>7. ASSUME NEW h \in Handlers, Accept(h) PROVE Consistent'
  <2>1. /\ pc[h] = "read" /\ Exists(orders, req[h].id)
        /\ orders[req[h].id].owner = req[h].user
        /\ Permitted(h, orders[req[h].id].status)
        /\ seen' = [seen EXCEPT ![h] = orders[req[h].id].status]
        /\ pc' = [pc EXCEPT ![h] = IF req[h].kind = "update" THEN "change" ELSE "delete"]
        /\ UNCHANGED <<orders, logs, lastId, req, staged>>
    BY <1>7 DEF Accept, MayActOn, Owned, Exists
  <2>2. req[h].id \in OrderIds /\ req[h].id <= lastId
    <3>1. req[h].id \in OrderIds /\ req[h].id \in Int
      BY <1>0, <2>1
    <3>2. ~(req[h].id > lastId)
      BY <2>1, <3>1 DEF Consistent, Fresh, Exists
    <3> QED
      BY <1>0, <3>1, <3>2
  <2>3. CASE req[h].kind = "update"
    <3>1. pc'[h] = "change" /\ ValidTransition(seen'[h], req'[h].to)
      BY <1>0, <2>1, <2>3 DEF Permitted
    <3>2. Informed(h)'
      BY <2>1, <2>2, <3>1 DEF Informed, Exists
    <3> QED
      BY <1>0, <2>1, <3>2, LocalStep
  <2>4. CASE req[h].kind # "update"
    <3>1. pc'[h] = "delete" /\ seen'[h] = orders[req[h].id].status
      BY <1>0, <2>1, <2>4
    <3>2. Informed(h)'
      BY <2>1, <2>2, <3>1 DEF Informed, Exists
    <3> QED
      BY <1>0, <2>1, <3>2, LocalStep
  <2> QED
    BY <2>3, <2>4
<1>8. ASSUME NEW h \in Handlers, ChangeStatus(h) PROVE Consistent'
  <2>1. CASE StillAsSeen(h)
    <3>1. /\ pc[h] = "change"
          /\ staged' = [staged EXCEPT ![h] = {"status"}]
          /\ pc' = [pc EXCEPT ![h] = "log"]
          /\ UNCHANGED <<orders, logs, lastId, req, seen>>
      BY <1>8, <2>1 DEF ChangeStatus
    <3>2. Informed(h)'
      BY <1>0, <2>1, <3>1 DEF Consistent, Informed, StillAsSeen, Exists
    <3> QED
      BY <1>0, <3>1, <3>2, LocalStep
  <2>2. CASE ~StillAsSeen(h)
    BY <1>0, <1>1, <1>8, <2>2 DEF ChangeStatus, Places
  <2> QED
    BY <2>1, <2>2
<1>9. ASSUME NEW h \in Handlers, AppendLog(h) PROVE Consistent'
  <2>1. /\ pc[h] = "log"
        /\ staged' = [staged EXCEPT ![h] = @ \cup {"log"}]
        /\ pc' = [pc EXCEPT ![h] = "commit"]
        /\ UNCHANGED <<orders, logs, lastId, req, seen>>
    BY <1>9 DEF AppendLog
  <2>2. Informed(h)'
    BY <1>0, <2>1 DEF Consistent, Informed
  <2> QED
    BY <1>0, <2>1, <2>2, LocalStep
<1>10. ASSUME NEW h \in Handlers, Commit(h) PROVE Consistent'
  <2> DEFINE id == req[h].id
  <2>1. /\ id \in OrderIds /\ id <= lastId /\ Exists(orders, id)
        /\ orders[id].status = seen[h] /\ ValidTransition(seen[h], req[h].to)
        /\ orders' = [orders EXCEPT ![id] = [@ EXCEPT !.status = req[h].to]]
        /\ logs' = [logs EXCEPT ![id] = Append(@, LogRow(h))]
    BY <1>10, CommitEffect
  <2>2. /\ pc[h] = "commit" /\ pc' = [pc EXCEPT ![h] = "idle"]
        /\ req' = [req EXCEPT ![h] = None]
        /\ seen' = [seen EXCEPT ![h] = Pending]
        /\ staged' = [staged EXCEPT ![h] = {}]
        /\ UNCHANGED lastId
    BY <1>10 DEF Commit, Release, Answer
  <2>3. orders[id] \in Row
    BY <1>0, <2>1 DEF Exists
  <2>4. Fresh'
    BY <1>0, <2>1, <2>2 DEF Consistent, Fresh
  <2>5. Informed(h)'
    BY <1>0, <2>2 DEF Informed
  <2>6. ASSUME NEW g \in Handlers \ {h} PROVE Informed(g)'
    <3>1. /\ pc'[g] = pc[g] /\ req'[g] = req[g] /\ seen'[g] = seen[g] /\ staged'[g] = staged[g]
          /\ Informed(g)
      BY <1>0, <2>2 DEF Consistent
    <3>2. CASE pc[g] \in {"change", "log", "commit", "delete"} /\ req[g].id = id
      <4>1. pc[g] \notin InTx
        BY <2>2, <3>2 DEF Locked, InTx
      <4>2. orders'[id].owner = orders[id].owner /\ Exists(orders', id)
        <5>1. req[h].to \in Status
          BY <1>10, CommitEffect DEF UpdateRequest
        <5>2. [orders[id] EXCEPT !.status = req[h].to] \in Row
          BY <2>3, <5>1 DEF Row
        <5>3. orders'[id] = [orders[id] EXCEPT !.status = req[h].to]
          BY <1>0, <2>1
        <5> QED
          BY <2>3, <5>2, <5>3, NoneIsNoRow DEF Row, Exists
      <4>3. seen[h] # Cancelled
        BY <2>1 DEF ValidTransition, Transitions, Pending, Paid, Shipped, Completed, Cancelled
      <4>4. ~(pc[g] = "delete" /\ seen[g] = Cancelled)
        BY <2>1, <3>1, <3>2, <4>3 DEF Informed
      <4> QED
        BY <2>1, <2>2, <3>1, <3>2, <4>1, <4>2, <4>4 DEF Informed, Exists, InTx
    <3>3. CASE pc[g] \in {"change", "log", "commit", "delete"} /\ req[g].id # id
      <4>1. req[g].id \in OrderIds /\ orders'[req[g].id] = orders[req[g].id]
        BY <1>0, <2>1, <3>3
      <4> QED
        BY <2>2, <3>1, <4>1 DEF Informed, Exists
    <3>4. CASE pc[g] \notin {"change", "log", "commit", "delete"}
      BY <3>1, <3>4 DEF Informed
    <3> QED
      BY <3>2, <3>3, <3>4
  <2> QED
    BY <2>4, <2>5, <2>6 DEF Consistent
<1>11. ASSUME NEW h \in Handlers, DeleteRow(h) PROVE Consistent'
  <2> DEFINE id == req[h].id
  <2>1. /\ pc[h] = "delete" /\ lock[id] = None
        /\ orders' = [orders EXCEPT ![id] = None]
        /\ pc' = [pc EXCEPT ![h] = "idle"]
        /\ req' = [req EXCEPT ![h] = None]
        /\ seen' = [seen EXCEPT ![h] = Pending]
        /\ UNCHANGED <<logs, lastId, staged>>
    BY <1>11 DEF DeleteRow, Answer
  <2>2. id \in OrderIds
    BY <1>0, <2>1
  <2>3. Fresh'
    BY <1>0, <2>1, <2>2 DEF Consistent, Fresh
  <2>4. Informed(h)'
    BY <1>0, <2>1 DEF Informed
  <2>5. ASSUME NEW g \in Handlers \ {h} PROVE Informed(g)'
    <3>1. /\ pc'[g] = pc[g] /\ req'[g] = req[g] /\ seen'[g] = seen[g] /\ staged'[g] = staged[g]
          /\ Informed(g)
      BY <1>0, <2>1 DEF Consistent
    <3>2. CASE pc[g] \in {"log", "commit"}
      <4>1. req[g].id # id /\ req[g].id \in OrderIds
        BY <1>0, <2>1, <3>2, NoneIsFresh DEF Locked, InTx
      <4>2. orders'[req[g].id] = orders[req[g].id]
        BY <1>0, <2>1, <4>1
      <4> QED
        BY <2>1, <3>1, <4>2 DEF Informed, Exists
    <3>3. CASE pc[g] \in {"change", "delete"}
      <4>1. \/ ~Exists(orders', req[g].id)
            \/ orders'[req[g].id] = orders[req[g].id]
        BY <1>0, <2>1, <2>2, <3>3 DEF Exists
      <4> QED
        BY <2>1, <3>1, <3>3, <4>1 DEF Informed, Exists
    <3>4. CASE pc[g] \notin {"change", "log", "commit", "delete"}
      BY <3>1, <3>4 DEF Informed
    <3> QED
      BY <3>2, <3>3, <3>4
  <2> QED
    BY <2>3, <2>4, <2>5 DEF Consistent
<1>12. ASSUME UNCHANGED vars PROVE Consistent'
  BY <1>12 DEF vars, Consistent, Fresh, Informed
<1> QED
  BY <1>2, <1>3, <1>4, <1>5, <1>6, <1>7, <1>8, <1>9, <1>10, <1>11, <1>12 DEF Next, Serve

-----------------------------------------------------------------------------
\* The three layers together.
OrdersInv == Typed /\ Locked /\ Consistent

LEMMA OrdersInvariant == Spec => []OrdersInv
<1>1. Init => OrdersInv
  BY TypedInit, LockedInit, ConsistentInit DEF OrdersInv
<1>2. OrdersInv /\ [Next]_vars => OrdersInv'
  BY TypedNext, LockedNext, ConsistentNext DEF OrdersInv
<1> QED
  BY <1>1, <1>2, PTL DEF Spec

\* Only three actions write the tables.
LEMMA TableSteps ==
  ASSUME [Next]_vars
  PROVE  \/ UNCHANGED <<orders, logs, lastId>>
         \/ \E h \in Handlers : InsertOk(h) \/ Commit(h) \/ DeleteRow(h)
BY DEF Next, Serve, vars, ArriveCreate, ArriveUpdate, ArriveDelete, Arrive, Generate,
       InsertDuplicate, InsertExhausted, RejectForeign, RejectStatus, Accept, ChangeStatus,
       AppendLog, Rollback, Fail, FailInTx, Die

-----------------------------------------------------------------------------
\* Lemmas about the logs of one order.

LEMMA AppendKeepsWalk ==
  ASSUME NEW log \in Seq(Log), NEW e \in Log, IsWalk(log),
         e.from = LoggedStatus(log), ValidTransition(e.from, e.to)
  PROVE  IsWalk(Append(log, e)) /\ LoggedStatus(Append(log, e)) = e.to
<1> DEFINE new == Append(log, e)
<1>1. /\ Len(new) = Len(log) + 1 /\ Len(log) \in Nat
      /\ new # <<>> /\ new[Len(log) + 1] = e
      /\ \A i \in 1..Len(log) : new[i] = log[i]
  OBVIOUS
<1>2. log = <<>> <=> Len(log) = 0
  OBVIOUS
<1>3. \A i \in 1..Len(new) : ValidTransition(new[i].from, new[i].to)
  BY <1>1 DEF IsWalk
<1>4. new[1].from = Pending
  BY <1>1, <1>2 DEF IsWalk, LoggedStatus
<1>5. ASSUME NEW i \in 1..(Len(new) - 1) PROVE new[i].to = new[i + 1].from
  <2>1. CASE i = Len(log)
    BY <1>1, <1>2, <2>1 DEF LoggedStatus
  <2>2. CASE i < Len(log)
    BY <1>1, <2>2 DEF IsWalk
  <2> QED
    BY <1>1, <2>1, <2>2
<1>6. LoggedStatus(new) = e.to
  BY <1>1 DEF LoggedStatus
<1> QED
  BY <1>3, <1>4, <1>5, <1>6 DEF IsWalk

\* The status graph only leads up, so a log never returns to a status.
Rising(log) ==
  /\ \A i \in 1..Len(log) : log[i].from < LoggedStatus(log)
  /\ \A i, j \in 1..Len(log) : i < j => log[i].from < log[j].from

LEMMA LogStatusesAreNumbers ==
  ASSUME NEW log \in Seq(Log), NEW i \in 1..Len(log)
  PROVE  log[i].from \in Int
<1>1. log[i] \in Log
  OBVIOUS
<1>2. log[i].from \in Status
  BY <1>1 DEF Log
<1> QED
  BY <1>2 DEF Status, Pending, Cancelled

LEMMA AppendKeepsRising ==
  ASSUME NEW log \in Seq(Log), NEW e \in Log, Rising(log),
         e.from = LoggedStatus(log), ValidTransition(e.from, e.to)
  PROVE  Rising(Append(log, e))
<1> DEFINE new == Append(log, e)
<1>1. /\ Len(new) = Len(log) + 1 /\ Len(log) \in Nat
      /\ new # <<>> /\ new[Len(log) + 1] = e
      /\ \A i \in 1..Len(log) : new[i] = log[i]
  OBVIOUS
<1>2. LoggedStatus(new) = e.to
  BY <1>1 DEF LoggedStatus
<1>3. e.from < e.to /\ e.from \in Int /\ e.to \in Int
  BY DEF ValidTransition, Transitions, Pending, Paid, Shipped, Completed, Cancelled
<1>4. \A i \in 1..Len(log) : log[i].from \in Int
  BY LogStatusesAreNumbers
<1>5. ASSUME NEW i \in 1..Len(new) PROVE new[i].from < LoggedStatus(new)
  BY <1>1, <1>2, <1>3, <1>4 DEF Rising
<1>6. ASSUME NEW i \in 1..Len(new), NEW j \in 1..Len(new), i < j
      PROVE  new[i].from < new[j].from
  <2>1. i \in 1..Len(log)
    BY <1>1, <1>6
  <2>2. CASE j = Len(log) + 1
    BY <1>1, <2>1, <2>2 DEF Rising
  <2>3. CASE j # Len(log) + 1
    BY <1>1, <1>6, <2>1, <2>3 DEF Rising
  <2> QED
    BY <2>2, <2>3
<1> QED
  BY <1>5, <1>6 DEF Rising

-----------------------------------------------------------------------------
\* The logs and the table agree.

LogsInv == LogTellsStatus /\ \A id \in OrderIds : Rising(logs[id])

LEMMA LogsInit == Init => LogsInv
BY DEF Init, LogsInv, LogTellsStatus, IsWalk, Rising, Exists

LEMMA LogsNext == OrdersInv /\ LogsInv /\ [Next]_vars => LogsInv'
<1> SUFFICES ASSUME OrdersInv, LogsInv, [Next]_vars PROVE LogsInv'
  OBVIOUS
<1>0. /\ orders \in [OrderIds -> Row \cup {None}]
      /\ logs \in [OrderIds -> Seq(Log)]
  BY DEF OrdersInv, Typed, TypeOK
<1>1. CASE UNCHANGED <<orders, logs, lastId>>
  BY <1>1 DEF LogsInv, LogTellsStatus, Exists
<1>2. ASSUME NEW h \in Handlers, InsertOk(h) PROVE LogsInv'
  <2>1. PICK id \in OrderIds :
          /\ id > lastId
          /\ orders' = [orders EXCEPT ![id] =
               [owner |-> req[h].user, no |-> num[h], status |-> Pending]]
          /\ UNCHANGED logs
    BY <1>2 DEF InsertOk, InsertRow
  <2>2. logs[id] = <<>> /\ LoggedStatus(logs[id]) = Pending
    BY <2>1 DEF OrdersInv, Consistent, Fresh, LoggedStatus
  <2>3. \A i \in OrderIds : Exists(orders', i) => orders'[i].status = LoggedStatus(logs'[i])
    BY <1>0, <2>1, <2>2 DEF LogsInv, LogTellsStatus, Exists
  <2> QED
    BY <2>1, <2>3 DEF LogsInv, LogTellsStatus
<1>3. ASSUME NEW h \in Handlers, Commit(h) PROVE LogsInv'
  <2> DEFINE id == req[h].id
             new == Append(logs[id], LogRow(h))
  <2>1. /\ req[h] \in UpdateRequest /\ id \in OrderIds /\ Exists(orders, id)
        /\ orders[id].status = seen[h] /\ ValidTransition(seen[h], req[h].to)
        /\ orders' = [orders EXCEPT ![id] = [@ EXCEPT !.status = req[h].to]]
        /\ logs' = [logs EXCEPT ![id] = new]
    BY <1>3, CommitEffect DEF OrdersInv
  <2>2. LogRow(h) \in Log /\ LogRow(h).from = seen[h] /\ LogRow(h).to = req[h].to
    BY <2>1 DEF LogRow, Log, UpdateRequest, OrdersInv, Typed, TypeOK
  <2>3. /\ IsWalk(logs[id]) /\ Rising(logs[id]) /\ logs[id] \in Seq(Log)
        /\ LogRow(h).from = LoggedStatus(logs[id])
    BY <1>0, <2>1, <2>2 DEF LogsInv, LogTellsStatus
  <2>4. IsWalk(new) /\ Rising(new) /\ LoggedStatus(new) = req[h].to
    BY <2>1, <2>2, <2>3, AppendKeepsWalk, AppendKeepsRising
  <2>5. logs'[id] = new /\ \A i \in OrderIds \ {id} : logs'[i] = logs[i] /\ orders'[i] = orders[i]
    BY <1>0, <2>1
  <2>6. orders'[id].status = req[h].to
    BY <1>0, <2>1, NoneIsNoRow DEF Exists, Row
  <2> QED
    BY <2>4, <2>5, <2>6 DEF LogsInv, LogTellsStatus, Exists
<1>4. ASSUME NEW h \in Handlers, DeleteRow(h) PROVE LogsInv'
  <2>1. \A i \in OrderIds : Exists(orders', i) => Exists(orders, i) /\ orders'[i] = orders[i]
    BY <1>0, <1>4 DEF DeleteRow, Exists
  <2>2. UNCHANGED logs
    BY <1>4 DEF DeleteRow
  <2> QED
    BY <2>1, <2>2 DEF LogsInv, LogTellsStatus
<1> QED
  BY <1>1, <1>2, <1>3, <1>4, TableSteps

LEMMA LogsInvariant == Spec => []LogsInv
BY OrdersInvariant, LogsInit, LogsNext, PTL DEF Spec

\* Status and log change together or not at all, for any number of concurrent
\* requests: every log is a walk through the status graph ending at the status.
THEOREM LogAlwaysTellsStatus == Spec => []LogTellsStatus
<1>1. LogsInv => LogTellsStatus
  BY DEF LogsInv
<1> QED
  BY <1>1, LogsInvariant, PTL

\* Of several requests that read the same status one at most moves the order.
THEOREM AtMostOneWinner == Spec => []OneWinner
<1>1. OrdersInv /\ LogsInv => OneWinner
  <2> SUFFICES ASSUME OrdersInv, LogsInv, NEW id \in OrderIds,
                      NEW i \in 1..Len(logs[id]), NEW j \in 1..Len(logs[id]),
                      logs[id][i].from = logs[id][j].from
               PROVE  i = j
    BY DEF OneWinner
  <2>1. logs[id] \in Seq(Log)
    BY DEF OrdersInv, Typed, TypeOK
  <2>2. logs[id][i].from \in Int /\ logs[id][j].from \in Int
    BY <2>1, LogStatusesAreNumbers
  <2>3. ~(i < j) /\ ~(j < i)
    BY <2>2 DEF LogsInv, Rising
  <2> QED
    BY <2>1, <2>3
<1> QED
  BY <1>1, OrdersInvariant, LogsInvariant, PTL

-----------------------------------------------------------------------------
\* One create request places at most one order, lost replies included.
THEOREM CreatePlacesAtMostOnce == Spec => []PlacesAtMostOnce
<1>1. Init => PlacesAtMostOnce
  BY DEF Init, PlacesAtMostOnce
<1>2. OrdersInv /\ PlacesAtMostOnce /\ [Next]_vars => PlacesAtMostOnce'
  <2> SUFFICES ASSUME OrdersInv, PlacesAtMostOnce, [Next]_vars PROVE PlacesAtMostOnce'
    OBVIOUS
  <2>0. pc \in [Handlers -> Places] /\ placed \in [Handlers -> Nat]
    BY DEF OrdersInv, Typed, TypeOK
  <2> USE DEF PlacesAtMostOnce
  <2>1. ASSUME NEW h \in Handlers, NEW p \in Places, UNCHANGED placed,
               pc' = [pc EXCEPT ![h] = p],
               p \in {"generate", "insert"} => pc[h] \in {"generate", "insert"}
        PROVE  PlacesAtMostOnce'
    BY <2>0, <2>1
  <2>2. ASSUME NEW h \in Handlers, ArriveCreate(h) \/ ArriveUpdate(h) \/ ArriveDelete(h)
        PROVE  PlacesAtMostOnce'
    BY <2>0, <2>2 DEF ArriveCreate, ArriveUpdate, ArriveDelete, Arrive
  <2>3. ASSUME NEW h \in Handlers, InsertOk(h) PROVE PlacesAtMostOnce'
    <3>1. /\ pc[h] = "insert" /\ pc' = [pc EXCEPT ![h] = "idle"]
          /\ placed' = [placed EXCEPT ![h] = @ + 1]
      BY <2>3 DEF InsertOk, InsertRow, Answer
    <3> QED
      BY <2>0, <3>1
  <2>4. ASSUME NEW h \in Handlers, Generate(h) \/ InsertDuplicate(h) PROVE PlacesAtMostOnce'
    <3>1. /\ UNCHANGED placed /\ pc[h] \in {"generate", "insert"}
          /\ \E p \in Places : pc' = [pc EXCEPT ![h] = p]
      BY <2>4 DEF Generate, InsertDuplicate, Answer, Places
    <3> QED
      BY <2>1, <3>1
  <2>5. ASSUME NEW h \in Handlers,
               \/ InsertExhausted(h) \/ RejectForeign(h) \/ RejectStatus(h)
               \/ Accept(h) \/ ChangeStatus(h) \/ AppendLog(h) \/ Commit(h) \/ Rollback(h)
               \/ DeleteRow(h) \/ Fail(h) \/ FailInTx(h) \/ Die(h)
        PROVE  PlacesAtMostOnce'
    <3>1. /\ UNCHANGED placed
          /\ \E p \in Places \ {"generate", "insert"} : pc' = [pc EXCEPT ![h] = p]
      BY <2>5 DEF InsertExhausted, RejectForeign, RejectStatus, Accept, ChangeStatus,
                  AppendLog, Commit, Rollback, DeleteRow, Fail, FailInTx, Die, Answer, Places
    <3> QED
      BY <2>1, <3>1
  <2>6. ASSUME UNCHANGED vars PROVE PlacesAtMostOnce'
    BY <2>6 DEF vars
  <2> QED
    BY <2>2, <2>3, <2>4, <2>5, <2>6 DEF Next, Serve
<1> QED
  BY <1>1, <1>2, OrdersInvariant, PTL DEF Spec

-----------------------------------------------------------------------------
\* What the three writing steps may touch.

LEMMA OwnerStepHolds == OrdersInv /\ [Next]_vars => [OwnerStep]_vars
<1> SUFFICES ASSUME OrdersInv, [Next]_vars, NEW id \in OrderIds,
                    Exists(orders, id), orders'[id] # orders[id]
             PROVE  \E h \in Handlers : /\ pc[h] \in {"commit", "delete"} /\ pc'[h] = "idle"
                                        /\ req[h].id = id /\ req[h].user = orders[id].owner
  BY DEF OwnerStep
<1>0. /\ orders \in [OrderIds -> Row \cup {None}] /\ pc \in [Handlers -> Places]
      /\ \A h \in Handlers : pc[h] = "delete" => req[h].id \in OrderIds
  BY DEF OrdersInv, Typed, TypeOK, PlaceFitsRequest, DeleteRequest
<1>1. ASSUME NEW h \in Handlers, InsertOk(h) PROVE FALSE
  BY <1>0, <1>1 DEF InsertOk, InsertRow, OrdersInv, Consistent, Fresh, Exists
<1>2. ASSUME NEW h \in Handlers, Commit(h)
      PROVE  pc[h] = "commit" /\ pc'[h] = "idle" /\ req[h].id = id
             /\ req[h].user = orders[id].owner
  <2>1. /\ req[h].id \in OrderIds /\ orders[req[h].id].owner = req[h].user
        /\ orders' = [orders EXCEPT ![req[h].id] = [@ EXCEPT !.status = req[h].to]]
    BY <1>2, CommitEffect DEF OrdersInv
  <2>2. req[h].id = id
    BY <1>0, <2>1
  <2> QED
    BY <1>0, <1>2, <2>1, <2>2 DEF Commit, Answer
<1>3. ASSUME NEW h \in Handlers, DeleteRow(h)
      PROVE  pc[h] = "delete" /\ pc'[h] = "idle" /\ req[h].id = id
             /\ req[h].user = orders[id].owner
  <2>1. req[h].id = id
    BY <1>0, <1>3 DEF DeleteRow
  <2> QED
    BY <1>0, <1>3, <2>1 DEF DeleteRow, Answer, OrdersInv, Consistent, Informed
<1> QED
  BY <1>1, <1>2, <1>3, TableSteps

\* Only the owner's request changes or deletes an order, although it checked
\* the owner before its write and without a lock.
THEOREM OnlyOwnersAct == Spec => OnlyOwnerActs
BY OwnerStepHolds, OrdersInvariant, PTL DEF Spec, OnlyOwnerActs

LEMMA DeleteStepHolds == OrdersInv /\ [Next]_vars => [DeleteStep]_vars
<1> SUFFICES ASSUME OrdersInv, [Next]_vars, NEW id \in OrderIds,
                    Exists(orders, id), ~Exists(orders', id)
             PROVE  \E h \in Handlers :
                      /\ pc[h] = "delete" /\ pc'[h] = "idle" /\ req[h].id = id
                      /\ seen[h] = Cancelled => orders[id].status = Cancelled
  BY DEF DeleteStep
<1>0. /\ orders \in [OrderIds -> Row \cup {None}] /\ pc \in [Handlers -> Places]
      /\ \A h \in Handlers : pc[h] = "delete" => req[h].id \in OrderIds
  BY DEF OrdersInv, Typed, TypeOK, PlaceFitsRequest, DeleteRequest
<1>1. ASSUME NEW h \in Handlers, InsertOk(h) PROVE FALSE
  BY <1>0, <1>1 DEF InsertOk, InsertRow, OrdersInv, Consistent, Fresh, Exists
<1>2. ASSUME NEW h \in Handlers, Commit(h) PROVE FALSE
  <2>1. /\ req[h].id \in OrderIds /\ req[h] \in UpdateRequest
        /\ orders' = [orders EXCEPT ![req[h].id] = [@ EXCEPT !.status = req[h].to]]
    BY <1>2, CommitEffect DEF OrdersInv
  <2>2. req[h].id = id /\ orders[id] \in Row /\ req[h].to \in Status
    BY <1>0, <2>1 DEF Exists, UpdateRequest
  <2>3. [orders[id] EXCEPT !.status = req[h].to] \in Row
    BY <2>2 DEF Row
  <2> QED
    BY <1>0, <2>1, <2>2, <2>3, NoneIsNoRow DEF Exists
<1>3. ASSUME NEW h \in Handlers, DeleteRow(h)
      PROVE  /\ pc[h] = "delete" /\ pc'[h] = "idle" /\ req[h].id = id
             /\ seen[h] = Cancelled => orders[id].status = Cancelled
  <2>1. req[h].id = id
    BY <1>0, <1>3 DEF DeleteRow, Exists
  <2> QED
    BY <1>0, <1>3, <2>1 DEF DeleteRow, Answer, OrdersInv, Consistent, Informed
<1>4. orders'[id] # orders[id]
  BY DEF Exists
<1> QED
  BY <1>1, <1>2, <1>3, <1>4, TableSteps

\* A cancelled order stays cancelled: DeleteOrder's check is stale only for an
\* order it saw pending.
THEOREM DeletesWhatItSaw == Spec => DeletedAsSeen
BY DeleteStepHolds, OrdersInvariant, PTL DEF Spec, DeletedAsSeen

-----------------------------------------------------------------------------
\* The refinement.

LEMMA LedgerStep == OrdersInv /\ [Next]_vars => [Ledger!Next]_(Ledger!vars)
<1> SUFFICES ASSUME OrdersInv, [Next]_vars
             PROVE  Ledger!Next \/ UNCHANGED <<orders, logs, lastId>>
  BY DEF Ledger!vars
<1>0. /\ orders \in [OrderIds -> Row \cup {None}] /\ logs \in [OrderIds -> Seq(Log)]
      /\ num \in [Handlers -> OrderNos \cup {None}]
      /\ PlaceFitsRequest
  BY DEF OrdersInv, Typed, TypeOK
<1>1. ASSUME NEW h \in Handlers, InsertOk(h) PROVE Ledger!Next
  <2>1. PICK id \in OrderIds : InsertRow(h, id)
    BY <1>1 DEF InsertOk
  <2>2. req[h].user \in Users /\ num[h] \in OrderNos
    BY <1>0, <1>1 DEF InsertOk, PlaceFitsRequest, CreateRequest
  <2>3. Ledger!Place(id, req[h].user, num[h])
    BY <1>1, <2>1 DEF InsertOk, InsertRow, Ledger!Place, Ledger!NoTaken, Ledger!Exists, NoTaken,
                      Exists, Ledger!Pending, Pending
  <2> QED
    BY <2>2, <2>3 DEF Ledger!Next
<1>2. ASSUME NEW h \in Handlers, Commit(h) PROVE Ledger!Next
  <2> DEFINE id == req[h].id
  <2>1. /\ req[h] \in UpdateRequest /\ id \in OrderIds /\ Exists(orders, id)
        /\ orders[id].status = seen[h] /\ orders[id].owner = req[h].user
        /\ ValidTransition(seen[h], req[h].to)
        /\ orders' = [orders EXCEPT ![id] = [@ EXCEPT !.status = req[h].to]]
        /\ logs' = [logs EXCEPT ![id] = Append(@, LogRow(h))]
    BY <1>2, CommitEffect DEF OrdersInv
  <2>2. UNCHANGED lastId
    BY <1>2 DEF Commit
  <2>3. req[h].to \in Ledger!Status
    BY <2>1 DEF UpdateRequest, Status, Pending, Cancelled, Ledger!Status, Ledger!Pending,
                Ledger!Cancelled
  <2>4. Ledger!ValidTransition(seen[h], req[h].to)
    BY <2>1 DEF ValidTransition, Transitions, Pending, Paid, Shipped, Completed, Cancelled,
                Ledger!ValidTransition, Ledger!Transitions, Ledger!Pending, Ledger!Paid,
                Ledger!Shipped, Ledger!Completed, Ledger!Cancelled
  <2>5. LogRow(h) = [from |-> orders[id].status, to |-> req[h].to, operator |-> orders[id].owner]
    BY <2>1 DEF LogRow
  <2>6. Ledger!Advance(id, req[h].to)
    BY <2>1, <2>2, <2>4, <2>5 DEF Ledger!Advance, Ledger!Exists, Exists
  <2> QED
    BY <2>1, <2>3, <2>6 DEF Ledger!Next
<1>3. ASSUME NEW h \in Handlers, DeleteRow(h)
      PROVE  Ledger!Next \/ UNCHANGED <<orders, logs, lastId>>
  <2>1. req[h].id \in OrderIds
    BY <1>0, <1>3 DEF DeleteRow, PlaceFitsRequest, DeleteRequest
  <2>2. /\ orders' = [orders EXCEPT ![req[h].id] = None]
        /\ UNCHANGED <<logs, lastId>>
    BY <1>3 DEF DeleteRow
  <2>3. CASE Exists(orders, req[h].id)
    <3>1. Ledger!Remove(req[h].id)
      BY <2>2, <2>3 DEF Ledger!Remove, Ledger!Exists, Exists
    <3> QED
      BY <2>1, <3>1 DEF Ledger!Next
  <2>4. CASE ~Exists(orders, req[h].id)
    BY <1>0, <2>1, <2>2, <2>4 DEF Exists
  <2> QED
    BY <2>3, <2>4
<1> QED
  BY <1>1, <1>2, <1>3, TableSteps

\* The concurrent handlers implement the atomic ledger.
THEOREM OrdersImplementLedger == Spec => ImplementsLedger
<1>1. Init => Ledger!Init
  BY DEF Init, Ledger!Init
<1> QED
  BY <1>1, LedgerStep, OrdersInvariant, PTL DEF Spec, ImplementsLedger, Ledger!Spec

-----------------------------------------------------------------------------
(***************************************************************************)
(* Why every request ends: nobody waits in a circle or goes on for ever.   *)
(***************************************************************************)

\* Requests never wait for each other in a circle: whoever holds the row lock
\* that UpdateOrderStatus or DeleteOrder asks for has nothing to wait for.
THEOREM RequestsDoNotDeadlock == Spec => []LocksDoNotChain
<1>1. Typed /\ Locked => LocksDoNotChain
  <2> SUFFICES ASSUME Typed, Locked, NEW h \in Handlers,
                      pc[h] \in {"change", "delete"}, lock[req[h].id] # None
               PROVE  lock[req[h].id] # h /\ pc[lock[req[h].id]] \notin {"change", "delete"}
    BY DEF LocksDoNotChain
  <2>1. req[h].id \in OrderIds
    BY DEF Typed, PlaceFitsRequest, UpdateRequest, DeleteRequest
  <2>2. pc[lock[req[h].id]] \in InTx
    BY <2>1 DEF Locked, LocksAreInTx
  <2> QED
    BY <2>2 DEF InTx
<1> QED
  BY <1>1, OrdersInvariant, PTL DEF OrdersInv

\* The retry loop of CreateOrder has so many tries.
LEMMA TriesAreFew ==
  ASSUME TypeOK, NEW h \in Handlers
  PROVE  tries[h] \in 0..2
BY DEF TypeOK, MaxRetry

\* A step of h that moves it from one place to a nearer one, or sends it back
\* with one try less.
LEMMA Nearer ==
  ASSUME TypeOK, NEW h \in Handlers, NEW to \in Places \ {pc[h]},
         pc' = [pc EXCEPT ![h] = to],
         \/ tries' = tries
         \/ tries' = [tries EXCEPT ![h] = 0] /\ to = "idle"
         \/ tries' = [tries EXCEPT ![h] = @ + 1] /\ pc[h] = "insert" /\ to = "generate",
         \/ pc[h] = "generate" /\ to = "insert"
         \/ tries' = [tries EXCEPT ![h] = @ + 1] /\ pc[h] = "insert" /\ to = "generate"
         \/ pc[h] = "read" /\ to \in {"change", "delete"}
         \/ pc[h] = "change" /\ to \in {"log", "rollback"}
         \/ pc[h] = "log" /\ to \in {"commit", "rollback"}
         \/ pc[h] = "commit" /\ to = "rollback"
         \/ to = "idle"
  PROVE  WindDownStep
<1>1. /\ pc \in [Handlers -> Places] /\ tries \in [Handlers -> 0..(MaxRetry - 1)]
      /\ tries[h] \in 0..2 /\ pc[h] \in Places /\ MaxRetry = 3
  BY TriesAreFew DEF TypeOK, MaxRetry
<1>2. pc'[h] = to /\ \A g \in Handlers \ {h} : pc'[g] = pc[g] /\ tries'[g] = tries[g]
  BY <1>1
<1>3. \A g \in Handlers \ {h} : StepsLeft(g)' = StepsLeft(g)
  BY <1>2 DEF StepsLeft
<1>4. \/ tries'[h] = tries[h]
      \/ to = "idle"
      \/ tries'[h] = tries[h] + 1 /\ pc[h] = "insert" /\ to = "generate"
  BY <1>1
<1>5. StepsLeft(h)' < StepsLeft(h)
  <2>1. CASE to = "idle"
    <3>1. StepsLeft(h)' = 0
      BY <1>2, <2>1 DEF StepsLeft
    <3>2. StepsLeft(h) \in 1..6
      BY <1>1, <2>1 DEF StepsLeft, Places
    <3> QED
      BY <3>1, <3>2
  <2>2. CASE pc[h] = "insert" /\ to = "generate"
    <3>1. tries'[h] = tries[h] + 1
      BY <1>1, <2>2
    <3>2. StepsLeft(h)' = 2 * (3 - (tries[h] + 1)) /\ StepsLeft(h) = 2 * (3 - tries[h]) - 1
      BY <1>1, <1>2, <2>2, <3>1 DEF StepsLeft
    <3> QED
      BY <1>1, <3>2
  <2>3. CASE pc[h] = "generate" /\ to = "insert"
    <3>1. tries'[h] = tries[h]
      BY <1>4, <2>3
    <3>2. StepsLeft(h)' = 2 * (3 - tries[h]) - 1 /\ StepsLeft(h) = 2 * (3 - tries[h])
      BY <1>1, <1>2, <2>3, <3>1 DEF StepsLeft
    <3> QED
      BY <1>1, <3>2
  <2>4. CASE pc[h] \in {"read", "change", "log", "commit"} /\ to # "idle"
    BY <1>2, <2>4 DEF StepsLeft
  <2> QED
    BY <2>1, <2>2, <2>3, <2>4
<1> QED
  BY <1>3, <1>5 DEF WindDownStep

LEMMA AnswersWindDown ==
  ASSUME TypeOK, NEW h \in Handlers, pc[h] # "idle", NEW answer, Answer(h, answer)
  PROVE  WindDownStep
<1>1. /\ "idle" \in Places \ {pc[h]} /\ pc' = [pc EXCEPT ![h] = "idle"]
      /\ tries' = [tries EXCEPT ![h] = 0]
  BY DEF Places, Answer
<1> QED
  BY <1>1, Nearer

LEMMA ArrivalsTouchNobody ==
  ASSUME TypeOK, NEW h \in Handlers, ArriveCreate(h) \/ ArriveUpdate(h) \/ ArriveDelete(h)
  PROVE  WindDownStep
<1>1. pc[h] = "idle" /\ \A g \in Handlers \ {h} : pc'[g] = pc[g] /\ tries' = tries
  BY DEF ArriveCreate, ArriveUpdate, ArriveDelete, Arrive, TypeOK
<1> QED
  BY <1>1 DEF WindDownStep, StepsLeft

LEMMA StepWindsDown == Typed /\ Next => WindDownStep
<1> SUFFICES ASSUME Typed, TypeOK, NEW h \in Handlers,
                    \/ ArriveCreate(h) \/ ArriveUpdate(h) \/ ArriveDelete(h)
                    \/ Serve(h)
                    \/ Fail(h) \/ FailInTx(h) \/ Die(h)
             PROVE  WindDownStep
  BY DEF Typed, Next
<1>1. CASE ArriveCreate(h) \/ ArriveUpdate(h) \/ ArriveDelete(h)
  BY <1>1, ArrivalsTouchNobody
<1>2. CASE Generate(h)
  BY <1>2, Nearer DEF Generate, Places
<1>3. CASE InsertOk(h) \/ InsertExhausted(h)
  BY <1>3, AnswersWindDown DEF InsertOk, InsertExhausted
<1>4. CASE InsertDuplicate(h)
  <2>1. CASE tries[h] + 1 < MaxRetry
    <3>1. /\ pc' = [pc EXCEPT ![h] = "generate"] /\ pc[h] = "insert"
          /\ tries' = [tries EXCEPT ![h] = @ + 1]
      BY <1>4, <2>1 DEF InsertDuplicate
    <3> QED
      BY <3>1, Nearer DEF Places
  <2>2. CASE ~(tries[h] + 1 < MaxRetry)
    BY <1>4, <2>2, AnswersWindDown DEF InsertDuplicate
  <2> QED
    BY <2>1, <2>2
<1>5. CASE RejectForeign(h) \/ RejectStatus(h)
  BY <1>5, AnswersWindDown DEF RejectForeign, RejectStatus
<1>6. CASE Accept(h)
  <2>1. PICK to \in {"change", "delete"} : pc' = [pc EXCEPT ![h] = to]
    BY <1>6 DEF Accept
  <2> QED
    BY <1>6, <2>1, Nearer DEF Accept, Places
<1>7. CASE ChangeStatus(h)
  <2>1. PICK to \in {"log", "rollback"} : pc' = [pc EXCEPT ![h] = to]
    BY <1>7 DEF ChangeStatus
  <2> QED
    BY <1>7, <2>1, Nearer DEF ChangeStatus, Places
<1>8. CASE AppendLog(h)
  BY <1>8, Nearer DEF AppendLog, Places
<1>9. CASE Commit(h) \/ Rollback(h) \/ DeleteRow(h)
  BY <1>9, AnswersWindDown DEF Commit, Rollback, DeleteRow
<1>10. CASE Fail(h) \/ Die(h)
  BY <1>10, AnswersWindDown DEF Fail, Die
<1>11. CASE FailInTx(h)
  BY <1>11, Nearer DEF FailInTx, Places
<1> QED
  BY <1>1, <1>2, <1>3, <1>4, <1>5, <1>6, <1>7, <1>8, <1>9, <1>10, <1>11 DEF Serve

\* For any number of handlers each step after a request's arrival brings it, and
\* it alone, closer to its answer: no request takes more than six, whatever
\* collides or fails (CreateOrder, UpdateOrderStatus, DeleteOrder).
THEOREM RequestsEndInSixSteps == Spec => RequestsWindDown
<1>1. Typed /\ [Next]_vars => [WindDownStep]_vars
  BY StepWindsDown
<1> QED
  BY <1>1, OrdersInvariant, PTL DEF OrdersInv, Spec, RequestsWindDown
=============================================================================
