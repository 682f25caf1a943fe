------------------------------- MODULE Orders -------------------------------
(***************************************************************************)
(* The write path of the order API: POST /orders, PUT /orders/:id/status   *)
(* and DELETE /orders/:id, from internal/controller/order.go down to the   *)
(* SQL statements of internal/data/order.go, served concurrently.          *)
(*                                                                         *)
(* A handler is a request goroutine.  It takes one request at a time and   *)
(* does one SQL statement per step; between two steps any other handler    *)
(* may run.  orders and logs are what is committed.  A transaction keeps   *)
(* its writes in staged until Commit, and the row lock its UPDATE took     *)
(* until Commit or Rollback, as InnoDB does.  A statement may fail (lost   *)
(* connection, the deadline of the Timeout middleware), a reply may be     *)
(* lost after the server applied the statement, and the process may die.   *)
(***************************************************************************)
EXTENDS OrderModel

CONSTANT Handlers   \* request goroutines

ASSUME NoneIsFresh == None \notin Handlers \cup OrderNos

VARIABLES
  orders,  \* committed rows of orders, by key
  logs,    \* committed rows of order_status_logs, by order, oldest first
  lastId,  \* the AUTO_INCREMENT counter of orders: no key is issued twice
  lock,    \* the handler whose open transaction locked the row
  pc,      \* where each handler is
  req,     \* the request it serves
  seen,    \* order.Status as getOwnedOrder read it
  num,     \* the order number generated for the next INSERT
  tries,   \* INSERTs of this request that hit the unique index
  staged,  \* writes of the open transaction
  resp,    \* the answer, once given
  placed   \* history: rows the handler's create request inserted so far

vars == <<orders, logs, lastId, lock, pc, req, seen, num, tries, staged, resp, placed>>

MaxRetry == 3

CreateRequest == [kind: {"create"}, user: Users]
UpdateRequest == [kind: {"update"}, user: Users, id: OrderIds, to: Status \ {Pending}]
DeleteRequest == [kind: {"delete"}, user: Users, id: OrderIds]
Request == CreateRequest \cup UpdateRequest \cup DeleteRequest

Answers == {"ok", "notFound", "badStatus", "cannotDelete", "internal", "error"}
Places  == {"idle", "generate", "insert", "read", "change", "log", "commit",
            "rollback", "delete"}

\* Where a handler has an open transaction that holds a row lock.
InTx == {"log", "commit", "rollback"}

Init ==
  /\ orders = [id \in OrderIds |-> None]
  /\ logs = [id \in OrderIds |-> <<>>]
  /\ lastId = -1
  /\ lock = [id \in OrderIds |-> None]
  /\ pc = [h \in Handlers |-> "idle"]
  /\ req = [h \in Handlers |-> None]
  /\ seen = [h \in Handlers |-> Pending]
  /\ num = [h \in Handlers |-> None]
  /\ tries = [h \in Handlers |-> 0]
  /\ staged = [h \in Handlers |-> {}]
  /\ resp = [h \in Handlers |-> "none"]
  /\ placed = [h \in Handlers |-> 0]

-----------------------------------------------------------------------------
\* A request comes in past Auth and the binding of its body, which refuses
\* status 0 as the target of an update.

Arrive(h, request, start) ==
  /\ pc[h] = "idle"
  /\ pc' = [pc EXCEPT ![h] = start]
  /\ req' = [req EXCEPT ![h] = request]
  /\ resp' = [resp EXCEPT ![h] = "none"]
  /\ placed' = [placed EXCEPT ![h] = 0]
  /\ UNCHANGED <<orders, logs, lastId, lock, seen, num, tries, staged>>

ArriveCreate(h) == \E request \in CreateRequest : Arrive(h, request, "generate")
ArriveUpdate(h) == \E request \in UpdateRequest : Arrive(h, request, "read")
ArriveDelete(h) == \E request \in DeleteRequest : Arrive(h, request, "read")

\* response.Success or response.Error ends the request; its locals are gone.
Answer(h, answer) ==
  /\ pc' = [pc EXCEPT ![h] = "idle"]
  /\ resp' = [resp EXCEPT ![h] = answer]
  /\ req' = [req EXCEPT ![h] = None]
  /\ seen' = [seen EXCEPT ![h] = Pending]
  /\ num' = [num EXCEPT ![h] = None]
  /\ tries' = [tries EXCEPT ![h] = 0]

-----------------------------------------------------------------------------
\* CreateOrder: up to MaxRetry times, generate a number and insert the row.

Generate(h) ==
  /\ pc[h] = "generate"
  /\ \E n \in OrderNos : num' = [num EXCEPT ![h] = n]
  /\ pc' = [pc EXCEPT ![h] = "insert"]
  /\ UNCHANGED <<orders, logs, lastId, lock, req, seen, tries, staged, resp, placed>>

InsertRow(h, id) ==
  /\ id > lastId
  /\ orders' = [orders EXCEPT ![id] =
       [owner |-> req[h].user, no |-> num[h], status |-> Pending]]
  /\ lastId' = id
  /\ placed' = [placed EXCEPT ![h] = @ + 1]

\* Broken: any failed INSERT is retried, not only a duplicate.
InsertRetriedOnError(h) ==
  /\ pc[h] = "insert"
  /\ ~NoTaken(orders, num[h])
  /\ \E id \in OrderIds : InsertRow(h, id)
  /\ \/ Answer(h, "ok")
     \/ /\ pc' = [pc EXCEPT ![h] = "generate"]
        /\ UNCHANGED <<req, seen, num, tries, resp>>
  /\ UNCHANGED <<logs, lock, staged>>

\* The insert commits; reply "error" is an insert whose reply was lost.
InsertOk(h) ==
  /\ pc[h] = "insert"
  /\ ~NoTaken(orders, num[h])
  /\ \E id \in OrderIds, reply \in {"ok", "error"} : InsertRow(h, id) /\ Answer(h, reply)
  /\ UNCHANGED <<logs, lock, staged>>

\* Broken: one attempt too many.
InsertDuplicateOffByOne(h) ==
  /\ pc[h] = "insert"
  /\ NoTaken(orders, num[h])
  /\ IF tries[h] < MaxRetry
       THEN /\ tries' = [tries EXCEPT ![h] = @ + 1]
            /\ num' = [num EXCEPT ![h] = None]
            /\ pc' = [pc EXCEPT ![h] = "generate"]
            /\ UNCHANGED <<req, seen, resp>>
       ELSE Answer(h, "internal")
  /\ UNCHANGED <<orders, logs, lastId, lock, staged, placed>>

InsertDuplicate(h) ==
  /\ pc[h] = "insert"
  /\ NoTaken(orders, num[h])
  /\ IF tries[h] + 1 < MaxRetry
       THEN /\ tries' = [tries EXCEPT ![h] = @ + 1]
            /\ num' = [num EXCEPT ![h] = None]
            /\ pc' = [pc EXCEPT ![h] = "generate"]
            /\ UNCHANGED <<req, seen, resp>>
       ELSE Answer(h, "internal")
  /\ UNCHANGED <<orders, logs, lastId, lock, staged, placed>>

\* The AUTO_INCREMENT column is at its limit.
InsertExhausted(h) ==
  /\ pc[h] = "insert"
  /\ ~NoTaken(orders, num[h])
  /\ \A id \in OrderIds : id <= lastId
  /\ Answer(h, "error")
  /\ UNCHANGED <<orders, logs, lastId, lock, staged, placed>>

-----------------------------------------------------------------------------
\* getOwnedOrder and the check of the status it read: one SELECT outside any
\* transaction, without a lock.

\* Broken: getOwnedOrder does not compare the owner.
MayActOnAny(h) == Exists(orders, req[h].id)

MayActOn(h) == Owned(orders, req[h].id, req[h].user)

Permitted(h, status) ==
  IF req[h].kind = "update" THEN ValidTransition(status, req[h].to) ELSE status \in Deletable

RejectForeign(h) ==
  /\ pc[h] = "read"
  /\ ~MayActOn(h)
  /\ Answer(h, "notFound")
  /\ UNCHANGED <<orders, logs, lastId, lock, staged, placed>>

RejectStatus(h) ==
  /\ pc[h] = "read"
  /\ MayActOn(h)
  /\ ~Permitted(h, orders[req[h].id].status)
  /\ Answer(h, IF req[h].kind = "update" THEN "badStatus" ELSE "cannotDelete")
  /\ UNCHANGED <<orders, logs, lastId, lock, staged, placed>>

Accept(h) ==
  /\ pc[h] = "read"
  /\ MayActOn(h)
  /\ Permitted(h, orders[req[h].id].status)
  /\ seen' = [seen EXCEPT ![h] = orders[req[h].id].status]
  /\ pc' = [pc EXCEPT ![h] = IF req[h].kind = "update" THEN "change" ELSE "delete"]
  /\ UNCHANGED <<orders, logs, lastId, lock, req, num, tries, staged, resp, placed>>

-----------------------------------------------------------------------------
\* UpdateOrderStatus, inside transaction.Do.

\* Broken: WHERE id = ?, without the status.
StillThere(h) == Exists(orders, req[h].id)

\* WHERE id = ? AND status = ?
StillAsSeen(h) ==
  /\ Exists(orders, req[h].id)
  /\ orders[req[h].id].status = seen[h]

\* Broken: the number of affected rows is not looked at.
ChangeStatusUnchecked(h) ==
  /\ pc[h] = "change"
  /\ lock[req[h].id] = None
  /\ lock' = [lock EXCEPT ![req[h].id] = h]
  /\ staged' = [staged EXCEPT ![h] = IF StillAsSeen(h) THEN {"status"} ELSE {}]
  /\ pc' = [pc EXCEPT ![h] = "log"]
  /\ UNCHANGED <<orders, logs, lastId, req, seen, num, tries, resp, placed>>

\* The conditional UPDATE waits for the row lock and reads the row as it is
\* then; 0 rows affected makes the closure return ErrInvalidOrderStatus.
ChangeStatus(h) ==
  /\ pc[h] = "change"
  /\ lock[req[h].id] = None
  /\ lock' = [lock EXCEPT ![req[h].id] = h]
  /\ IF StillAsSeen(h)
       THEN /\ staged' = [staged EXCEPT ![h] = {"status"}]
            /\ pc' = [pc EXCEPT ![h] = "log"]
            /\ UNCHANGED resp
       ELSE /\ pc' = [pc EXCEPT ![h] = "rollback"]
            /\ resp' = [resp EXCEPT ![h] = "badStatus"]
            /\ UNCHANGED staged
  /\ UNCHANGED <<orders, logs, lastId, req, seen, num, tries, placed>>

\* Broken: the error of CreateOrderStatusLog is swallowed.
AppendLogBestEffort(h) ==
  /\ pc[h] = "log"
  /\ staged' \in {staged, [staged EXCEPT ![h] = @ \cup {"log"}]}
  /\ pc' = [pc EXCEPT ![h] = "commit"]
  /\ UNCHANGED <<orders, logs, lastId, lock, req, seen, num, tries, resp, placed>>

AppendLog(h) ==
  /\ pc[h] = "log"
  /\ staged' = [staged EXCEPT ![h] = @ \cup {"log"}]
  /\ pc' = [pc EXCEPT ![h] = "commit"]
  /\ UNCHANGED <<orders, logs, lastId, lock, req, seen, num, tries, resp, placed>>

LogRow(h) == [from |-> seen[h], to |-> req[h].to, operator |-> req[h].user]

\* The end of a transaction, at the server.
Release(h) ==
  /\ lock' = [lock EXCEPT ![req[h].id] = None]
  /\ staged' = [staged EXCEPT ![h] = {}]

\* The closure returned nil: everything staged becomes visible at once.
Commit(h) ==
  /\ pc[h] = "commit"
  /\ orders' = IF "status" \in staged[h] /\ Exists(orders, req[h].id)
                 THEN [orders EXCEPT ![req[h].id].status = req[h].to] ELSE orders
  /\ logs' = IF "log" \in staged[h]
               THEN [logs EXCEPT ![req[h].id] = Append(@, LogRow(h))] ELSE logs
  /\ Release(h)
  /\ \E reply \in {"ok", "error"} : Answer(h, reply)
  /\ UNCHANGED <<lastId, placed>>

\* Broken: a refused update returns without ending its transaction.
RollbackForgotten(h) ==
  /\ pc[h] = "rollback"
  /\ Answer(h, resp[h])
  /\ UNCHANGED <<orders, logs, lastId, lock, staged, placed>>

\* The closure returned an error: nothing staged survives.
Rollback(h) ==
  /\ pc[h] = "rollback"
  /\ Release(h)
  /\ Answer(h, resp[h])
  /\ UNCHANGED <<orders, logs, lastId, placed>>

-----------------------------------------------------------------------------
\* DeleteOrder: the DELETE names the key only, and its affected rows are not
\* looked at, so deleting an order that is already gone is a success.
DeleteRow(h) ==
  /\ pc[h] = "delete"
  /\ lock[req[h].id] = None
  /\ orders' = [orders EXCEPT ![req[h].id] = None]
  /\ \E reply \in {"ok", "error"} : Answer(h, reply)
  /\ UNCHANGED <<logs, lastId, lock, staged, placed>>

-----------------------------------------------------------------------------
\* A statement fails and the server applied nothing of it.  Before a row lock
\* is held (BEGIN and a failed UPDATE included) the request is answered with
\* the error; later the error sends it to Rollback.

Fail(h) ==
  /\ pc[h] \in {"insert", "read", "change", "delete"}
  /\ Answer(h, "error")
  /\ UNCHANGED <<orders, logs, lastId, lock, staged, placed>>

FailInTx(h) ==
  /\ pc[h] \in {"log", "commit"}
  /\ pc' = [pc EXCEPT ![h] = "rollback"]
  /\ resp' = [resp EXCEPT ![h] = "error"]
  /\ UNCHANGED <<orders, logs, lastId, lock, req, seen, num, tries, staged, placed>>

\* The process dies under the request: nobody is answered, and the server
\* rolls the open transaction back.
Die(h) ==
  /\ pc[h] # "idle"
  /\ lock' = [id \in OrderIds |-> IF lock[id] = h THEN None ELSE lock[id]]
  /\ staged' = [staged EXCEPT ![h] = {}]
  /\ Answer(h, "none")
  /\ UNCHANGED <<orders, logs, lastId, placed>>

-----------------------------------------------------------------------------
\* What a handler does of its own accord once it has a request.
Serve(h) ==
  \/ Generate(h) \/ InsertOk(h) \/ InsertDuplicate(h) \/ InsertExhausted(h)
  \/ RejectForeign(h) \/ RejectStatus(h) \/ Accept(h)
  \/ ChangeStatus(h) \/ AppendLog(h) \/ Commit(h) \/ Rollback(h)
  \/ DeleteRow(h)

Next ==
  \E h \in Handlers :
    \/ ArriveCreate(h) \/ ArriveUpdate(h) \/ ArriveDelete(h)
    \/ Serve(h)
    \/ Fail(h) \/ FailInTx(h) \/ Die(h)

Spec == Init /\ [][Next]_vars

-----------------------------------------------------------------------------
\* Type invariant.
TypeOK ==
  /\ orders \in [OrderIds -> Row \cup {None}]
  /\ logs \in [OrderIds -> Seq(Log)]
  /\ lastId \in OrderIds \cup {-1}
  /\ lock \in [OrderIds -> Handlers \cup {None}]
  /\ pc \in [Handlers -> Places]
  /\ req \in [Handlers -> Request \cup {None}]
  /\ seen \in [Handlers -> Status]
  /\ num \in [Handlers -> OrderNos \cup {None}]
  /\ tries \in [Handlers -> 0..(MaxRetry - 1)]
  /\ staged \in [Handlers -> SUBSET {"status", "log"}]
  /\ resp \in [Handlers -> Answers \cup {"none"}]
  /\ placed \in [Handlers -> Nat]

\* UpdateOrderStatus changes the status and writes the log line together or
\* not at all, however requests, failures and deletes interleave: every log
\* is a walk through the status graph, and it ends at the order's status.
LogTellsStatus ==
  \A id \in OrderIds :
    /\ IsWalk(logs[id])
    /\ Exists(orders, id) => orders[id].status = LoggedStatus(logs[id])

\* The conditional UPDATE lets one of several requests that read the same
\* status through: no two move an order out of the same status.
OneWinner ==
  \A id \in OrderIds : \A i, j \in 1..Len(logs[id]) :
    logs[id][i].from = logs[id][j].from => i = j

\* One create request places at most one order: it tries another INSERT, or
\* gives up with an internal error, only while it has placed none, a lost
\* reply included.
PlacesAtMostOnce ==
  \A h \in Handlers :
    /\ placed[h] <= 1
    /\ pc[h] \in {"generate", "insert"} => placed[h] = 0

\* A row lock is held by a handler that is inside its transaction on that very
\* row: no path out of UpdateOrderStatus leaves a lock behind.
LocksAreInTx ==
  \A id \in OrderIds :
    lock[id] # None => /\ pc[lock[id]] \in InTx
                       /\ req[lock[id]].id = id

\* Nobody waits on somebody who waits: the lock that an UPDATE or a DELETE asks
\* for is held by another request, which asks for no lock any more.
LocksDoNotChain ==
  \A h \in Handlers :
    pc[h] \in {"change", "delete"} /\ lock[req[h].id] # None =>
      lock[req[h].id] # h /\ pc[lock[req[h].id]] \notin {"change", "delete"}

\* The most steps h still takes of its own before it answers; a request that
\* collided on its order number starts over, with one try less.
StepsLeft(h) ==
  CASE pc[h] = "generate" -> 2 * (MaxRetry - tries[h])
    [] pc[h] = "insert"   -> 2 * (MaxRetry - tries[h]) - 1
    [] pc[h] = "read"     -> 5
    [] pc[h] \in {"change", "delete"} -> 4
    [] pc[h] = "log"      -> 3
    [] pc[h] = "commit"   -> 2
    [] pc[h] = "rollback" -> 1
    [] pc[h] = "idle"     -> 0

\* Every step is the arrival of a request or brings one request closer to its
\* answer, and touches no other: nobody's step sends another request back, and
\* the retry loop cannot go on for ever.
WindDownStep ==
  \E h \in Handlers :
    /\ pc[h] = "idle" \/ StepsLeft(h)' < StepsLeft(h)
    /\ \A g \in Handlers \ {h} : StepsLeft(g)' = StepsLeft(g)
RequestsWindDown == [][WindDownStep]_vars

\* Between getOwnedOrder and the write the order may have been deleted and
\* others placed; still only its owner's request changes or deletes a row.
OwnerStep ==
  \A id \in OrderIds :
    Exists(orders, id) /\ orders'[id] # orders[id] =>
      \E h \in Handlers : /\ pc[h] \in {"commit", "delete"} /\ pc'[h] = "idle"
                          /\ req[h].id = id /\ req[h].user = orders[id].owner

OnlyOwnerActs == [][OwnerStep]_vars

\* A cancelled order seen by DeleteOrder is still cancelled when it is deleted;
\* only a pending one can have moved on.
DeleteStep ==
  \A id \in OrderIds :
    Exists(orders, id) /\ ~Exists(orders', id) =>
      \E h \in Handlers : /\ pc[h] = "delete" /\ pc'[h] = "idle" /\ req[h].id = id
                          /\ seen[h] = Cancelled => orders[id].status = Cancelled

DeletedAsSeen == [][DeleteStep]_vars

\* The tables behave as OrderLedger promises.
Ledger == INSTANCE OrderLedger WITH orders <- orders, logs <- logs, lastId <- lastId
ImplementsLedger == Ledger!Spec

\* What DeleteOrder means to keep: only pending and cancelled orders are
\* deleted.  The code does not keep it.
DeletesOnlyDeletable ==
  [][\A id \in OrderIds :
       Exists(orders, id) /\ ~Exists(orders', id) => orders[id].status \in Deletable]_vars
=============================================================================
