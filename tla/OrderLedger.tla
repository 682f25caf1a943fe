---------------------------- MODULE OrderLedger -----------------------------
(***************************************************************************)
(* What the order API promises of the two tables, with no requests in it:  *)
(* an order is placed Pending under a fresh key, moves along the status    *)
(* graph, each move together with the log line that records it, and may be *)
(* removed.  Orders.tla is shown to implement this specification.          *)
(*                                                                         *)
(* Remove is allowed in every status.  The code means to delete only       *)
(* pending and cancelled orders and does not achieve that (see             *)
(* DeletesOnlyDeletable in Orders.tla).                                    *)
(***************************************************************************)
EXTENDS OrderModel

VARIABLES orders, logs, lastId

vars == <<orders, logs, lastId>>

Init ==
  /\ orders = [id \in OrderIds |-> None]
  /\ logs = [id \in OrderIds |-> <<>>]
  /\ lastId = -1

Place(id, user, n) ==
  /\ id > lastId
  /\ ~NoTaken(orders, n)
  /\ orders' = [orders EXCEPT ![id] = [owner |-> user, no |-> n, status |-> Pending]]
  /\ lastId' = id
  /\ UNCHANGED logs

Advance(id, to) ==
  /\ Exists(orders, id)
  /\ ValidTransition(orders[id].status, to)
  /\ logs' = [logs EXCEPT ![id] = Append(@,
       [from |-> orders[id].status, to |-> to, operator |-> orders[id].owner])]
  /\ orders' = [orders EXCEPT ![id].status = to]
  /\ UNCHANGED lastId

Remove(id) ==
  /\ Exists(orders, id)
  /\ orders' = [orders EXCEPT ![id] = None]
  /\ UNCHANGED <<logs, lastId>>

Next ==
  \E id \in OrderIds :
    \/ \E user \in Users, n \in OrderNos : Place(id, user, n)
    \/ \E to \in Status : Advance(id, to)
    \/ Remove(id)

Spec == Init /\ [][Next]_vars
=============================================================================
