----------------------------- MODULE OrderModel -----------------------------
(***************************************************************************)
(* The data of the order subsystem: the rows of the tables orders and      *)
(* order_status_logs (internal/model/order.go) and the status graph of     *)
(* isValidStatusTransition (internal/service/order.go).  Amounts, remarks  *)
(* and timestamps are abstracted: no decision of the code reads them.      *)
(***************************************************************************)
EXTENDS Integers, Sequences

CONSTANTS
  Users,     \* authenticated user ids
  OrderIds,  \* values the auto-increment key of orders can take
  OrderNos,  \* strings generateOrderNo can return
  None       \* no row, nobody, nothing

Pending   == 0
Paid      == 1
Shipped   == 2
Completed == 3
Cancelled == 4
Status    == Pending..Cancelled

\* One row of the table orders.
Row == [owner: Users, no: OrderNos, status: Status]

\* One row of the table order_status_logs, filed under its order.
Log == [from: Status, to: Status, operator: Users]

ASSUME OrderIdsAreNumbers == OrderIds \subseteq Nat
ASSUME NoneIsNoRow == None \notin Row

Transitions == { <<Pending, Paid>>, <<Pending, Cancelled>>,
                 <<Paid, Shipped>>, <<Paid, Cancelled>>,
                 <<Shipped, Completed>> }

ValidTransition(from, to) == <<from, to>> \in Transitions

\* The statuses DeleteOrder accepts.
Deletable == {Pending, Cancelled}

-----------------------------------------------------------------------------
\* What the tables say of an order, operators on their contents.

Exists(orders, id) == orders[id] # None
Owned(orders, id, user) == Exists(orders, id) /\ orders[id].owner = user

\* The unique index on order_no would refuse n.
NoTaken(orders, n) ==
  \E id \in OrderIds : Exists(orders, id) /\ orders[id].no = n

\* The status the log of an order leads to: a new order is Pending.
LoggedStatus(log) == IF log = <<>> THEN Pending ELSE log[Len(log)].to

\* A log tells one walk through the status graph that starts at Pending, with
\* no step missing.
IsWalk(log) ==
  /\ \A i \in 1..Len(log) : ValidTransition(log[i].from, log[i].to)
  /\ Len(log) > 0 => log[1].from = Pending
  /\ \A i \in 1..(Len(log) - 1) : log[i].to = log[i + 1].from
=============================================================================
