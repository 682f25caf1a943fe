------------------------------ MODULE NestedTx ------------------------------
(***************************************************************************)
(* What transaction.Do promises of the database, with no connections,      *)
(* savepoints or handles in it: an outermost Do publishes, in one step,    *)
(* what it and the Do's inside it wrote, or nothing; an inner Do that      *)
(* fails takes back what was written since it began, and nothing else.     *)
(* Spec is that promise, the one the comment of Do makes; Transaction.tla  *)
(* breaks it in one way, Strand, and implements StrandingSpec: the promise *)
(* but for inner Do's that fail after their own context has ended.         *)
(***************************************************************************)
EXTENDS Naturals, Sequences

CONSTANTS
  Handlers,  \* request goroutines
  Writes     \* rows: no two statements write the same

VARIABLES
  table,  \* what is committed
  nest,   \* per handler, what each of its open Do's wrote, the outermost first
  alive,  \* how many of them, from the outermost, have a context that has not ended
  told    \* the answer of the Do, of any handler, that returned last

vars == <<table, nest, alive, told>>

Init ==
  /\ table = {}
  /\ nest = [h \in Handlers |-> <<>>]
  /\ alive = [h \in Handlers |-> 0]
  /\ told = "none"

Fresh(w) ==
  /\ w \notin table
  /\ \A h \in Handlers : \A i \in 1..Len(nest[h]) : w \notin nest[h][i]

Depth(h) == Len(nest[h])
Answer(answer) == told' = answer

Begin(h) ==
  /\ UNCHANGED <<table, told>>
  /\ nest[h] = <<>>
  /\ alive' = [alive EXCEPT ![h] = 1]
  /\ nest' = [nest EXCEPT ![h] = <<{}>>]

\* The context of an inner Do is derived from that of the outer.
Nest(h) ==
  /\ UNCHANGED <<table, told>>
  /\ Depth(h) > 0 /\ alive[h] = Depth(h)
  /\ alive' = [alive EXCEPT ![h] = @ + 1]
  /\ nest' = [nest EXCEPT ![h] = Append(@, {})]

Write(h, w) ==
  /\ UNCHANGED <<table, alive, told>>
  /\ Depth(h) > 0
  /\ Fresh(w)
  /\ nest' = [nest EXCEPT ![h][Depth(h)] = @ \cup {w}]

\* A context ends, and with it those derived from it.
ContextEnds(h) ==
  /\ \E n \in 0..Depth(h) : n < alive[h] /\ alive' = [alive EXCEPT ![h] = n]
  /\ UNCHANGED <<table, nest, told>>

\* The inner Do is over: its context is no more.
Leave(h, levels) ==
  /\ UNCHANGED table
  /\ Depth(h) > 1
  /\ alive' = [alive EXCEPT ![h] = IF @ < Depth(h) THEN @ ELSE Depth(h) - 1]
  /\ nest' = [nest EXCEPT ![h] = levels]

Outer(h) == SubSeq(nest[h], 1, Depth(h) - 1)
Merged(h) == [Outer(h) EXCEPT ![Depth(h) - 1] = @ \cup nest[h][Depth(h)]]

Keep(h) == Answer("ok") /\ Leave(h, Merged(h))
\* Rows under an outermost context that has ended are never published: what a
\* failed inner Do leaves of them is of no account.
Undo(h) ==
  /\ Answer("error")
  /\ Leave(h, Outer(h)) \/ (alive[h] = 0 /\ Leave(h, Merged(h)))

End(h) ==
  /\ Depth(h) = 1
  /\ alive' = [alive EXCEPT ![h] = 0]
  /\ nest' = [nest EXCEPT ![h] = <<>>]

\* The answer "error" to a published transaction is a reply that was lost.
Publish(h) ==
  /\ alive[h] = 1
  /\ End(h)
  /\ table' = table \cup nest[h][1]
  /\ \E answer \in {"ok", "error"} : Answer(answer)

Discard(h) ==
  /\ End(h)
  /\ Answer("error")
  /\ UNCHANGED table

\* A Do that could not begin.
Refuse ==
  /\ Answer("error")
  /\ UNCHANGED <<table, nest, alive>>

\* The connection is gone, and with it all that was written on it.
Lose(h) ==
  /\ UNCHANGED <<table, alive, told>>
  /\ nest' = [nest EXCEPT ![h] = [i \in 1..Depth(h) |-> {}]]

\* A statement outside every transaction.
WriteAlone(w) ==
  /\ UNCHANGED <<alive, told>>
  /\ Fresh(w)
  /\ table' = table \cup {w}
  /\ UNCHANGED nest

Next ==
  \/ \E h \in Handlers :
       \/ Begin(h) \/ Nest(h) \/ \E w \in Writes : Write(h, w)
       \/ ContextEnds(h) \/ Lose(h)
       \/ Keep(h) \/ Undo(h)
       \/ Publish(h) \/ Discard(h)
  \/ Refuse
  \/ \E w \in Writes : WriteAlone(w)

Spec == Init /\ [][Next]_vars

---------------------------------------------------------------------------
\* What the promise has no room for: an inner Do that fails after its context
\* has ended leaves its rows to the Do around it, which may publish them.
Strand(h) == Answer("error") /\ alive[h] \in 1 .. Depth(h) - 1 /\ Leave(h, Merged(h))

StrandingNext == Next \/ \E h \in Handlers : Strand(h)

StrandingSpec == Init /\ [][StrandingNext]_vars
=============================================================================
