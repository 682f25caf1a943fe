----------------------------- MODULE RateLimit -----------------------------
(***************************************************************************)
(* The token buckets of internal/middleware/ratelimit.go, one per client   *)
(* address.                                                                *)
(*                                                                         *)
(* allow reads the clock before it takes the mutex, so requests may reach  *)
(* the buckets in another order than the one their clocks were read in.    *)
(* Time is counted in ticks and kept relative: lastSeen and lastedGC are   *)
(* ages, and elapsed is the age of one reading less the age of another.    *)
(* Tokens are whole: Rate of them come per tick.                           *)
(***************************************************************************)
EXTENDS Integers, FiniteSets

CONSTANTS
  Callers,     \* request goroutines
  Clients,     \* client addresses
  Rate, Burst, \* rps and burst of the limiter
  MaxBuckets,
  gcInterval, idleTTL,
  MaxStall,    \* bound: how long a caller waits between its clock and the mutex
  None

ASSUME LimitsArePositive ==
  /\ Rate \in Nat \ {0} /\ Burst \in Nat \ {0} /\ MaxBuckets \in Nat
  /\ gcInterval \in Nat /\ idleTTL \in Nat /\ MaxStall \in Nat

\* A client that looks idle for more than idleTTL has a full bucket by then, and
\* dropping it forgets nothing.  Two stalls are deducted: that of the request
\* which left lastSeen in the past, and that by which it was overdrawn.
ASSUME IdleMeansFull == (idleTTL + 1 - 2 * MaxStall) * Rate >= Burst

ASSUME NoneIsNothing == None \notin Clients \cup Int

VARIABLES
  tokens,    \* of the bucket of each client, None without one
  lastSeen,  \* age of its lastSeen
  lastedGC,  \* age of the last sweep
  pc,        \* the client a caller is serving, None for an idle caller
  now,       \* age of the caller's reading of the clock
  admitted,  \* the answer to the caller's last request
  credit     \* history: tokens of an ideal bucket that is never dropped and
             \* is charged when allow charges the client's own bucket; what
             \* Overflow lets through is charged to nobody

vars == <<tokens, lastSeen, lastedGC, pc, now, admitted, credit>>

Buckets == {ip \in Clients : tokens[ip] # None}
Least(a, b) == IF a < b THEN a ELSE b

\* Ages stop at MaxAge: the code tells no longer ones apart.
MaxAge == MaxStall + 1 + (IF idleTTL > gcInterval THEN idleTTL ELSE gcInterval)

Init ==
  /\ tokens = [ip \in Clients |-> None]
  /\ lastSeen = [ip \in Clients |-> 0]
  /\ lastedGC = 0
  /\ pc = [c \in Callers |-> None]
  /\ now = [c \in Callers |-> 0]
  /\ admitted = [c \in Callers |-> TRUE]
  /\ credit = [ip \in Clients |-> Burst]

Tick ==
  /\ \A c \in Callers : pc[c] # None => now[c] < MaxStall
  /\ now' = [c \in Callers |-> IF pc[c] = None THEN 0 ELSE now[c] + 1]
  /\ lastSeen' = [ip \in Clients |->
       IF ip \in Buckets THEN Least(lastSeen[ip] + 1, MaxAge) ELSE 0]
  /\ lastedGC' = Least(lastedGC + 1, MaxAge)
  /\ credit' = [ip \in Clients |-> Least(credit[ip] + Rate, Burst)]
  /\ UNCHANGED <<tokens, pc, admitted>>

Arrive(c) ==
  /\ pc[c] = None
  /\ \E ip \in Clients : pc' = [pc EXCEPT ![c] = ip]
  /\ UNCHANGED <<tokens, lastSeen, lastedGC, now, admitted, credit>>

-----------------------------------------------------------------------------
\* Broken: the sweep drops every bucket.
SweptAll(c) == IF lastedGC - now[c] >= gcInterval THEN Buckets ELSE {}

\* What sweepLocked drops, at most once per gcInterval.
Swept(c) ==
  IF lastedGC - now[c] >= gcInterval
    THEN {ip \in Buckets : lastSeen[ip] - now[c] > idleTTL}
    ELSE {}

\* Broken: lastSeen moves on, but nothing is refilled.
RefilledNever(c, ip) == tokens[ip]

\* The lazy refill.  It is negative for a reading older than lastSeen.
Refilled(c, ip) == Least(tokens[ip] + (lastSeen[ip] - now[c]) * Rate, Burst)

\* allow ends: the client's bucket is left with n tokens.
Done(c, ip, keep, n, answer) ==
  /\ tokens' = [k \in Clients |-> IF k = ip THEN n ELSE IF k \in keep THEN tokens[k] ELSE None]
  /\ lastSeen' = [k \in Clients |->
       IF k = ip THEN IF n = None THEN 0 ELSE now[c]
       ELSE IF k \in keep THEN lastSeen[k] ELSE 0]
  /\ lastedGC' = IF lastedGC - now[c] >= gcInterval THEN now[c] ELSE lastedGC
  /\ pc' = [pc EXCEPT ![c] = None]
  /\ now' = [now EXCEPT ![c] = 0]
  /\ admitted' = [admitted EXCEPT ![c] = answer]
  /\ credit' = [credit EXCEPT ![ip] = IF answer /\ n # None THEN @ - 1 ELSE @]

\* No bucket, and no room for one: the request is let through without limit,
\* which the comment of maxBuckets intends.
Overflow(c) ==
  /\ pc[c] # None
  /\ LET ip == pc[c]  keep == Buckets \ Swept(c) IN
       /\ ip \notin keep
       /\ Cardinality(keep) >= MaxBuckets
       /\ Done(c, ip, keep, None, TRUE)

\* Broken: room for one bucket more than there is.
FirstSeenOffByOne(c) ==
  /\ pc[c] # None
  /\ LET ip == pc[c]  keep == Buckets \ Swept(c) IN
       /\ ip \notin keep
       /\ Cardinality(keep) <= MaxBuckets
       /\ Done(c, ip, keep, Burst - 1, TRUE)

FirstSeen(c) ==
  /\ pc[c] # None
  /\ LET ip == pc[c]  keep == Buckets \ Swept(c) IN
       /\ ip \notin keep
       /\ Cardinality(keep) < MaxBuckets
       /\ Done(c, ip, keep, Burst - 1, TRUE)

Seen(c) ==
  /\ pc[c] # None
  /\ LET ip == pc[c]  keep == Buckets \ Swept(c)  n == Refilled(c, ip) IN
       /\ ip \in keep
       /\ IF n < 1 THEN Done(c, ip, keep, n, FALSE) ELSE Done(c, ip, keep, n - 1, TRUE)

Next == Tick \/ \E c \in Callers : Arrive(c) \/ Overflow(c) \/ FirstSeen(c) \/ Seen(c)

Spec == Init /\ [][Next]_vars

-----------------------------------------------------------------------------
\* Type invariant.  Readings out of order may leave a bucket overdrawn, by what
\* comes in during one stall.
TypeOK ==
  /\ tokens \in [Clients -> (-(MaxStall * Rate))..(Burst - 1) \cup {None}]
  /\ Cardinality(Buckets) <= MaxBuckets
  /\ lastSeen \in [Clients -> 0..MaxAge]
  /\ lastedGC \in 0..MaxAge
  /\ pc \in [Callers -> Clients \cup {None}]
  /\ now \in [Callers -> 0..MaxStall]
  /\ admitted \in [Callers -> BOOLEAN]
  /\ credit \in [Clients -> Int]

\* Sweeps and readings out of order do not make the limit leak: a client with a
\* bucket is admitted on the credit of an ideal one, give or take what comes in
\* during one stall.  A client without one is admitted without limit, but only
\* while every bucket is taken.
AdmitsNoMore ==
  [][\A c \in Callers : pc[c] # None /\ pc'[c] = None /\ admitted'[c] =>
       IF pc[c] \in Buckets' THEN credit'[pc[c]] >= -(MaxStall * Rate)
                             ELSE Cardinality(Buckets') >= MaxBuckets]_vars

\* A client is refused only when its ideal bucket is as good as empty: a
\* request is never refused for more than the refill of one stall.
RefusesOnlyTheEmpty ==
  [][\A c \in Callers : pc[c] # None /\ pc'[c] = None /\ ~admitted'[c] =>
       credit[pc[c]] <= MaxStall * Rate]_vars
=============================================================================
