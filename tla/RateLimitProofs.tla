-------------------------- MODULE RateLimitProofs --------------------------
(***************************************************************************)
(* Proofs about RateLimit, for any callers and clients, any rate and any   *)
(* burst.  The inductive invariant compares the bucket of a client with    *)
(* its ideal bucket: what the bucket would hold now, refilled and not yet  *)
(* capped, is within a stall's refill of the credit, from both sides; and  *)
(* a client without a bucket has its full credit.                          *)
(***************************************************************************)
EXTENDS RateLimit, FiniteSetTheorems, TLAPS

\* What comes in during one stall.
Slack == MaxStall * Rate

\* The tokens of the bucket of a client that a request whose clock is read now
\* would find, before the cap.
Pending(ip) == tokens[ip] + lastSeen[ip] * Rate

\* A bucket with t tokens, a ticks after lastSeen, against a credit of c.
Agrees(t, a, c) ==
  /\ t \in -Slack..Burst - 1 /\ a \in 0..MaxAge /\ c \in Int
  /\ t + a * Rate >= 0
  /\ c >= Least(t + a * Rate, Burst + Slack) - Slack
  /\ c >= Least(Burst, a * Rate - 2 * Slack)
  /\ c <= t + a * Rate /\ c <= Burst

Accounts ==
  \A ip \in Clients :
    IF tokens[ip] = None THEN lastSeen[ip] = 0 /\ credit[ip] = Burst
                         ELSE Agrees(tokens[ip], lastSeen[ip], credit[ip])

Shapes ==
  /\ tokens = [ip \in Clients |-> tokens[ip]]
  /\ lastSeen \in [Clients -> 0..MaxAge] /\ credit \in [Clients -> Int]
  /\ lastedGC \in 0..MaxAge
  /\ pc \in [Callers -> Clients \cup {None}]
  /\ now \in [Callers -> 0..MaxStall]
  /\ admitted \in [Callers -> BOOLEAN]

\* The map of buckets is within its bound.
Bounded == IsFiniteSet(Buckets) /\ Cardinality(Buckets) <= MaxBuckets

Inv == Shapes /\ Accounts /\ Bounded

-----------------------------------------------------------------------------
\* Arithmetic over Rate.
LEMMA RateIsPositive ==
  /\ Rate \in Nat /\ Rate > 0 /\ Burst \in Nat /\ Burst > 0 /\ Slack \in Nat
  /\ MaxStall \in Nat /\ idleTTL \in Nat /\ gcInterval \in Nat /\ MaxBuckets \in Nat
  /\ MaxAge \in Nat /\ MaxAge >= MaxStall + 1 + idleTTL
  /\ \A i \in Int : i # None
BY LimitsArePositive, NoneIsNothing DEF Slack, MaxAge

LEMMA Products ==
  ASSUME NEW a \in Int, NEW b \in Int
  PROVE  /\ a * Rate \in Int
         /\ (a + 1) * Rate = a * Rate + Rate
         /\ (a - b) * Rate = a * Rate - b * Rate
         /\ a <= b => a * Rate <= b * Rate
         /\ 0 * Rate = 0
BY RateIsPositive

LEMMA IdleIsFull == (idleTTL + 1) * Rate - 2 * Slack >= Burst
<1>1. (idleTTL + 1 - 2 * MaxStall) * Rate = (idleTTL + 1) * Rate - 2 * (MaxStall * Rate)
  BY RateIsPositive
<1> QED
  BY <1>1, RateIsPositive, IdleMeansFull DEF Slack

-----------------------------------------------------------------------------
\* A tick of the clock.
LEMMA AgreesAfterTick ==
  ASSUME NEW t, NEW a, NEW c, Agrees(t, a, c)
  PROVE  Agrees(t, Least(a + 1, MaxAge), Least(c + Rate, Burst))
<1> DEFINE e == Least(a + 1, MaxAge)
<1>1. /\ t \in Int /\ a \in Int /\ c \in Int /\ MaxAge \in Int /\ Rate \in Int /\ Rate > 0
      /\ Burst \in Int /\ Burst > 0 /\ Slack \in Int /\ Slack >= 0
  BY RateIsPositive DEF Agrees
<1>2. CASE a < MaxAge
  <2>1. e = a + 1 /\ e \in 0..MaxAge
    BY <1>1, <1>2 DEF Least, Agrees
  <2>2. e * Rate = a * Rate + Rate /\ a * Rate \in Int
    BY <1>1, <2>1, Products
  <2> HIDE DEF e
  <2> QED
    BY <1>1, <2>1, <2>2 DEF Agrees, Least
<1>3. CASE a = MaxAge
  <2>1. e = a /\ a * Rate \in Int
    BY <1>1, <1>3, Products DEF Least
  <2>2. a * Rate - 2 * Slack >= Burst
    <3>1. (idleTTL + 1) * Rate <= a * Rate /\ (idleTTL + 1) * Rate \in Int
      BY <1>3, RateIsPositive, Products
    <3> QED
      BY <1>1, <2>1, <3>1, IdleIsFull
  <2> HIDE DEF e
  <2> QED
    BY <1>1, <2>1, <2>2 DEF Agrees, Least
<1> QED
  BY <1>1, <1>2, <1>3 DEF Agrees

\* A request whose reading of the clock is n ticks old finds m tokens.
LEMMA AgreesAfterRequest ==
  ASSUME NEW t, NEW a, NEW c, Agrees(t, a, c), NEW n \in 0..MaxStall,
         NEW m, m = Least(t + (a - n) * Rate, Burst)
  PROVE  /\ m \in Int
         /\ m < 1 => Agrees(m, n, c) /\ c <= Slack
         /\ m >= 1 => Agrees(m - 1, n, c - 1)
<1>1. /\ t \in Int /\ a \in Int /\ c \in Int /\ n \in Int /\ MaxAge \in Int /\ Rate \in Int
      /\ Burst \in Int /\ Burst > 0 /\ Slack \in Int /\ Slack >= 0 /\ n \in 0..MaxAge
  BY RateIsPositive DEF Agrees
<1>2. /\ (a - n) * Rate = a * Rate - n * Rate /\ a * Rate \in Int /\ n * Rate \in Int
      /\ n * Rate >= 0 /\ n * Rate <= Slack
  BY <1>1, Products, RateIsPositive DEF Slack
<1> DEFINE p == a * Rate
           q == n * Rate
<1>3. m = Least(t + p - q, Burst) /\ p \in Int /\ q \in 0..Slack
  BY <1>1, <1>2
<1>4. /\ t + p >= 0 /\ c >= Least(t + p, Burst + Slack) - Slack /\ c <= t + p /\ c <= Burst
  BY DEF Agrees
<1> HIDE DEF p, q
<1>5. m \in Int /\ (m < 1 => c <= Slack)
  BY <1>1, <1>3, <1>4 DEF Least
<1>6. ASSUME m < 1 PROVE Agrees(m, n, c)
  <2>1. m \in -Slack..Burst - 1 /\ m + q >= 0 /\ c <= m + q
    BY <1>1, <1>3, <1>4, <1>6 DEF Least
  <2>2. c >= Least(m + q, Burst + Slack) - Slack
    BY <1>1, <1>3, <1>4, <1>6 DEF Least
  <2>3. c >= Least(Burst, q - 2 * Slack)
    BY <1>1, <1>3, <1>4, <1>6 DEF Least
  <2> QED
    BY <1>1, <1>4, <2>1, <2>2, <2>3 DEF Agrees, q
<1>7. ASSUME m >= 1 PROVE Agrees(m - 1, n, c - 1)
  <2>1. m - 1 \in -Slack..Burst - 1 /\ m - 1 + q >= 0 /\ c - 1 <= m - 1 + q
    BY <1>1, <1>3, <1>4, <1>7 DEF Least
  <2>2. c - 1 >= Least(m - 1 + q, Burst + Slack) - Slack
    BY <1>1, <1>3, <1>4, <1>7 DEF Least
  <2>3. c - 1 >= Least(Burst, q - 2 * Slack)
    BY <1>1, <1>3, <1>4, <1>7 DEF Least
  <2> QED
    BY <1>1, <1>4, <2>1, <2>2, <2>3 DEF Agrees, q
<1> QED
  BY <1>5, <1>6, <1>7, <1>1

\* The first request of a client that has its full credit.
LEMMA AgreesAtFirst ==
  ASSUME NEW n \in 0..MaxStall
  PROVE  Agrees(Burst - 1, n, Burst - 1)
<1>1. /\ n \in Int /\ n \in 0..MaxAge /\ Burst \in Int /\ Burst > 0 /\ Slack \in Int /\ Slack >= 0
      /\ n * Rate \in Int /\ n * Rate >= 0 /\ n * Rate <= Slack
  BY Products, RateIsPositive DEF Slack
<1> QED
  BY <1>1 DEF Agrees, Least

\* A bucket that looks idle belongs to a client with its full credit.
LEMMA IdleHasCredit ==
  ASSUME NEW t, NEW a, NEW c, Agrees(t, a, c), NEW n \in 0..MaxStall, a - n > idleTTL
  PROVE  c = Burst
<1>1. /\ t \in Int /\ a \in Int /\ c \in Int /\ n \in Int /\ n >= 0 /\ idleTTL \in Int
      /\ Burst \in Int /\ Slack \in Int
  BY RateIsPositive DEF Agrees
<1>2. (idleTTL + 1) * Rate <= a * Rate /\ (idleTTL + 1) * Rate \in Int /\ a * Rate \in Int
  <2>1. idleTTL + 1 \in Int /\ idleTTL + 1 <= a
    BY <1>1
  <2> QED
    BY <1>1, <2>1, Products
<1> QED
  BY <1>1, <1>2, IdleIsFull DEF Agrees, Least

-----------------------------------------------------------------------------
LEMMA InvInit == Init => Inv
<1> SUFFICES ASSUME Init PROVE Inv
  OBVIOUS
<1>1. tokens = [ip \in Clients |-> None]
  BY DEF Init
<1>2. Buckets = {}
  BY <1>1 DEF Buckets
<1>3. Bounded
  BY <1>2, FS_EmptySet, RateIsPositive DEF Bounded
<1>4. Accounts
  BY <1>1 DEF Init, Accounts
<1>5. admitted \in [Callers -> BOOLEAN]
  BY Zenon DEF Init
<1>6. Shapes
  BY <1>1, <1>5, RateIsPositive DEF Init, Shapes
<1> QED
  BY <1>3, <1>4, <1>6 DEF Inv

LEMMA TickKeepsInv ==
  ASSUME Inv, Tick
  PROVE  Inv'
<1>1. UNCHANGED <<tokens, pc, admitted>> /\ Buckets' = Buckets
  BY DEF Tick, Buckets
<1>2. Bounded'
  BY <1>1 DEF Inv, Bounded
<1>3. ASSUME NEW ip \in Clients
      PROVE  /\ lastSeen'[ip] = IF tokens[ip] = None THEN 0 ELSE Least(lastSeen[ip] + 1, MaxAge)
             /\ credit'[ip] = Least(credit[ip] + Rate, Burst)
  BY DEF Tick, Buckets
<1>4. Accounts'
  <2> SUFFICES ASSUME NEW ip \in Clients
               PROVE  IF tokens[ip] = None
                        THEN lastSeen'[ip] = 0 /\ credit'[ip] = Burst
                        ELSE Agrees(tokens[ip], lastSeen'[ip], credit'[ip])
    BY <1>1 DEF Accounts
  <2>1. CASE tokens[ip] = None
    BY <1>3, <2>1, RateIsPositive DEF Inv, Accounts, Least
  <2>2. CASE tokens[ip] # None
    BY <1>3, <2>2, AgreesAfterTick DEF Inv, Accounts
  <2> QED
    BY <2>1, <2>2
<1>5. Shapes'
  <2>1. lastSeen' \in [Clients -> 0..MaxAge] /\ lastedGC' \in 0..MaxAge
    BY RateIsPositive DEF Tick, Inv, Shapes, Least
  <2>2. credit' \in [Clients -> Int]
    BY RateIsPositive DEF Tick, Inv, Shapes, Least
  <2>3. now' \in [Callers -> 0..MaxStall]
    BY RateIsPositive DEF Tick, Inv, Shapes
  <2> QED
    BY <1>1, <2>1, <2>2, <2>3 DEF Inv, Shapes
<1> QED
  BY <1>2, <1>4, <1>5 DEF Inv

\* What the sweep of a call drops had nothing to forget.
LEMMA SweptHadCredit ==
  ASSUME Inv, NEW c \in Callers, NEW k \in Swept(c)
  PROVE  k \in Buckets /\ credit[k] = Burst
<1>1. k \in Buckets /\ lastSeen[k] - now[c] > idleTTL /\ k \in Clients /\ tokens[k] # None
  BY DEF Swept, Buckets
<1>2. now[c] \in 0..MaxStall
  BY DEF Inv, Shapes
<1> QED
  BY <1>1, <1>2, IdleHasCredit DEF Inv, Accounts

\* What allow does to the buckets, whichever way it ends.
LEMMA DoneKeepsInv ==
  ASSUME Inv, NEW c \in Callers, NEW ip \in Clients,
         NEW keep, keep = Buckets \ Swept(c),
         NEW n, NEW answer \in BOOLEAN, Done(c, ip, keep, n, answer),
         IF n = None THEN credit[ip] = Burst
                     ELSE Agrees(n, now[c], IF answer THEN credit[ip] - 1 ELSE credit[ip]),
         Bounded'
  PROVE  Inv'
<1>1. now[c] \in 0..MaxStall /\ now[c] \in 0..MaxAge /\ lastedGC \in 0..MaxAge
  BY RateIsPositive DEF Inv, Shapes
<1>2. ASSUME NEW k \in Clients
      PROVE  /\ tokens'[k] = IF k = ip THEN n ELSE IF k \in keep THEN tokens[k] ELSE None
             /\ lastSeen'[k] = IF k = ip THEN IF n = None THEN 0 ELSE now[c]
                               ELSE IF k \in keep THEN lastSeen[k] ELSE 0
             /\ credit'[k] = IF k = ip /\ answer /\ n # None THEN credit[k] - 1 ELSE credit[k]
  BY DEF Done, Inv, Shapes
<1>3. ASSUME NEW k \in Clients, k \notin keep
      PROVE  credit[k] = Burst
  <2>1. CASE k \in Buckets
    BY <1>3, <2>1, SweptHadCredit
  <2>2. CASE k \notin Buckets
    BY <2>2 DEF Inv, Accounts, Buckets
  <2> QED
    BY <2>1, <2>2
<1>4. Accounts'
  <2> SUFFICES ASSUME NEW k \in Clients
               PROVE  IF tokens'[k] = None
                        THEN lastSeen'[k] = 0 /\ credit'[k] = Burst
                        ELSE Agrees(tokens'[k], lastSeen'[k], credit'[k])
    BY DEF Accounts
  <2>1. CASE k = ip
    BY <1>2, <2>1
  <2>2. CASE k # ip /\ k \in keep
    <3>1. tokens[k] # None /\ Agrees(tokens[k], lastSeen[k], credit[k])
      BY <2>2 DEF Buckets, Inv, Accounts
    <3> QED
      BY <1>2, <2>2, <3>1
  <2>3. CASE k # ip /\ k \notin keep
    BY <1>2, <1>3, <2>3
  <2> QED
    BY <2>1, <2>2, <2>3
<1>5. Shapes'
  <2>1. tokens' = [k \in Clients |-> tokens'[k]]
    BY DEF Done
  <2>2. lastSeen' \in [Clients -> 0..MaxAge]
    BY <1>1, RateIsPositive DEF Done, Inv, Shapes
  <2>3. credit' \in [Clients -> Int]
    BY DEF Done, Inv, Shapes
  <2>4. lastedGC' \in 0..MaxAge
    BY <1>1 DEF Done
  <2>5. admitted' \in [Callers -> BOOLEAN]
    BY DEF Done, Inv, Shapes
  <2>6. pc' \in [Callers -> Clients \cup {None}] /\ now' \in [Callers -> 0..MaxStall]
    BY RateIsPositive DEF Done, Inv, Shapes
  <2> QED
    BY <2>1, <2>2, <2>3, <2>4, <2>5, <2>6 DEF Shapes
<1> QED
  BY <1>4, <1>5 DEF Inv

\* The buckets that are left fit their bound.
LEMMA KeptAreBounded ==
  ASSUME Inv, NEW c \in Callers
  PROVE  LET keep == Buckets \ Swept(c)
         IN  /\ keep \subseteq Clients /\ IsFiniteSet(keep)
             /\ Cardinality(keep) \in Nat /\ Cardinality(keep) <= MaxBuckets
<1> DEFINE keep == Buckets \ Swept(c)
<1>1. IsFiniteSet(Buckets) /\ Cardinality(Buckets) <= MaxBuckets
  BY DEF Inv, Bounded
<1>2. keep \subseteq Buckets /\ Buckets \subseteq Clients
  BY DEF Buckets
<1> HIDE DEF keep
<1>3. IsFiniteSet(keep) /\ Cardinality(keep) <= Cardinality(Buckets)
  BY <1>1, <1>2, FS_Subset
<1>4. Cardinality(keep) \in Nat /\ Cardinality(Buckets) \in Nat
  BY <1>1, <1>3, FS_CardinalityType
<1>5. Cardinality(keep) <= MaxBuckets
  BY <1>1, <1>3, <1>4, RateIsPositive
<1> QED
  BY <1>2, <1>3, <1>4, <1>5 DEF keep

LEMMA BucketsAfter ==
  ASSUME NEW c \in Callers, NEW ip \in Clients, NEW keep, keep = Buckets \ Swept(c),
         NEW n, NEW answer, Done(c, ip, keep, n, answer)
  PROVE  Buckets' = IF n = None THEN keep \ {ip} ELSE keep \cup {ip}
<1>1. tokens' = [k \in Clients |-> IF k = ip THEN n ELSE IF k \in keep THEN tokens[k] ELSE None]
  BY DEF Done
<1>2. \A k \in keep : k \in Clients /\ tokens[k] # None
  BY DEF Buckets
<1> QED
  BY <1>1, <1>2 DEF Buckets

\* A bucket that is written is there afterwards.
LEMMA BucketLeft ==
  ASSUME NEW c \in Callers, NEW ip \in Clients, NEW n, n # None, NEW answer,
         Done(c, ip, Buckets \ Swept(c), n, answer)
  PROVE  ip \in Buckets'
BY DEF Done, Buckets

LEMMA OverflowKeepsInv ==
  ASSUME Inv, NEW c \in Callers, Overflow(c)
  PROVE  Inv'
<1> DEFINE ip == pc[c]
           keep == Buckets \ Swept(c)
<1>1. ip \in Clients /\ ip \notin keep /\ Done(c, ip, keep, None, TRUE)
  BY DEF Overflow, Inv, Shapes
<1>2. credit[ip] = Burst
  <2>1. CASE ip \in Buckets
    BY <1>1, <2>1, SweptHadCredit
  <2>2. CASE ip \notin Buckets
    BY <1>1, <2>2 DEF Inv, Accounts, Buckets
  <2> QED
    BY <2>1, <2>2
<1>3. Bounded'
  <2>1. Buckets' = keep \ {ip}
    <3> HIDE DEF ip
    <3> QED
      BY <1>1, BucketsAfter
  <2>2. keep \ {ip} = keep
    BY <1>1
  <2> QED
    BY <2>1, <2>2, KeptAreBounded DEF Bounded
<1> HIDE DEF ip, keep
<1>4. TRUE \in BOOLEAN
  BY Zenon
<1> QED
  BY <1>1, <1>2, <1>3, <1>4, DoneKeepsInv DEF keep

LEMMA FirstSeenKeepsInv ==
  ASSUME Inv, NEW c \in Callers, FirstSeen(c)
  PROVE  Inv'
<1> DEFINE ip == pc[c]
           keep == Buckets \ Swept(c)
<1>1. /\ ip \in Clients /\ ip \notin keep /\ Cardinality(keep) < MaxBuckets
      /\ Done(c, ip, keep, Burst - 1, TRUE) /\ Burst - 1 # None
  <2>1. /\ ip # None /\ ip \notin keep /\ Cardinality(keep) < MaxBuckets
        /\ Done(c, ip, keep, Burst - 1, TRUE)
    BY DEF FirstSeen
  <2>2. ip \in Clients
    BY <2>1 DEF Inv, Shapes
  <2>3. Burst - 1 \in Int
    BY RateIsPositive
  <2> QED
    BY <2>1, <2>2, <2>3, RateIsPositive
<1>2. credit[ip] = Burst
  <2>1. CASE ip \in Buckets
    BY <1>1, <2>1, SweptHadCredit
  <2>2. CASE ip \notin Buckets
    BY <1>1, <2>2 DEF Inv, Accounts, Buckets
  <2> QED
    BY <2>1, <2>2
<1>3. Bounded'
  <2>1. Buckets' = keep \cup {ip}
    BY <1>1, BucketsAfter
  <2>2. IsFiniteSet(keep) /\ Cardinality(keep) \in Nat
    BY KeptAreBounded
  <2> HIDE DEF ip, keep
  <2>3. IsFiniteSet(Buckets') /\ Cardinality(Buckets') = Cardinality(keep) + 1
    BY <1>1, <2>1, <2>2, FS_AddElement
  <2> QED
    BY <1>1, <2>2, <2>3, RateIsPositive DEF Bounded
<1>4. Agrees(Burst - 1, now[c], Burst - 1)
  BY AgreesAtFirst DEF Inv, Shapes
<1> HIDE DEF ip, keep
<1>5. TRUE \in BOOLEAN
  BY Zenon
<1> QED
  BY <1>1, <1>2, <1>3, <1>4, <1>5, DoneKeepsInv DEF keep

\* A request that finds a bucket, and the credit of a client that is refused.
LEMMA SeenKeepsInv ==
  ASSUME Inv, NEW c \in Callers, Seen(c)
  PROVE  Inv' /\ (~admitted'[c] => credit[pc[c]] <= Slack)
<1> DEFINE ip == pc[c]
           keep == Buckets \ Swept(c)
           m == Refilled(c, ip)
<1>1. ip \in Clients /\ ip \in keep /\ tokens[ip] # None /\ now[c] \in 0..MaxStall
  BY DEF Seen, Inv, Shapes, Buckets
<1>2. Agrees(tokens[ip], lastSeen[ip], credit[ip])
  BY <1>1 DEF Inv, Accounts
<1>3. m = Least(tokens[ip] + (lastSeen[ip] - now[c]) * Rate, Burst)
  BY DEF Refilled
<1>4. /\ m \in Int
      /\ m < 1 => Agrees(m, now[c], credit[ip]) /\ credit[ip] <= Slack
      /\ m >= 1 => Agrees(m - 1, now[c], credit[ip] - 1)
  <2> HIDE DEF m, ip
  <2> QED
    BY <1>1, <1>2, <1>3, AgreesAfterRequest
<1>5. /\ m < 1 => Done(c, ip, keep, m, FALSE)
      /\ m >= 1 => Done(c, ip, keep, m - 1, TRUE)
  <2>1. IF m < 1 THEN Done(c, ip, keep, m, FALSE) ELSE Done(c, ip, keep, m - 1, TRUE)
    BY DEF Seen
  <2>2. m >= 1 => ~(m < 1)
    BY <1>4
  <2> HIDE DEF m, ip, keep
  <2> QED
    BY <2>1, <2>2
<1> HIDE DEF m, ip, keep
<1>6. m # None /\ m - 1 # None /\ (m < 1 \/ m >= 1)
  BY <1>4, RateIsPositive
<1>7. ASSUME NEW n \in {m, m - 1}, NEW answer, Done(c, ip, keep, n, answer) PROVE Bounded'
  <2>1. n # None /\ keep \cup {ip} = keep
    BY <1>1, <1>6
  <2>2. Buckets' = keep
    BY <1>1, <1>7, <2>1, BucketsAfter DEF keep
  <2> QED
    BY <2>2, KeptAreBounded DEF Bounded, keep
<1>8. TRUE \in BOOLEAN /\ FALSE \in BOOLEAN
  BY Zenon
<1>9. CASE m < 1
  <2>1. Inv'
    BY <1>1, <1>4, <1>5, <1>6, <1>7, <1>8, <1>9, DoneKeepsInv DEF keep
  <2> QED
    BY <1>4, <1>9, <2>1 DEF ip
<1>10. CASE m >= 1
  <2>1. Inv'
    BY <1>1, <1>4, <1>5, <1>6, <1>7, <1>8, <1>10, DoneKeepsInv DEF keep
  <2>2. admitted'[c] = TRUE
    BY <1>5, <1>10 DEF Done, Inv, Shapes
  <2> QED
    BY <2>1, <2>2
<1> QED
  BY <1>6, <1>9, <1>10

LEMMA InvNext == Inv /\ [Next]_vars => Inv'
<1> SUFFICES ASSUME Inv, [Next]_vars PROVE Inv'
  OBVIOUS
<1>1. CASE Tick
  BY <1>1, TickKeepsInv
<1>2. ASSUME NEW c \in Callers, Arrive(c) PROVE Inv'
  BY <1>2 DEF Arrive, Inv, Shapes, Accounts, Bounded, Buckets
<1>3. ASSUME NEW c \in Callers, Overflow(c) \/ FirstSeen(c) \/ Seen(c) PROVE Inv'
  BY <1>3, OverflowKeepsInv, FirstSeenKeepsInv, SeenKeepsInv
<1>4. CASE UNCHANGED vars
  BY <1>4 DEF vars, Inv, Shapes, Accounts, Bounded, Buckets
<1> QED
  BY <1>1, <1>2, <1>3, <1>4 DEF Next

LEMMA InvHolds == Spec => []Inv
<1> QED
  BY InvInit, InvNext, PTL DEF Spec

-----------------------------------------------------------------------------
\* The types of the state: in particular no more than maxBuckets buckets, and
\* none overdrawn by more than a stall (allow).
THEOREM TypeCorrect == Spec => []TypeOK
<1>1. Inv => TypeOK
  <2> SUFFICES ASSUME Inv PROVE TypeOK
    OBVIOUS
  <2>1. \A ip \in Clients : tokens[ip] \in (-(MaxStall * Rate))..(Burst - 1) \cup {None}
    BY DEF Inv, Accounts, Agrees, Slack
  <2>2. tokens \in [Clients -> (-(MaxStall * Rate))..(Burst - 1) \cup {None}]
    <3> DEFINE T == (-(MaxStall * Rate))..(Burst - 1) \cup {None}
    <3> HIDE DEF T
    <3>1. tokens = [ip \in Clients |-> tokens[ip]]
      BY DEF Inv, Shapes
    <3>2. \A ip \in Clients : tokens[ip] \in T
      BY <2>1 DEF T
    <3>3. tokens \in [Clients -> T]
      BY <3>1, <3>2, Zenon
    <3> QED
      BY <3>3 DEF T
  <2> QED
    BY <2>2 DEF Inv, Shapes, Bounded, TypeOK
<1> QED
  BY <1>1, InvHolds, PTL

\* No client is more than a stall in debt.
InCredit == \A ip \in Clients : credit[ip] >= -(MaxStall * Rate)

LEMMA CreditIsKept == Inv => InCredit
<1> SUFFICES ASSUME Inv, NEW ip \in Clients PROVE credit[ip] >= -(MaxStall * Rate)
  BY DEF InCredit
<1>1. Slack \in Nat /\ Burst \in Nat
  BY RateIsPositive
<1>2. CASE tokens[ip] = None
  BY <1>1, <1>2 DEF Inv, Accounts, Slack
<1>3. CASE tokens[ip] # None
  <2>1. Agrees(tokens[ip], lastSeen[ip], credit[ip])
    BY <1>3 DEF Inv, Accounts
  <2>2. lastSeen[ip] * Rate \in Int
    BY <2>1, RateIsPositive, Products DEF Agrees
  <2>3. credit[ip] >= -Slack
    BY <1>1, <2>1, <2>2 DEF Agrees, Least
  <2> QED
    BY <2>3 DEF Slack
<1> QED
  BY <1>2, <1>3

\* A client is left without a bucket only when there is no room for one.
LEMMA WithoutBucketOnlyWhenFull ==
  ASSUME Inv, NEW c \in Callers, Overflow(c) \/ FirstSeen(c) \/ Seen(c), pc[c] \notin Buckets'
  PROVE  Cardinality(Buckets') >= MaxBuckets
<1> DEFINE ip == pc[c]
           keep == Buckets \ Swept(c)
<1>1. ip \in Clients
  BY DEF Overflow, FirstSeen, Seen, Inv, Shapes
<1>2. CASE Overflow(c)
  <2>1. ip \notin keep /\ Cardinality(keep) >= MaxBuckets /\ Done(c, ip, keep, None, TRUE)
    BY <1>2 DEF Overflow
  <2> HIDE DEF ip
  <2>2. Buckets' = keep \ {ip}
    BY <1>1, <2>1, BucketsAfter
  <2>3. keep \ {ip} = keep
    BY <2>1
  <2> QED
    BY <2>1, <2>2, <2>3
<1>3. CASE FirstSeen(c)
  <2>1. Done(c, ip, keep, Burst - 1, TRUE)
    BY <1>3 DEF FirstSeen
  <2>3. Burst - 1 # None
    <3>1. Burst - 1 \in Int
      BY RateIsPositive
    <3> QED
      BY <3>1, RateIsPositive
  <2>2. ip \in Buckets'
    BY <1>1, <2>1, <2>3, BucketLeft
  <2> QED
    BY <2>2 DEF ip
<1>4. CASE Seen(c)
  <2> DEFINE m == Refilled(c, ip)
  <2>1. IF m < 1 THEN Done(c, ip, keep, m, FALSE) ELSE Done(c, ip, keep, m - 1, TRUE)
    BY <1>4 DEF Seen
  <2>2. ip \in keep
    BY <1>4 DEF Seen
  <2>3. m \in Int
    <3>1. Agrees(tokens[ip], lastSeen[ip], credit[ip]) /\ now[c] \in 0..MaxStall
      BY <1>1, <2>2 DEF Inv, Accounts, Shapes, Buckets
    <3>2. m = Least(tokens[ip] + (lastSeen[ip] - now[c]) * Rate, Burst)
      BY DEF Refilled
    <3> HIDE DEF m, ip
    <3> QED
      BY <3>1, <3>2, AgreesAfterRequest
  <2> HIDE DEF ip, m
  <2>4. m # None /\ m - 1 # None
    BY <2>3, RateIsPositive
  <2>5. ip \in Buckets'
    <3>1. CASE Done(c, ip, keep, m, FALSE)
      BY <1>1, <2>4, <3>1, BucketLeft
    <3>2. CASE Done(c, ip, keep, m - 1, TRUE)
      BY <1>1, <2>4, <3>2, BucketLeft
    <3> QED
      BY <2>1, <3>1, <3>2
  <2> QED
    BY <2>5 DEF ip
<1> QED
  BY <1>2, <1>3, <1>4

\* Whoever has a bucket is admitted on the credit of an ideal one, whatever the
\* sweeps drop and in whatever order the clocks were read, and whoever has none
\* only while the map is full (allow, sweepLocked).
THEOREM LimitDoesNotLeak == Spec => AdmitsNoMore
<1>1. Inv /\ InCredit' /\ [Next]_vars =>
        [\A c \in Callers : pc[c] # None /\ pc'[c] = None /\ admitted'[c] =>
           IF pc[c] \in Buckets' THEN credit'[pc[c]] >= -(MaxStall * Rate)
                                 ELSE Cardinality(Buckets') >= MaxBuckets]_vars
  <2> SUFFICES ASSUME Inv, InCredit', Next, NEW c \in Callers, pc[c] # None, pc'[c] = None
               PROVE  IF pc[c] \in Buckets' THEN credit'[pc[c]] >= -(MaxStall * Rate)
                                            ELSE Cardinality(Buckets') >= MaxBuckets
    BY DEF vars
  <2>1. CASE pc[c] \in Buckets'
    <3>1. pc[c] \in Clients
      BY <2>1 DEF Buckets
    <3> QED
      BY <2>1, <3>1 DEF InCredit
  <2>2. CASE pc[c] \notin Buckets'
    <3>1. CASE Tick
      BY <3>1 DEF Tick
    <3>2. ASSUME NEW d \in Callers, Arrive(d) PROVE FALSE
      BY <3>2, NoneIsNothing DEF Arrive, Inv, Shapes
    <3>3. ASSUME NEW d \in Callers, Overflow(d) \/ FirstSeen(d) \/ Seen(d)
          PROVE  Cardinality(Buckets') >= MaxBuckets
      <4>1. pc' = [pc EXCEPT ![d] = None] /\ pc \in [Callers -> Clients \cup {None}]
        BY <3>3 DEF Overflow, FirstSeen, Seen, Done, Inv, Shapes
      <4>2. c = d
        BY <4>1
      <4> QED
        BY <2>2, <3>3, <4>2, WithoutBucketOnlyWhenFull
    <3> QED
      BY <2>2, <3>1, <3>2, <3>3 DEF Next
  <2> QED
    BY <2>1, <2>2
<1> QED
  BY <1>1, CreditIsKept, InvHolds, PTL DEF Spec, AdmitsNoMore

\* A client is refused only when its ideal bucket holds no more than what
\* comes in during one stall (allow).
THEOREM RefusalIsEarned == Spec => RefusesOnlyTheEmpty
<1>1. Inv /\ [Next]_vars =>
        [\A c \in Callers : pc[c] # None /\ pc'[c] = None /\ ~admitted'[c] =>
           credit[pc[c]] <= MaxStall * Rate]_vars
  <2> SUFFICES ASSUME Inv, Next, NEW c \in Callers,
                      pc[c] # None, pc'[c] = None, ~admitted'[c]
               PROVE  credit[pc[c]] <= MaxStall * Rate
    BY DEF vars
  <2>1. CASE Tick
    BY <2>1 DEF Tick
  <2>2. ASSUME NEW d \in Callers, Arrive(d) PROVE FALSE
    BY <2>2, NoneIsNothing DEF Arrive, Inv, Shapes
  <2>3. ASSUME NEW d \in Callers, Overflow(d) \/ FirstSeen(d) PROVE FALSE
    <3>1. pc' = [pc EXCEPT ![d] = None] /\ admitted' = [admitted EXCEPT ![d] = TRUE]
      BY <2>3 DEF Overflow, FirstSeen, Done
    <3>2. pc \in [Callers -> Clients \cup {None}] /\ admitted \in [Callers -> BOOLEAN]
      BY DEF Inv, Shapes
    <3>3. c = d
      BY <3>1, <3>2
    <3> QED
      BY <3>1, <3>2, <3>3
  <2>4. ASSUME NEW d \in Callers, Seen(d) PROVE credit[pc[c]] <= MaxStall * Rate
    <3>1. pc' = [pc EXCEPT ![d] = None] /\ pc \in [Callers -> Clients \cup {None}]
      BY <2>4 DEF Seen, Done, Inv, Shapes
    <3>2. c = d
      BY <3>1
    <3> QED
      BY <2>4, <3>2, SeenKeepsInv DEF Slack
  <2> QED
    BY <2>1, <2>2, <2>3, <2>4 DEF Next
<1> QED
  BY <1>1, InvHolds, PTL DEF Spec, RefusesOnlyTheEmpty
=============================================================================
