--------------------------- MODULE PipelineProofs ---------------------------
(***************************************************************************)
(* Proofs about Pipeline, for any number of requests, any traffic and any  *)
(* limits.  The inductive invariant says, for each request, which handlers *)
(* are on its stack, and what has been told, answered and read while they  *)
(* are: frame by frame, it is what the tails of Logger, Recovery and       *)
(* Metrics find when they run.                                             *)
(***************************************************************************)
EXTENDS Pipeline, SequenceTheorems, FiniteSetTheorems, TLAPS

-----------------------------------------------------------------------------
\* The stack of a request: the frames are the handlers of its chain, in their
\* order, but for Cors, which never calls c.Next.  On the way in they are all
\* the handlers that have been called.
Height(r) == Len(frames[r])
Length(r) == Len(MyChain(r))
Position(j) == IF j < 7 THEN j ELSE j + 1
Called(i) == IF i <= 7 THEN i - 1 ELSE i - 2

WayOut(r) == panic[r] # None \/ index[r] > Length(r)

Stacked(r) ==
  /\ Height(r) < Length(r)
  /\ \A j \in 1..Height(r) : frames[r][j] = MyChain(r)[Position(j)]
  /\ ~WayOut(r) => Height(r) = Called(index[r])

\* On the way in nothing has been said to the client, or about it.
Untouched(r) ==
  ~WayOut(r) =>
    /\ reply[r] = [status |-> InitialStatus(req[r].route), sent |-> None, docs |-> 0]
    /\ counted[r] = << >> /\ logged[r] = << >> /\ got[r] = None /\ raised[r] = None

\* A body that BodyLimit refuses for its declared length.
TooLong(r) == conf.maxBody > 0 /\ req[r].declared /\ req[r].size > conf.maxBody

\* On the way out Logger, the fourth frame, and Metrics, the second, have told
\* the status once they are off the stack, and it is not changed after that.
ToldOnce(r) ==
  /\ reply[r].sent \in {None, reply[r].status}
  /\ TooLong(r) => Height(r) <= 2
  /\ counted[r] = IF WayOut(r) /\ Height(r) <= 1 THEN <<reply[r].status>> ELSE << >>
  /\ logged[r] = IF WayOut(r) /\ Height(r) <= 3 /\ req[r].route # "probe" /\ ~TooLong(r)
                   THEN <<reply[r].status>> ELSE << >>

\* A panic on its way to Recovery, the fifth frame, and past it.
PanicInPlace(r) ==
  LET sent == raised[r].sent  why == raised[r].why IN
    CASE raised[r] = None ->
           /\ panic[r] = None /\ panics[r] = 0
           /\ Height(r) = Length(r) - 1 =>
                reply[r].docs = IF reply[r].sent = None THEN 0 ELSE 1
      [] raised[r] # None /\ panic[r] # None ->
           /\ panic[r] = why /\ panics[r] = 0
           /\ why # "abort" => Height(r) >= 5
           /\ reply[r].sent = sent
           /\ reply[r].docs = IF sent = None THEN 0 ELSE 1
      [] OTHER ->
           /\ why # "abort" /\ Height(r) <= 4
           /\ panics[r] = IF why = "bug" THEN 1 ELSE 0
           /\ why = "bug" => /\ reply[r].docs = 1
                             /\ reply[r].sent = IF sent = None THEN 500 ELSE sent

\* Until the handler reads the body it is all there, and the quota is what is
\* left of the limit.
BodyInPlace(r) ==
  IF got[r] # None
    THEN IF got[r] = TooLarge
           THEN conf.maxBody > 0 /\ req[r].size > conf.maxBody /\ reply[r].sent = 413
           ELSE got[r] = req[r].size /\ (conf.maxBody > 0 => req[r].size <= conf.maxBody)
    ELSE /\ ~WayOut(r) /\ index[r] <= 4 => body[r].head = 0 /\ body[r].left = req[r].size
         /\ Height(r) >= 3 =>
              /\ body[r].head + body[r].left = req[r].size
              /\ IF conf.maxBody > 0
                   THEN body[r].quota # None /\ body[r].quota + body[r].head = conf.maxBody
                   ELSE body[r].quota = None

\* A place that serves no request.
Vacant(r) ==
  /\ index[r] = 1 /\ frames[r] = << >> /\ panic[r] = None
  /\ reply[r] = [status |-> 200, sent |-> None, docs |-> 0]
  /\ body[r] = [head |-> 0, left |-> 0, quota |-> None]
  /\ got[r] = None /\ counted[r] = << >> /\ logged[r] = << >>
  /\ panics[r] = 0 /\ raised[r] = None

Served(r) ==
  /\ Stacked(r) /\ Untouched(r) /\ ToldOnce(r) /\ PanicInPlace(r) /\ BodyInPlace(r)

Local(r) == IF Serving(r) THEN Served(r) ELSE Vacant(r)

\* The gauge counts the requests whose second frame is still there.
Measured == {r \in Requests : Height(r) >= 2}
GaugeIsExact == IsFiniteSet(Measured) /\ inflight = Cardinality(Measured)

Inv == TypeOK /\ (\A r \in Requests : Local(r)) /\ GaugeIsExact

-----------------------------------------------------------------------------
(* The chains. *)

LEMMA BaseIs ==
  /\ Base \in Seq(Handlers) /\ Len(Base) = 7
  /\ Base[1] = "RequestID" /\ Base[2] = "Metrics" /\ Base[3] = "BodyLimit"
  /\ Base[4] = "Logger" /\ Base[5] = "Recovery" /\ Base[6] = "SecurityHeaders"
  /\ Base[7] = "Cors"
BY DEF Base, Handlers

LEMMA Joins ==
  ASSUME NEW s \in Seq(Handlers), NEW u \in Seq(Handlers)
  PROVE  /\ s \o u \in Seq(Handlers) /\ Len(s \o u) = Len(s) + Len(u)
         /\ \A i \in 1..Len(s) : (s \o u)[i] = s[i]
         /\ \A i \in 1..Len(u) : (s \o u)[Len(s) + i] = u[i]
<1>1. /\ s \o u \in Seq(Handlers) /\ Len(s \o u) = Len(s) + Len(u)
      /\ \A i \in 1..Len(s) + Len(u) :
           (s \o u)[i] = IF i <= Len(s) THEN s[i] ELSE u[i - Len(s)]
  BY ConcatProperties
<1>2. Len(s) \in Nat /\ Len(u) \in Nat
  BY LenProperties
<1> DEFINE t == s \o u
<1> HIDE DEF t
<1>3. \A i \in 1..Len(s) : t[i] = s[i]
  BY <1>1, <1>2 DEF t
<1>4. ASSUME NEW i \in 1..Len(u) PROVE t[Len(s) + i] = u[i]
  <2>1. Len(s) + i \in 1..Len(s) + Len(u) /\ ~(Len(s) + i <= Len(s)) /\ (Len(s) + i) - Len(s) = i
    BY <1>2
  <2>2. t[Len(s) + i] = u[(Len(s) + i) - Len(s)]
    BY <1>1, <2>1 DEF t
  <2> QED
    BY <2>1, <2>2
<1> QED
  BY <1>1, <1>3, <1>4 DEF t

LEMMA ThrottledIs ==
  LET t == Base \o Throttle
  IN  /\ t \in Seq(Handlers) /\ Len(t) = 9 /\ \A i \in 1..7 : t[i] = Base[i]
      /\ t[8] = "RateLimit" /\ t[9] = "Timeout"
<1> DEFINE t == Base \o Throttle
<1>1. /\ Throttle \in Seq(Handlers) /\ Len(Throttle) = 2
      /\ Throttle[1] = "RateLimit" /\ Throttle[2] = "Timeout"
  BY DEF Throttle, Handlers
<1>2. /\ t \in Seq(Handlers) /\ Len(t) = 7 + 2
      /\ \A i \in 1..7 : t[i] = Base[i]
      /\ \A i \in 1..2 : t[7 + i] = Throttle[i]
  <2>1. /\ t \in Seq(Handlers) /\ Len(t) = Len(Base) + Len(Throttle)
        /\ \A i \in 1..Len(Base) : t[i] = Base[i]
        /\ \A i \in 1..Len(Throttle) : t[Len(Base) + i] = Throttle[i]
    BY <1>1, BaseIs, Joins, Zenon
  <2> HIDE DEF t
  <2> QED
    BY <1>1, <2>1, BaseIs, Zenon
<1> HIDE DEF t
<1>3. t[8] = Throttle[1] /\ t[9] = Throttle[2] /\ Len(t) = 9
  <2>1. t[7 + 1] = Throttle[1] /\ t[7 + 2] = Throttle[2]
    BY <1>2
  <2> QED
    BY <1>2, <2>1
<1> QED
  BY <1>1, <1>2, <1>3, Zenon DEF t

\* What follows Base in the chain of a route, the handler last.
LEMMA Chains ==
  ASSUME NEW route \in Routes
  PROVE  LET c == Chain(route)
         IN  /\ c \in Seq(Handlers) /\ \A i \in 1..7 : c[i] = Base[i]
             /\ \/ route = "probe" /\ Len(c) = 8 /\ c[8] = "Handler"
                \/ /\ c[8] = "RateLimit" /\ c[9] = "Timeout"
                   /\ \/ Len(c) = 10 /\ c[10] = "Handler"
                      \/ /\ Len(c) = 11 /\ c[11] = "Handler"
                         /\ c[10] \in {"Auth", "AuthLimit"}
<1> DEFINE c == Chain(route)
           t == Base \o Throttle
<1>1. /\ t \in Seq(Handlers) /\ Len(t) = 9 /\ \A i \in 1..7 : t[i] = Base[i]
      /\ t[8] = "RateLimit" /\ t[9] = "Timeout"
  BY ThrottledIs
<1>2. CASE route = "probe"
  <2> DEFINE u == <<"Handler">>
  <2>1. u \in Seq(Handlers) /\ Len(u) = 1 /\ u[1] = "Handler"
    BY DEF Handlers
  <2>2. c = Base \o u
    BY <1>2 DEF Chain
  <2> HIDE DEF u, c
  <2>3. /\ c \in Seq(Handlers) /\ Len(c) = 7 + 1
        /\ \A i \in 1..7 : c[i] = Base[i]
        /\ \A i \in 1..1 : c[7 + i] = u[i]
    <3>1. /\ c \in Seq(Handlers) /\ Len(c) = Len(Base) + Len(u)
          /\ \A i \in 1..Len(Base) : c[i] = Base[i]
          /\ \A i \in 1..Len(u) : c[Len(Base) + i] = u[i]
      BY <2>1, <2>2, BaseIs, Joins, Zenon
    <3> QED
      BY <2>1, <3>1, BaseIs, Zenon
  <2>4. c[7 + 1] = u[1]
    BY <2>3
  <2>5. c \in Seq(Handlers) /\ Len(c) = 8 /\ c[8] = "Handler" /\ \A i \in 1..7 : c[i] = Base[i]
    BY <2>1, <2>3, <2>4
  <2> QED
    BY <1>2, <2>5 DEF c
<1>3. ASSUME NEW m \in {"Auth", "AuthLimit"}, c = t \o <<m, "Handler">>
      PROVE  /\ c \in Seq(Handlers) /\ Len(c) = 11 /\ \A i \in 1..9 : c[i] = t[i]
             /\ c[10] = m /\ c[11] = "Handler"
  <2> DEFINE u == <<m, "Handler">>
  <2>1. u \in Seq(Handlers) /\ Len(u) = 2 /\ u[1] = m /\ u[2] = "Handler"
    BY DEF Handlers
  <2>2. c = t \o u
    BY <1>3
  <2> HIDE DEF u, c, t
  <2>3. /\ c \in Seq(Handlers) /\ Len(c) = 9 + 2
        /\ \A i \in 1..9 : c[i] = t[i]
        /\ \A i \in 1..2 : c[9 + i] = u[i]
    <3>1. /\ c \in Seq(Handlers) /\ Len(c) = Len(t) + Len(u)
          /\ \A i \in 1..Len(t) : c[i] = t[i]
          /\ \A i \in 1..Len(u) : c[Len(t) + i] = u[i]
      BY <2>1, <2>2, <1>1, Joins, Zenon
    <3> QED
      BY <2>1, <3>1, <1>1, Zenon
  <2>4. c[9 + 1] = u[1] /\ c[9 + 2] = u[2]
    BY <2>3
  <2> QED
    BY <2>1, <2>3, <2>4
<1>4. ASSUME c = t \o <<"Handler">>
      PROVE  /\ c \in Seq(Handlers) /\ Len(c) = 10 /\ \A i \in 1..9 : c[i] = t[i]
             /\ c[10] = "Handler"
  <2> DEFINE u == <<"Handler">>
  <2>1. u \in Seq(Handlers) /\ Len(u) = 1 /\ u[1] = "Handler"
    BY DEF Handlers
  <2>2. c = t \o u
    BY <1>4
  <2> HIDE DEF u, c, t
  <2>3. /\ c \in Seq(Handlers) /\ Len(c) = 9 + 1
        /\ \A i \in 1..9 : c[i] = t[i]
        /\ \A i \in 1..1 : c[9 + i] = u[i]
    <3>1. /\ c \in Seq(Handlers) /\ Len(c) = Len(t) + Len(u)
          /\ \A i \in 1..Len(t) : c[i] = t[i]
          /\ \A i \in 1..Len(u) : c[Len(t) + i] = u[i]
      BY <2>1, <2>2, <1>1, Joins, Zenon
    <3> QED
      BY <2>1, <3>1, <1>1, Zenon
  <2>4. c[9 + 1] = u[1]
    BY <2>3
  <2> QED
    BY <2>1, <2>3, <2>4
<1>5. \/ route = "probe" \/ c = t \o <<"Handler">>
      \/ \E m \in {"Auth", "AuthLimit"} : c = t \o <<m, "Handler">>
  BY Zenon DEF Chain
<1> HIDE DEF c, t
<1>6. ASSUME NEW m \in {"Auth", "AuthLimit"}, c = t \o <<m, "Handler">>
      PROVE  /\ c \in Seq(Handlers) /\ \A i \in 1..7 : c[i] = Base[i]
             /\ c[8] = "RateLimit" /\ c[9] = "Timeout" /\ Len(c) = 11 /\ c[11] = "Handler"
             /\ c[10] \in {"Auth", "AuthLimit"}
  <2>1. /\ c \in Seq(Handlers) /\ Len(c) = 11 /\ \A i \in 1..9 : c[i] = t[i]
        /\ c[10] = m /\ c[11] = "Handler"
    BY <1>3, <1>6
  <2> QED
    BY <1>1, <2>1
<1>7. CASE c = t \o <<"Handler">>
  <2>1. /\ c \in Seq(Handlers) /\ Len(c) = 10 /\ \A i \in 1..9 : c[i] = t[i]
        /\ c[10] = "Handler"
    BY <1>4, <1>7
  <2>2. c[8] = "RateLimit" /\ c[9] = "Timeout" /\ \A i \in 1..7 : c[i] = Base[i]
    BY <1>1, <2>1
  <2> QED
    BY <2>1, <2>2 DEF c
<1> QED
  BY <1>2, <1>5, <1>6, <1>7 DEF c

\* What the proofs need of the chains: where the handlers are that act.
LEMMA Places ==
  ASSUME NEW route \in Routes
  PROVE  /\ Chain(route) \in Seq(Handlers) /\ Len(Chain(route)) \in 8..11
         /\ \A i \in 1..Len(Chain(route)) :
              /\ Chain(route)[i] \in Handlers
              /\ (Chain(route)[i] = "RequestID") <=> (i = 1)
              /\ (Chain(route)[i] = "Metrics") <=> (i = 2)
              /\ (Chain(route)[i] = "BodyLimit") <=> (i = 3)
              /\ (Chain(route)[i] = "Logger") <=> (i = 4)
              /\ (Chain(route)[i] = "Recovery") <=> (i = 5)
              /\ (Chain(route)[i] = "SecurityHeaders") <=> (i = 6)
              /\ (Chain(route)[i] = "Cors") <=> (i = 7)
              /\ (Chain(route)[i] = "Handler") <=> (i = Len(Chain(route)))
<1> DEFINE c == Chain(route)
           Here(i, n) ==
             /\ c[i] \in Handlers
             /\ (c[i] = "RequestID") <=> (i = 1)
             /\ (c[i] = "Metrics") <=> (i = 2)
             /\ (c[i] = "BodyLimit") <=> (i = 3)
             /\ (c[i] = "Logger") <=> (i = 4)
             /\ (c[i] = "Recovery") <=> (i = 5)
             /\ (c[i] = "SecurityHeaders") <=> (i = 6)
             /\ (c[i] = "Cors") <=> (i = 7)
             /\ (c[i] = "Handler") <=> (i = n)
<1>1. /\ c \in Seq(Handlers) /\ \A i \in 1..7 : c[i] = Base[i]
      /\ \/ Len(c) = 8 /\ c[8] = "Handler"
         \/ /\ c[8] = "RateLimit" /\ c[9] = "Timeout"
            /\ \/ Len(c) = 10 /\ c[10] = "Handler"
               \/ /\ Len(c) = 11 /\ c[11] = "Handler"
                  /\ c[10] \in {"Auth", "AuthLimit"}
  BY Chains
<1> HIDE DEF c
<1>2. /\ c[1] = "RequestID" /\ c[2] = "Metrics" /\ c[3] = "BodyLimit" /\ c[4] = "Logger"
      /\ c[5] = "Recovery" /\ c[6] = "SecurityHeaders" /\ c[7] = "Cors"
  BY <1>1, BaseIs
<1>3. Len(c) \in 8..11
  BY <1>1
<1>4. PICK n \in 8..11 : n = Len(c)
  BY <1>3
<1>5. ASSUME NEW i \in 1..n PROVE Here(i, n)
  <2>0. i \in Int /\ n \in Int /\ 1 <= i /\ i <= n /\ 8 <= n /\ n <= 11
    OBVIOUS
  <2>1. c[i] \in Handlers
    BY <1>1, <1>4
  <2>2. \/ i = 1 \/ i = 2 \/ i = 3 \/ i = 4 \/ i = 5 \/ i = 6 \/ i = 7
        \/ i = 8 \/ i = 9 \/ i = 10 \/ i = 11
    BY <1>4
  <2>3. CASE i \in 1..7
    <3>0. i # n
      BY <2>0, <2>3
    <3>1. CASE i = 1
      <4>1. c[i] = "RequestID"
        BY <1>2, <3>1
      <4> QED
        BY <2>1, <3>0, <3>1, <4>1
    <3>2. CASE i = 2
      <4>1. c[i] = "Metrics"
        BY <1>2, <3>2
      <4> QED
        BY <2>1, <3>0, <3>2, <4>1
    <3>3. CASE i = 3
      <4>1. c[i] = "BodyLimit"
        BY <1>2, <3>3
      <4> QED
        BY <2>1, <3>0, <3>3, <4>1
    <3>4. CASE i = 4
      <4>1. c[i] = "Logger"
        BY <1>2, <3>4
      <4> QED
        BY <2>1, <3>0, <3>4, <4>1
    <3>5. CASE i = 5
      <4>1. c[i] = "Recovery"
        BY <1>2, <3>5
      <4> QED
        BY <2>1, <3>0, <3>5, <4>1
    <3>6. CASE i = 6
      <4>1. c[i] = "SecurityHeaders"
        BY <1>2, <3>6
      <4> QED
        BY <2>1, <3>0, <3>6, <4>1
    <3>7. CASE i = 7
      <4>1. c[i] = "Cors"
        BY <1>2, <3>7
      <4> QED
        BY <2>1, <3>0, <3>7, <4>1
    <3> QED
      BY <2>3, <3>1, <3>2, <3>3, <3>4, <3>5, <3>6, <3>7
  <2>4. CASE i > 7
    <3>1. CASE i = n
      <4>1. c[i] = "Handler"
        BY <1>1, <1>4, <3>1
      <4> QED
        BY <1>4, <2>1, <2>4, <3>1, <4>1
    <3>2. CASE i # n
      <4>1. i = 8 \/ i = 9 \/ i = 10
        BY <2>0, <2>4, <3>2
      <4>2. n \in {10, 11} /\ c[8] = "RateLimit" /\ c[9] = "Timeout"
        <5>1. n # 8
          BY <2>0, <2>4, <3>2
        <5> QED
          BY <1>1, <1>4, <5>1
      <4>3. i = 10 => c[10] \in {"Auth", "AuthLimit"}
        BY <1>1, <1>4, <3>2
      <4>4. c[i] \in {"RateLimit", "Timeout", "Auth", "AuthLimit"}
        BY <4>1, <4>2, <4>3
      <4> QED
        BY <1>4, <2>1, <2>4, <3>2, <4>4
    <3> QED
      BY <3>1, <3>2
  <2> QED
    BY <1>4, <2>3, <2>4
<1> QED
  BY <1>1, <1>3, <1>4, <1>5 DEF c

-----------------------------------------------------------------------------
(* Where a request stands. *)

LEMMA RouteOf ==
  ASSUME TypeOK, NEW r \in Requests, Serving(r)
  PROVE  /\ req[r] \in Traffic /\ req[r].route \in Routes /\ req[r].size \in Nat
         /\ MyChain(r) \in Seq(Handlers) /\ Length(r) \in 8..11
<1>1. req[r] \in Traffic
  BY DEF TypeOK, Serving
<1>2. req[r].route \in Routes /\ req[r].size \in Nat
  BY <1>1, SizesAreLengths
<1> QED
  BY <1>1, <1>2, Places DEF MyChain, Length

LEMMA HeightIs ==
  ASSUME TypeOK, NEW r \in Requests
  PROVE  /\ frames[r] \in Seq(Handlers) /\ Height(r) \in Nat
         /\ index[r] \in 1..100
         /\ (frames[r] = << >>) <=> (Height(r) = 0)
<1>1. frames[r] \in Seq(Handlers) /\ index[r] \in 1..100
  BY DEF TypeOK, Aborted
<1>2. Height(r) \in Nat
  BY <1>1, LenProperties DEF Height
<1>3. (frames[r] = << >>) <=> (Height(r) = 0)
  BY <1>1, EmptySeq DEF Height
<1> QED
  BY <1>1, <1>2, <1>3

\* The handler at a place of the chain.
AtItsPlace(r, i) ==
  /\ MyChain(r)[i] \in Handlers
  /\ (MyChain(r)[i] = "RequestID") <=> (i = 1)
  /\ (MyChain(r)[i] = "Metrics") <=> (i = 2)
  /\ (MyChain(r)[i] = "BodyLimit") <=> (i = 3)
  /\ (MyChain(r)[i] = "Logger") <=> (i = 4)
  /\ (MyChain(r)[i] = "Recovery") <=> (i = 5)
  /\ (MyChain(r)[i] = "SecurityHeaders") <=> (i = 6)
  /\ (MyChain(r)[i] = "Cors") <=> (i = 7)
  /\ (MyChain(r)[i] = "Handler") <=> (i = Length(r))
  /\ MyChain(r)[i] \in {"RateLimit", "AuthLimit", "Auth"} => i >= 8

LEMMA PlaceOf ==
  ASSUME TypeOK, NEW r \in Requests, Serving(r), NEW i \in 1..Length(r)
  PROVE  AtItsPlace(r, i)
<1>1. req[r].route \in Routes /\ Length(r) \in 8..11
  BY RouteOf
<1>2. i \in 1..Len(Chain(req[r].route))
  BY DEF Length, MyChain
<1>3. /\ MyChain(r)[i] \in Handlers
      /\ (MyChain(r)[i] = "RequestID") <=> (i = 1)
      /\ (MyChain(r)[i] = "Metrics") <=> (i = 2)
      /\ (MyChain(r)[i] = "BodyLimit") <=> (i = 3)
      /\ (MyChain(r)[i] = "Logger") <=> (i = 4)
      /\ (MyChain(r)[i] = "Recovery") <=> (i = 5)
      /\ (MyChain(r)[i] = "SecurityHeaders") <=> (i = 6)
      /\ (MyChain(r)[i] = "Cors") <=> (i = 7)
      /\ (MyChain(r)[i] = "Handler") <=> (i = Length(r))
  BY <1>1, <1>2, Places, Zenon DEF Length, MyChain
<1> DEFINE m == MyChain(r)[i]
<1>4. /\ (m = "RequestID") <=> (i = 1)
      /\ (m = "Metrics") <=> (i = 2)
      /\ (m = "BodyLimit") <=> (i = 3)
      /\ (m = "Logger") <=> (i = 4)
      /\ (m = "Recovery") <=> (i = 5)
      /\ (m = "SecurityHeaders") <=> (i = 6)
      /\ (m = "Cors") <=> (i = 7)
  BY <1>3
<1> HIDE DEF m
<1>5. m \in {"RateLimit", "AuthLimit", "Auth"} => i >= 8
  <2>1. i \in Nat /\ 1 <= i
    BY <1>1
  <2> QED
    BY <1>4, <2>1
<1> QED
  BY <1>3, <1>5 DEF m, AtItsPlace

\* The handler that is called, by the index.
LEMMA CalledIs ==
  ASSUME TypeOK, NEW r \in Requests, NEW m, Calls(r, m)
  PROVE  /\ Serving(r) /\ ~WayOut(r) /\ panic[r] = None
         /\ m \in Handlers /\ index[r] \in 1..Length(r) /\ m = MyChain(r)[index[r]]
         /\ (m = "Metrics") <=> (index[r] = 2)
         /\ (m = "BodyLimit") <=> (index[r] = 3)
         /\ (m = "Logger") <=> (index[r] = 4)
         /\ (m = "Cors") <=> (index[r] = 7)
         /\ m \in {"RateLimit", "AuthLimit", "Auth"} => index[r] >= 8
<1>1. Serving(r) /\ panic[r] = None /\ m = MyChain(r)[index[r]] /\ index[r] <= Length(r)
  BY DEF Calls, Length
<1>2. Length(r) \in 8..11 /\ index[r] \in 1..100
  BY <1>1, RouteOf, HeightIs
<1>3. index[r] \in 1..Length(r)
  BY <1>1, <1>2
<1>4. ~WayOut(r)
  BY <1>1, <1>2 DEF WayOut
<1>5. AtItsPlace(r, index[r])
  BY <1>1, <1>3, PlaceOf
<1>6. /\ m \in Handlers
      /\ (m = "Metrics") <=> (index[r] = 2)
      /\ (m = "BodyLimit") <=> (index[r] = 3)
      /\ (m = "Logger") <=> (index[r] = 4)
      /\ (m = "Cors") <=> (index[r] = 7)
      /\ m \in {"RateLimit", "AuthLimit", "Auth"} => index[r] >= 8
  BY <1>1, <1>5 DEF AtItsPlace
<1> QED
  BY <1>1, <1>3, <1>4, <1>6

\* The frame of a handler, by its height.
LEMMA FrameIs ==
  ASSUME TypeOK, NEW r \in Requests, Serving(r), Stacked(r), NEW j \in 1..Height(r)
  PROVE  /\ (frames[r][j] = "Metrics") <=> (j = 2)
         /\ (frames[r][j] = "Logger") <=> (j = 4)
         /\ (frames[r][j] = "Recovery") <=> (j = 5)
         /\ (frames[r][j] = "Handler") <=> (j = Length(r) - 1)
         /\ frames[r][j] = "Auth" => j >= 7
<1> DEFINE p == Position(j)
           h == frames[r][j]
<1>1. Length(r) \in 8..11 /\ Height(r) \in Nat /\ Height(r) < Length(r)
  BY RouteOf, HeightIs DEF Stacked
<1>2. h = MyChain(r)[p]
  BY DEF Stacked
<1>3. j \in Nat /\ 1 <= j /\ j < Length(r)
  BY <1>1
<1>4. /\ p \in 1..Length(r)
      /\ (p = 2) <=> (j = 2)
      /\ (p = 4) <=> (j = 4)
      /\ (p = 5) <=> (j = 5)
      /\ (p = Length(r)) <=> (j = Length(r) - 1)
      /\ p >= 8 => j >= 7
  BY <1>1, <1>3 DEF Position
<1> HIDE DEF p, h
<1>5. /\ (h = "Metrics") <=> (p = 2)
      /\ (h = "Logger") <=> (p = 4)
      /\ (h = "Recovery") <=> (p = 5)
      /\ (h = "Handler") <=> (p = Length(r))
      /\ h = "Auth" => p >= 8
  <2>1. /\ (MyChain(r)[p] = "Metrics") <=> (p = 2)
        /\ (MyChain(r)[p] = "Logger") <=> (p = 4)
        /\ (MyChain(r)[p] = "Recovery") <=> (p = 5)
        /\ (MyChain(r)[p] = "Handler") <=> (p = Length(r))
        /\ MyChain(r)[p] \in {"RateLimit", "AuthLimit", "Auth"} => p >= 8
    <3>1. AtItsPlace(r, p)
      BY <1>4, PlaceOf
    <3> QED
      BY <3>1 DEF AtItsPlace
  <2>2. MyChain(r)[p] = h
    BY <1>2
  <2> QED
    BY <2>1, <2>2
<1> QED
  BY <1>4, <1>5, Zenon DEF h

-----------------------------------------------------------------------------
(* A step is one request's: what it leaves alone, and the gauge. *)

Same(s) ==
  /\ req'[s] = req[s] /\ index'[s] = index[s] /\ frames'[s] = frames[s]
  /\ panic'[s] = panic[s] /\ reply'[s] = reply[s] /\ body'[s] = body[s]
  /\ got'[s] = got[s] /\ counted'[s] = counted[s] /\ logged'[s] = logged[s]
  /\ panics'[s] = panics[s] /\ raised'[s] = raised[s]

StepOf(r) == conf' = conf /\ \A s \in Requests \ {r} : Same(s)

LEMMA SameLocal ==
  ASSUME NEW s \in Requests, conf' = conf, Same(s), Local(s)
  PROVE  Local(s)'
<1>1. /\ Serving(s)' <=> Serving(s)
      /\ MyChain(s)' = MyChain(s) /\ Height(s)' = Height(s) /\ Length(s)' = Length(s)
      /\ TooLong(s)' <=> TooLong(s)
  BY DEF Same, Serving, MyChain, Height, Length, TooLong
<1>2. WayOut(s)' <=> WayOut(s)
  BY <1>1 DEF Same, WayOut
<1>3. CASE Serving(s)
  <2>1. Served(s)
    BY <1>3 DEF Local
  <2>2. Stacked(s)'
    BY <1>1, <1>2, <2>1 DEF Served, Stacked, Same
  <2>3. Untouched(s)'
    BY <1>1, <1>2, <2>1 DEF Served, Untouched, Same
  <2>4. ToldOnce(s)'
    BY <1>1, <1>2, <2>1 DEF Served, ToldOnce, Same
  <2>5. PanicInPlace(s)'
    BY <1>1, <1>2, <2>1 DEF Served, PanicInPlace, Same
  <2>6. BodyInPlace(s)'
    BY <1>1, <1>2, <2>1 DEF Served, BodyInPlace, Same
  <2> QED
    BY <1>1, <1>3, <2>2, <2>3, <2>4, <2>5, <2>6 DEF Local, Served
<1>4. CASE ~Serving(s)
  BY <1>1, <1>4 DEF Local, Vacant, Same
<1> QED
  BY <1>3, <1>4

LEMMA Lift ==
  ASSUME Inv, NEW r \in Requests, StepOf(r), TypeOK', Local(r)', GaugeIsExact'
  PROVE  Inv'
<1>1. ASSUME NEW s \in Requests PROVE Local(s)'
  <2>1. CASE s = r
    BY <2>1
  <2>2. CASE s # r
    BY <2>2, SameLocal DEF Inv, StepOf
  <2> QED
    BY <2>1, <2>2
<1> QED
  BY <1>1 DEF Inv

LEMMA GaugeStays ==
  ASSUME GaugeIsExact, NEW r \in Requests, StepOf(r), inflight' = inflight,
         (Height(r)' >= 2) <=> (Height(r) >= 2)
  PROVE  GaugeIsExact'
<1>1. ASSUME NEW s \in Requests PROVE (Height(s)' >= 2) <=> (Height(s) >= 2)
  BY DEF StepOf, Same, Height
<1>2. Measured' = Measured
  BY <1>1 DEF Measured
<1> QED
  BY <1>2 DEF GaugeIsExact

LEMMA GaugeRises ==
  ASSUME GaugeIsExact, NEW r \in Requests, StepOf(r), inflight' = inflight + 1,
         ~(Height(r) >= 2), Height(r)' >= 2
  PROVE  GaugeIsExact'
<1>1. ASSUME NEW s \in Requests PROVE (Height(s)' >= 2) <=> (s = r \/ Height(s) >= 2)
  BY DEF StepOf, Same, Height
<1>2. Measured' = Measured \cup {r} /\ r \notin Measured
  BY <1>1 DEF Measured
<1> QED
  BY <1>2, FS_AddElement DEF GaugeIsExact

LEMMA GaugeFalls ==
  ASSUME GaugeIsExact, NEW r \in Requests, StepOf(r), inflight' = inflight - 1,
         Height(r) >= 2, ~(Height(r)' >= 2)
  PROVE  GaugeIsExact'
<1>1. ASSUME NEW s \in Requests PROVE (Height(s)' >= 2) <=> (s # r /\ Height(s) >= 2)
  BY DEF StepOf, Same, Height
<1>2. Measured' = Measured \ {r} /\ r \in Measured
  BY <1>1 DEF Measured
<1> QED
  BY <1>2, FS_RemoveElement DEF GaugeIsExact

LEMMA GaugeIsNat == ASSUME GaugeIsExact PROVE inflight \in Nat
BY FS_CardinalityType DEF GaugeIsExact

-----------------------------------------------------------------------------
(* On the way in: a handler calls c.Next and stays on the stack. *)

Told == UNCHANGED <<conf, req, got, told, raised>>

\* On the way in the height is a function of the index.
LEMMA HeightOnTheWayIn ==
  ASSUME Inv, NEW r \in Requests, NEW m, Calls(r, m)
  PROVE  /\ Served(r) /\ Height(r) = Called(index[r]) /\ index[r] \in 1..Length(r)
         /\ Length(r) \in 8..11 /\ Height(r) \in Nat /\ Height(r) <= Length(r) - 2
         /\ reply[r] = [status |-> InitialStatus(req[r].route), sent |-> None, docs |-> 0]
         /\ counted[r] = << >> /\ logged[r] = << >> /\ got[r] = None /\ raised[r] = None
         /\ panic[r] = None /\ panics[r] = 0
<1>1. /\ TypeOK /\ Serving(r) /\ ~WayOut(r) /\ index[r] \in 1..Length(r) /\ Served(r)
      /\ panic[r] = None
  BY CalledIs DEF Inv, Local
<1>2. Length(r) \in 8..11 /\ Height(r) \in Nat
  BY <1>1, RouteOf, HeightIs
<1>3. Height(r) = Called(index[r])
  BY <1>1 DEF Served, Stacked
<1>4. Height(r) <= Length(r) - 2
  BY <1>1, <1>2, <1>3 DEF Called
<1>5. /\ reply[r] = [status |-> InitialStatus(req[r].route), sent |-> None, docs |-> 0]
      /\ counted[r] = << >> /\ logged[r] = << >> /\ got[r] = None /\ raised[r] = None
  BY <1>1 DEF Served, Untouched
<1>6. panics[r] = 0
  BY <1>1, <1>5 DEF Served, PanicInPlace
<1> QED
  BY <1>1, <1>2, <1>3, <1>4, <1>5, <1>6

LEMMA EnterKeepsStack ==
  ASSUME Inv, NEW r \in Requests, NEW m, Calls(r, m), m # "Cors", Stays(r, m), Told
  PROVE  /\ Serving(r)' /\ Stacked(r)' /\ Height(r)' = Height(r) + 1
         /\ Length(r)' = Length(r)
         /\ index'[r] = index[r] + 1 /\ panic'[r] = None /\ reply'[r] = reply[r]
         /\ index' \in [Requests -> 1..Aborted] /\ frames' \in [Requests -> Seq(Handlers)]
<1>1. /\ TypeOK /\ Serving(r) /\ ~WayOut(r) /\ m \in Handlers /\ index[r] # 7
      /\ m = MyChain(r)[index[r]] /\ panic[r] = None
  BY CalledIs DEF Inv
<1>2. /\ Height(r) = Called(index[r]) /\ index[r] \in 1..Length(r) /\ Length(r) \in 8..11
      /\ Height(r) \in Nat /\ Height(r) <= Length(r) - 2 /\ Stacked(r)
  BY HeightOnTheWayIn DEF Served
<1>3. frames[r] \in Seq(Handlers)
  BY <1>1, HeightIs
<1>4. /\ index'[r] = index[r] + 1 /\ frames'[r] = Append(frames[r], m)
      /\ panic'[r] = None /\ reply'[r] = reply[r] /\ req'[r] = req[r]
  BY <1>1 DEF TypeOK, Stays, Told
<1>5. Serving(r)' /\ MyChain(r)' = MyChain(r) /\ Length(r)' = Length(r)
  BY <1>1, <1>4 DEF Serving, MyChain, Length
<1>6. /\ Append(frames[r], m) \in Seq(Handlers)
      /\ Len(Append(frames[r], m)) = Len(frames[r]) + 1
      /\ \A i \in 1..Len(frames[r]) : Append(frames[r], m)[i] = frames[r][i]
      /\ Append(frames[r], m)[Len(frames[r]) + 1] = m
  BY <1>1, <1>3, AppendProperties
<1>7. /\ Height(r)' = Height(r) + 1
      /\ \A j \in 1..Height(r) : frames'[r][j] = frames[r][j]
      /\ frames'[r][Height(r) + 1] = m
  BY <1>4, <1>6, Zenon DEF Height
<1>8. Position(Height(r) + 1) = index[r]
  BY <1>1, <1>2 DEF Position, Called
<1>9. ASSUME NEW j \in 1..Height(r) + 1 PROVE frames'[r][j] = MyChain(r)[Position(j)]
  <2>1. CASE j = Height(r) + 1
    BY <1>1, <1>7, <1>8, <2>1
  <2>2. CASE j # Height(r) + 1
    <3>1. j \in 1..Height(r)
      BY <1>2, <2>2
    <3> QED
      BY <1>2, <1>7, <3>1 DEF Stacked
  <2> QED
    BY <2>1, <2>2
<1>10. Height(r) + 1 < Length(r) /\ Height(r) + 1 = Called(index[r] + 1)
  BY <1>1, <1>2 DEF Called
<1>11. Stacked(r)'
  BY <1>4, <1>5, <1>7, <1>9, <1>10 DEF Stacked
<1>12. index' \in [Requests -> 1..Aborted]
  <2>1. index[r] + 1 \in 1..Aborted
    BY <1>2 DEF Aborted
  <2> HIDE DEF Aborted
  <2> QED
    BY <1>1, <2>1 DEF TypeOK, Stays
<1>13. frames' \in [Requests -> Seq(Handlers)]
  BY <1>1, <1>3, <1>6 DEF TypeOK, Stays
<1> QED
  BY <1>4, <1>5, <1>7, <1>11, <1>12, <1>13

LEMMA EnterKeepsTold ==
  ASSUME Inv, NEW r \in Requests, NEW m, Calls(r, m), m # "Cors", Stays(r, m), Told,
         m = "BodyLimit" => ~TooLong(r)
  PROVE  Untouched(r)' /\ ToldOnce(r)' /\ PanicInPlace(r)'
<1>1. /\ Served(r) /\ Height(r) = Called(index[r]) /\ index[r] \in 1..Length(r)
      /\ Length(r) \in 8..11 /\ Height(r) \in Nat
      /\ reply[r] = [status |-> InitialStatus(req[r].route), sent |-> None, docs |-> 0]
      /\ counted[r] = << >> /\ logged[r] = << >> /\ got[r] = None /\ raised[r] = None
      /\ panics[r] = 0
  BY HeightOnTheWayIn
<1>2. /\ Height(r)' = Height(r) + 1 /\ Length(r)' = Length(r)
      /\ index'[r] = index[r] + 1 /\ panic'[r] = None /\ reply'[r] = reply[r]
  BY EnterKeepsStack
<1>3. /\ req'[r] = req[r] /\ counted'[r] = << >> /\ logged'[r] = << >> /\ got'[r] = None
      /\ raised'[r] = None /\ panics'[r] = 0 /\ (TooLong(r)' <=> TooLong(r))
  BY <1>1 DEF Told, told, TooLong
<1>4. Untouched(r)'
  BY <1>1, <1>2, <1>3 DEF Untouched
<1>5. reply'[r].sent = None /\ reply'[r].docs = 0
  BY <1>1, <1>2
<1>6. WayOut(r)' => Height(r)' > 3
  <2>1. WayOut(r)' <=> (index[r] + 1 > Length(r))
    BY <1>2 DEF WayOut
  <2> QED
    BY <1>1, <1>2, <2>1 DEF Called
<1>7. TooLong(r) => Height(r)' <= 2
  <2>1. TooLong(r) => Height(r) <= 2
    BY <1>1 DEF Served, ToldOnce
  <2>2. (m = "BodyLimit") <=> (index[r] = 3)
    BY CalledIs DEF Inv
  <2> QED
    BY <1>1, <1>2, <2>1, <2>2 DEF Called
<1>8. ToldOnce(r)'
  <2>1. ~(WayOut(r)' /\ Height(r)' <= 3) /\ ~(WayOut(r)' /\ Height(r)' <= 1)
    BY <1>1, <1>2, <1>6
  <2> QED
    BY <1>3, <1>5, <1>7, <2>1 DEF ToldOnce
<1>9. PanicInPlace(r)'
  BY <1>2, <1>3, <1>5 DEF PanicInPlace
<1> QED
  BY <1>4, <1>8, <1>9

\* What a handler that enters must leave of the body and of the gauge.
LEMMA EnterKeepsInv ==
  ASSUME Inv, NEW r \in Requests, NEW m, Calls(r, m), m # "Cors", Stays(r, m), Told,
         m = "BodyLimit" => ~TooLong(r),
         \A s \in Requests \ {r} : body'[s] = body[s],
         body' \in [Requests -> [head : Nat, left : Nat, quota : Nat \cup {None}]],
         BodyInPlace(r)',
         inflight' = IF m = "Metrics" THEN inflight + 1 ELSE inflight
  PROVE  Inv'
<1>1. /\ Serving(r)' /\ Stacked(r)' /\ Height(r)' = Height(r) + 1
      /\ index' \in [Requests -> 1..Aborted] /\ frames' \in [Requests -> Seq(Handlers)]
  BY EnterKeepsStack
<1>2. Untouched(r)' /\ ToldOnce(r)' /\ PanicInPlace(r)'
  BY EnterKeepsTold
<1>3. Local(r)'
  BY <1>1, <1>2 DEF Local, Served
<1>4. StepOf(r)
  BY DEF Inv, TypeOK, StepOf, Same, Stays, Told, told
<1>5. GaugeIsExact'
  <2>1. Height(r) = Called(index[r]) /\ index[r] \in Nat /\ index[r] >= 1
    <3>1. Height(r) = Called(index[r]) /\ index[r] \in 1..Length(r) /\ Length(r) \in 8..11
      BY HeightOnTheWayIn
    <3> QED
      BY <3>1
  <2>2. (m = "Metrics") <=> (index[r] = 2)
    BY CalledIs DEF Inv
  <2>3. CASE m = "Metrics"
    <3>1. ~(Height(r) >= 2) /\ Height(r)' >= 2
      <4>1. index[r] = 2 /\ Height(r) = 1 /\ Height(r)' = 2
        BY <1>1, <2>1, <2>2, <2>3 DEF Called
      <4> QED
        BY <4>1
    <3> QED
      BY <1>4, <2>3, <3>1, GaugeRises DEF Inv
  <2>4. CASE m # "Metrics"
    <3>1. (Height(r)' >= 2) <=> (Height(r) >= 2)
      BY <1>1, <2>1, <2>2, <2>4 DEF Called
    <3> QED
      BY <1>4, <2>4, <3>1, GaugeStays DEF Inv
  <2> QED
    BY <2>3, <2>4
<1>6. TypeOK'
  <2>1. inflight' \in Nat
    BY <1>5, FS_CardinalityType DEF GaugeIsExact
  <2>2. panic' = panic /\ reply' = reply
    BY DEF Stays
  <2> QED
    BY <1>1, <2>1, <2>2 DEF Inv, TypeOK, Told, told
<1> QED
  BY <1>3, <1>4, <1>5, <1>6, Lift

\* The body is as it was for a handler that leaves it alone.
LEMMA EnterWithBody ==
  ASSUME Inv, NEW r \in Requests, NEW m, Calls(r, m), m # "Cors", Stays(r, m), Told,
         m \notin {"BodyLimit"}, body' = body
  PROVE  BodyInPlace(r)'
<1>1. /\ Served(r) /\ Height(r) = Called(index[r]) /\ index[r] \in 1..Length(r)
      /\ Length(r) \in 8..11 /\ got[r] = None
  BY HeightOnTheWayIn
<1>2. (m = "BodyLimit") <=> (index[r] = 3)
  BY CalledIs DEF Inv
<1>3. Height(r)' = Height(r) + 1 /\ Length(r)' = Length(r) /\ index'[r] = index[r] + 1
  BY EnterKeepsStack
<1>4. conf' = conf /\ req'[r] = req[r] /\ got'[r] = None /\ body'[r] = body[r]
  BY <1>1 DEF Told
<1>5. ~WayOut(r)
  BY CalledIs DEF Inv
<1>6. /\ index[r] <= 4 => body[r].head = 0 /\ body[r].left = req[r].size
      /\ Height(r) >= 3 =>
           /\ body[r].head + body[r].left = req[r].size
           /\ IF conf.maxBody > 0
                THEN body[r].quota # None /\ body[r].quota + body[r].head = conf.maxBody
                ELSE body[r].quota = None
  BY <1>1, <1>5 DEF Served, BodyInPlace
<1>7. /\ index'[r] <= 4 => index[r] <= 4
      /\ Height(r)' >= 3 => Height(r) >= 3
  BY <1>1, <1>2, <1>3 DEF Called
<1> QED
  BY <1>4, <1>6, <1>7 DEF BodyInPlace

LEMMA WrapsKeepsInv ==
  ASSUME Inv, NEW r \in Requests, NEW m, m \notin {"Cors", "BodyLimit"}, Calls(r, m),
         Stays(r, m), Told, body' = body,
         inflight' = IF m = "Metrics" THEN inflight + 1 ELSE inflight
  PROVE  Inv'
<1>1. BodyInPlace(r)'
  BY EnterWithBody
<1>2. /\ body' \in [Requests -> [head : Nat, left : Nat, quota : Nat \cup {None}]]
      /\ \A s \in Requests \ {r} : body'[s] = body[s]
  BY DEF Inv, TypeOK
<1> QED
  BY <1>1, <1>2, EnterKeepsInv

\* BodyLimit sets the quota of a body that it does not refuse.
LEMMA BodyLimitKeepsInv ==
  ASSUME Inv, NEW r \in Requests, Calls(r, "BodyLimit"), ~TooLong(r), Stays(r, "BodyLimit"), Told,
         body' = [body EXCEPT ![r].quota = IF conf.maxBody > 0 THEN conf.maxBody ELSE None],
         inflight' = inflight
  PROVE  Inv'
<1>1. /\ index[r] = 3 /\ ~WayOut(r)
  BY CalledIs DEF Inv
<1>2. Served(r) /\ Height(r) = 2 /\ Length(r) \in 8..11 /\ got[r] = None
  <2>1. Served(r) /\ Height(r) = Called(index[r]) /\ Length(r) \in 8..11 /\ got[r] = None
    BY HeightOnTheWayIn
  <2> QED
    BY <1>1, <2>1 DEF Called
<1>3. body[r].head = 0 /\ body[r].left = req[r].size
  BY <1>1, <1>2 DEF Served, BodyInPlace
<1>4. Height(r)' = 3 /\ index'[r] = 4
  <2>1. Height(r)' = Height(r) + 1 /\ index'[r] = index[r] + 1
    BY EnterKeepsStack
  <2> QED
    BY <1>1, <1>2, <2>1
<1>5. conf.maxBody \in Nat /\ req[r].size \in Nat
  <2>1. Serving(r)
    BY CalledIs DEF Inv
  <2> QED
    BY <2>1, RouteOf, SizesAreLengths DEF Inv, TypeOK
<1>6. /\ body' \in [Requests -> [head : Nat, left : Nat, quota : Nat \cup {None}]]
      /\ \A s \in Requests \ {r} : body'[s] = body[s]
      /\ body'[r].head = body[r].head /\ body'[r].left = body[r].left
      /\ body'[r].quota = IF conf.maxBody > 0 THEN conf.maxBody ELSE None
  <2> DEFINE q == IF conf.maxBody > 0 THEN conf.maxBody ELSE None
  <2>1. q \in Nat \cup {None} /\ body' = [body EXCEPT ![r].quota = q]
    BY <1>5
  <2> HIDE DEF q
  <2>2. body \in [Requests -> [head : Nat, left : Nat, quota : Nat \cup {None}]]
    BY DEF Inv, TypeOK
  <2>3. /\ body' \in [Requests -> [head : Nat, left : Nat, quota : Nat \cup {None}]]
        /\ \A s \in Requests \ {r} : body'[s] = body[s]
        /\ body'[r].head = body[r].head /\ body'[r].left = body[r].left /\ body'[r].quota = q
    BY <2>1, <2>2
  <2> QED
    BY <2>3 DEF q
<1>7. conf' = conf /\ req'[r] = req[r] /\ got'[r] = None
  BY <1>2 DEF Told
<1>8. conf.maxBody # None /\ body'[r].head + body'[r].left = req[r].size
  BY <1>3, <1>5, <1>6, NoneIsNothing
<1>9. BodyInPlace(r)'
  BY <1>3, <1>4, <1>5, <1>6, <1>7, <1>8 DEF BodyInPlace
<1> QED
  BY <1>6, <1>9, EnterKeepsInv

\* Logger keeps a copy of the head of the body.
LEMMA LoggerKeepsInv ==
  ASSUME Inv, NEW r \in Requests, Calls(r, "Logger"), Stays(r, "Logger"), Told,
         body' = [body EXCEPT ![r] = Joined(@)], inflight' = inflight
  PROVE  Inv'
<1>1. index[r] = 4 /\ ~WayOut(r)
  BY CalledIs DEF Inv
<1>2. Served(r) /\ Height(r) = 3 /\ Length(r) \in 8..11 /\ got[r] = None
  <2>1. Served(r) /\ Height(r) = Called(index[r]) /\ Length(r) \in 8..11 /\ got[r] = None
    BY HeightOnTheWayIn
  <2> QED
    BY <1>1, <2>1 DEF Called
<1>3. /\ body[r].head = 0 /\ body[r].left = req[r].size
      /\ IF conf.maxBody > 0
           THEN body[r].quota # None /\ body[r].quota + body[r].head = conf.maxBody
           ELSE body[r].quota = None
  BY <1>1, <1>2 DEF Served, BodyInPlace
<1>4. Height(r)' = 4 /\ index'[r] = 5
  <2>1. Height(r)' = Height(r) + 1 /\ index'[r] = index[r] + 1
    BY EnterKeepsStack
  <2> QED
    BY <1>1, <1>2, <2>1
<1>5. conf.maxBody \in Nat /\ req[r].size \in Nat /\ MaxBodySize \in Nat
  <2>1. Serving(r)
    BY CalledIs DEF Inv
  <2> QED
    BY <2>1, RouteOf, SizesAreLengths DEF Inv, TypeOK
<1> DEFINE b == body[r]
           k == Least(Readable(b), MaxBodySize + 1)
<1>6. b \in [head : Nat, left : Nat, quota : Nat \cup {None}]
  BY DEF Inv, TypeOK
<1>7. k \in Nat /\ k <= b.left /\ (b.quota # None => k <= b.quota)
  BY <1>5, <1>6 DEF Least, Readable
<1> HIDE DEF k, b
<1> DEFINE j == [head |-> k, left |-> b.left - k,
                 quota |-> IF b.quota = None THEN None ELSE b.quota - k]
<1>8. Joined(b) = j
  BY DEF Joined, k
<1>9. /\ j \in [head : Nat, left : Nat, quota : Nat \cup {None}]
      /\ j.head = k /\ j.left = b.left - k
      /\ j.quota = IF b.quota = None THEN None ELSE b.quota - k
  BY <1>6, <1>7
<1> HIDE DEF j
<1>10. /\ body' \in [Requests -> [head : Nat, left : Nat, quota : Nat \cup {None}]]
       /\ \A s \in Requests \ {r} : body'[s] = body[s]
       /\ body'[r] = j
  BY <1>8, <1>9 DEF Inv, TypeOK, b
<1>11. conf' = conf /\ req'[r] = req[r] /\ got'[r] = None
  BY <1>2 DEF Told
<1>12. j.head + j.left = req[r].size
  <2>1. b.left = req[r].size
    BY <1>3 DEF b
  <2> QED
    BY <1>5, <1>7, <1>9, <2>1
<1>13. IF conf.maxBody > 0 THEN j.quota # None /\ j.quota + j.head = conf.maxBody
                           ELSE j.quota = None
  <2>1. IF conf.maxBody > 0 THEN b.quota # None /\ b.quota + 0 = conf.maxBody
                            ELSE b.quota = None
    BY <1>3 DEF b
  <2>2. CASE conf.maxBody > 0
    <3>1. b.quota \in Nat /\ b.quota # None /\ b.quota = conf.maxBody
      BY <1>5, <1>6, <2>1, <2>2
    <3>2. j.quota = b.quota - k /\ j.quota \in Nat
      BY <1>7, <1>9, <3>1
    <3> QED
      BY <1>7, <1>9, <2>2, <3>1, <3>2, NoneIsNothing
  <2>3. CASE ~(conf.maxBody > 0)
    BY <1>9, <2>1, <2>3
  <2> QED
    BY <2>2, <2>3
<1>14. BodyInPlace(r)'
  BY <1>4, <1>10, <1>11, <1>12, <1>13 DEF BodyInPlace
<1> QED
  BY <1>10, <1>14, EnterKeepsInv

-----------------------------------------------------------------------------
(* Cors lets a request pass, and refusals. *)

LEMMA CorsPassKeepsInv ==
  ASSUME Inv, NEW r \in Requests, Calls(r, "Cors"), Passes(r), Told, body' = body,
         inflight' = inflight
  PROVE  Inv'
<1>1. index[r] = 7 /\ ~WayOut(r) /\ Serving(r) /\ TypeOK /\ panic[r] = None
  BY CalledIs DEF Inv
<1>2. /\ Served(r) /\ Height(r) = 6 /\ Length(r) \in 8..11 /\ got[r] = None
      /\ reply[r].sent = None /\ counted[r] = << >> /\ logged[r] = << >> /\ raised[r] = None
  <2>1. /\ Served(r) /\ Height(r) = Called(index[r]) /\ Length(r) \in 8..11 /\ got[r] = None
        /\ reply[r] = [status |-> InitialStatus(req[r].route), sent |-> None, docs |-> 0]
        /\ counted[r] = << >> /\ logged[r] = << >> /\ raised[r] = None
    BY HeightOnTheWayIn
  <2> QED
    BY <1>1, <2>1 DEF Called
<1>3. /\ index' = [index EXCEPT ![r] = 8] /\ index'[r] = 8
      /\ frames' = frames /\ panic' = panic /\ reply' = reply
  BY <1>1 DEF Passes, TypeOK
<1>4. /\ Serving(r)' /\ MyChain(r)' = MyChain(r) /\ Length(r)' = Length(r)
      /\ Height(r)' = Height(r) /\ (TooLong(r)' <=> TooLong(r))
  BY <1>1, <1>3 DEF Serving, MyChain, Length, Height, Told, TooLong
<1>5. ~WayOut(r)'
  BY <1>1, <1>2, <1>3, <1>4 DEF WayOut
<1>6. Stacked(r)'
  BY <1>2, <1>3, <1>4 DEF Served, Stacked, Called
<1>7. Untouched(r)'
  BY <1>1, <1>2, <1>3 DEF Served, Untouched, Told, told
<1>8. ToldOnce(r)'
  BY <1>1, <1>2, <1>3, <1>4, <1>5 DEF Served, ToldOnce, Told, told
<1>9. PanicInPlace(r)'
  BY <1>2, <1>3, <1>4 DEF Served, PanicInPlace, Told, told
<1>10. BodyInPlace(r)'
  BY <1>2, <1>3, <1>4 DEF Served, BodyInPlace, Told
<1>11. Local(r)'
  BY <1>4, <1>6, <1>7, <1>8, <1>9, <1>10 DEF Local, Served
<1>12. StepOf(r)
  BY <1>3 DEF Inv, TypeOK, StepOf, Same, Told, told
<1>13. GaugeIsExact'
  BY <1>4, <1>12, GaugeStays DEF Inv
<1>14. TypeOK'
  <2>1. 8 \in 1..Aborted
    BY DEF Aborted
  <2> HIDE DEF Aborted
  <2> QED
    BY <1>3, <2>1 DEF Inv, TypeOK, Told, told
<1> QED
  BY <1>11, <1>12, <1>13, <1>14, Lift

\* A handler answers and aborts the chain, on the way in.
LEMMA RefusalKeepsInv ==
  ASSUME Inv, NEW r \in Requests, NEW m, Calls(r, m),
         (m = "BodyLimit" /\ TooLong(r)) \/ index[r] >= 7,
         index' = [index EXCEPT ![r] = Aborted], UNCHANGED <<frames, panic, body, inflight>>,
         \A s \in Requests \ {r} : reply'[s] = reply[s],
         reply' \in [Requests -> [status : Statuses, sent : Statuses \cup {None}, docs : Nat]],
         reply'[r].sent = reply'[r].status, Told
  PROVE  Inv'
<1>1. ~WayOut(r) /\ Serving(r) /\ TypeOK /\ ((m = "BodyLimit") <=> (index[r] = 3))
  BY CalledIs DEF Inv
<1>2. /\ Served(r) /\ Height(r) = Called(index[r]) /\ index[r] \in 1..Length(r)
      /\ Length(r) \in 8..11 /\ Height(r) \in Nat /\ Height(r) <= Length(r) - 2
      /\ counted[r] = << >> /\ logged[r] = << >> /\ got[r] = None /\ raised[r] = None
      /\ panic[r] = None /\ panics[r] = 0
  BY HeightOnTheWayIn
<1>3. /\ index'[r] = 100 /\ frames' = frames /\ panic' = panic /\ body' = body
      /\ index' \in [Requests -> 1..Aborted]
  BY <1>1 DEF TypeOK, Aborted
<1>4. /\ Serving(r)' /\ MyChain(r)' = MyChain(r) /\ Length(r)' = Length(r)
      /\ Height(r)' = Height(r) /\ (TooLong(r)' <=> TooLong(r))
  BY <1>1, <1>3 DEF Serving, MyChain, Length, Height, Told, TooLong
<1>5. WayOut(r)'
  BY <1>2, <1>3, <1>4 DEF WayOut
<1>6. Stacked(r)'
  BY <1>2, <1>3, <1>4, <1>5 DEF Served, Stacked
<1>7. Untouched(r)'
  BY <1>5 DEF Untouched
<1>8. Height(r) > 1 /\ (TooLong(r) \/ Height(r) > 3)
  BY <1>1, <1>2 DEF Called
<1>9. ToldOnce(r)'
  <2>1. TooLong(r) => Height(r) <= 2
    BY <1>2 DEF Served, ToldOnce
  <2>2. counted'[r] = << >> /\ logged'[r] = << >>
    BY <1>2 DEF Told, told
  <2>3. ~(Height(r)' <= 1) /\ (TooLong(r)' \/ ~(Height(r)' <= 3))
    BY <1>2, <1>4, <1>8
  <2> QED
    BY <1>4, <2>1, <2>2, <2>3 DEF ToldOnce
<1>10. PanicInPlace(r)'
  <2>1. raised'[r] = None /\ panic'[r] = None /\ panics'[r] = 0
    BY <1>2, <1>3 DEF Told, told
  <2>2. Height(r)' # Length(r)' - 1
    BY <1>2, <1>4
  <2> QED
    BY <2>1, <2>2 DEF PanicInPlace
<1>11. BodyInPlace(r)'
  BY <1>2, <1>3, <1>4, <1>5 DEF Served, BodyInPlace, Told
<1>12. Local(r)'
  BY <1>4, <1>6, <1>7, <1>9, <1>10, <1>11 DEF Local, Served
<1>13. StepOf(r)
  BY <1>3 DEF Inv, TypeOK, StepOf, Same, Told, told
<1>14. GaugeIsExact'
  BY <1>4, <1>13, GaugeStays DEF Inv
<1>15. TypeOK'
  BY <1>3 DEF Inv, TypeOK, Told, told
<1> QED
  BY <1>12, <1>13, <1>14, <1>15, Lift

\* A document of some status.
LEMMA DocumentIs ==
  ASSUME TypeOK, NEW r \in Requests, NEW status \in Statuses,
         reply' = [reply EXCEPT ![r] = Document(@, status)]
  PROVE  /\ reply' \in [Requests -> [status : Statuses, sent : Statuses \cup {None}, docs : Nat]]
         /\ \A s \in Requests \ {r} : reply'[s] = reply[s]
         /\ reply[r].sent = None =>
              reply'[r] = [status |-> status, sent |-> status, docs |-> 1]
         /\ reply'[r].docs = IF reply[r].sent = None THEN 1 ELSE reply[r].docs + 1
         /\ reply[r].sent # None =>
              reply'[r].status = reply[r].status /\ reply'[r].sent = reply[r].sent
<1> DEFINE d == Document(reply[r], status)
<1>1. reply[r] \in [status : Statuses, sent : Statuses \cup {None}, docs : Nat]
  BY DEF TypeOK
<1>2. /\ d \in [status : Statuses, sent : Statuses \cup {None}, docs : Nat]
      /\ reply[r].sent = None => d = [status |-> status, sent |-> status, docs |-> 1]
      /\ d.docs = IF reply[r].sent = None THEN 1 ELSE reply[r].docs + 1
      /\ reply[r].sent # None => d.status = reply[r].status /\ d.sent = reply[r].sent
  BY <1>1 DEF Document
<1>3. reply' = [reply EXCEPT ![r] = d]
  OBVIOUS
<1> HIDE DEF d
<1> QED
  BY <1>2, <1>3 DEF TypeOK

LEMMA NoneIsNoStatus == None \notin Statuses
BY NoneIsNothing DEF Statuses

LEMMA RefusesKeepsInv ==
  ASSUME Inv, NEW r \in Requests, NEW m, Calls(r, m), NEW status \in Statuses,
         (m = "BodyLimit" /\ TooLong(r)) \/ index[r] >= 7,
         Refuses(r, status), Told, body' = body, inflight' = inflight
  PROVE  Inv'
<1>1. reply[r].sent = None
  <2>1. reply[r] = [status |-> InitialStatus(req[r].route), sent |-> None, docs |-> 0]
    BY HeightOnTheWayIn
  <2> QED
    BY <2>1
<1>2. /\ reply' \in [Requests -> [status : Statuses, sent : Statuses \cup {None}, docs : Nat]]
      /\ \A s \in Requests \ {r} : reply'[s] = reply[s]
      /\ reply'[r] = [status |-> status, sent |-> status, docs |-> 1]
  BY <1>1, DocumentIs DEF Inv, Refuses, Error
<1>3. reply'[r].sent = reply'[r].status
  BY <1>2
<1> QED
  BY <1>2, <1>3, RefusalKeepsInv DEF Refuses, Error

-----------------------------------------------------------------------------
(* The handler: it reads, answers or panics. *)

\* A handler at work is the last frame, the chain is over, and it is the first
\* to panic.
LEMMA InHandlerIs ==
  ASSUME Inv, NEW r \in Requests, InFrame(r, "Handler")
  PROVE  /\ TypeOK /\ Serving(r) /\ Served(r) /\ panic[r] = None
         /\ Length(r) \in 8..11 /\ Height(r) = Length(r) - 1 /\ Height(r) \in Nat
         /\ WayOut(r) /\ index[r] > Length(r)
         /\ raised[r] = None /\ panics[r] = 0
         /\ reply[r].docs = IF reply[r].sent = None THEN 0 ELSE 1
<1>1. TypeOK /\ Serving(r) /\ Served(r) /\ panic[r] = None /\ frames[r] # << >>
  BY DEF Inv, Local, InFrame
<1>2. Length(r) \in 8..11 /\ Height(r) \in Nat /\ Height(r) # 0 /\ index[r] \in 1..100
  BY <1>1, RouteOf, HeightIs
<1>3. Height(r) \in 1..Height(r) /\ frames[r][Height(r)] = "Handler"
  BY <1>2 DEF InFrame, Innermost, Height
<1>4. Height(r) = Length(r) - 1
  BY <1>1, <1>3, FrameIs, Zenon DEF Served
<1>5. index[r] > Length(r)
  <2>1. SUFFICES ASSUME ~(index[r] > Length(r)) PROVE FALSE
    OBVIOUS
  <2>2. Height(r) = Called(index[r])
    BY <1>1, <2>1 DEF Served, Stacked, WayOut
  <2>3. Called(index[r]) <= Length(r) - 2
    BY <1>2, <2>1 DEF Called
  <2> QED
    BY <1>2, <1>4, <2>2, <2>3
<1>6. WayOut(r)
  BY <1>5 DEF WayOut
<1>7. raised[r] = None
  <2>1. SUFFICES ASSUME raised[r] # None PROVE Height(r) <= 4
    BY <1>2, <1>4
  <2> QED
    BY <1>1, <2>1 DEF Served, PanicInPlace
<1>8. panics[r] = 0 /\ reply[r].docs = IF reply[r].sent = None THEN 0 ELSE 1
  BY <1>1, <1>4, <1>7 DEF Served, PanicInPlace
<1> QED
  BY <1>1, <1>2, <1>4, <1>5, <1>6, <1>7, <1>8

\* Whatever the handler does to the answer and the body, once.
LEMMA HandlerKeepsInv ==
  ASSUME Inv, NEW r \in Requests, InFrame(r, "Handler"),
         UNCHANGED <<conf, req, frames, panic, inflight, told, raised>>,
         index' \in [Requests -> 1..Aborted], index'[r] \in {index[r], Aborted},
         reply' \in [Requests -> [status : Statuses, sent : Statuses \cup {None}, docs : Nat]],
         body' \in [Requests -> [head : Nat, left : Nat, quota : Nat \cup {None}]],
         got' \in [Requests -> Nat \cup {TooLarge, None}],
         \A s \in Requests \ {r} :
           index'[s] = index[s] /\ reply'[s] = reply[s] /\ body'[s] = body[s] /\ got'[s] = got[s],
         reply'[r].sent \in {None, reply'[r].status},
         reply'[r].docs = IF reply'[r].sent = None THEN 0 ELSE 1,
         BodyInPlace(r)'
  PROVE  Inv'
<1>1. /\ TypeOK /\ Serving(r) /\ Served(r) /\ panic[r] = None
      /\ Length(r) \in 8..11 /\ Height(r) = Length(r) - 1 /\ Height(r) \in Nat
      /\ WayOut(r) /\ index[r] > Length(r) /\ raised[r] = None /\ panics[r] = 0
  BY InHandlerIs
<1>2. /\ Serving(r)' /\ MyChain(r)' = MyChain(r) /\ Length(r)' = Length(r)
      /\ Height(r)' = Height(r) /\ (TooLong(r)' <=> TooLong(r))
  BY <1>1 DEF Serving, MyChain, Length, Height, TooLong
<1>3. WayOut(r)'
  <2>1. index'[r] > Length(r)
    BY <1>1 DEF Aborted
  <2> QED
    BY <1>2, <2>1 DEF WayOut
<1>4. Stacked(r)'
  BY <1>1, <1>2, <1>3 DEF Served, Stacked
<1>5. Untouched(r)'
  BY <1>3 DEF Untouched
<1>6. ToldOnce(r)'
  <2>1. TooLong(r) => Height(r) <= 2
    BY <1>1 DEF Served, ToldOnce
  <2>2. counted[r] = << >> /\ logged[r] = << >>
    BY <1>1 DEF Served, ToldOnce
  <2>3. ~(Height(r)' <= 1) /\ ~(Height(r)' <= 3)
    BY <1>1, <1>2
  <2>4. counted'[r] = << >> /\ logged'[r] = << >>
    BY <2>2 DEF told
  <2> QED
    BY <1>2, <2>1, <2>3, <2>4 DEF ToldOnce
<1>7. PanicInPlace(r)'
  BY <1>1 DEF PanicInPlace, told
<1>8. Local(r)'
  BY <1>2, <1>4, <1>5, <1>6, <1>7 DEF Local, Served
<1>9. StepOf(r)
  BY DEF StepOf, Same, told
<1>10. GaugeIsExact'
  BY <1>2, <1>9, GaugeStays DEF Inv
<1>11. TypeOK'
  BY <1>1 DEF TypeOK, told
<1> QED
  BY <1>8, <1>9, <1>10, <1>11, Lift

\* What a handler that has not read the body will find of it.
LEMMA BodyIsThere ==
  ASSUME Inv, NEW r \in Requests, InFrame(r, "Handler"), got[r] = None
  PROVE  /\ body[r] \in [head : Nat, left : Nat, quota : Nat \cup {None}]
         /\ body[r].head + body[r].left = req[r].size
         /\ conf.maxBody \in Nat /\ req[r].size \in Nat
         /\ IF conf.maxBody > 0
              THEN body[r].quota # None /\ body[r].quota + body[r].head = conf.maxBody
              ELSE body[r].quota = None
<1>1. /\ TypeOK /\ Serving(r) /\ Served(r) /\ Length(r) \in 8..11
      /\ Height(r) = Length(r) - 1
  BY InHandlerIs
<1>2. Height(r) >= 3
  BY <1>1
<1>3. body[r] \in [head : Nat, left : Nat, quota : Nat \cup {None}]
  BY <1>1 DEF TypeOK
<1>4. conf.maxBody \in Nat /\ req[r].size \in Nat
  BY <1>1, RouteOf, SizesAreLengths DEF TypeOK
<1> QED
  BY <1>1, <1>2, <1>3, <1>4 DEF Served, BodyInPlace

LEMMA BindKeepsInv == ASSUME Inv, NEW r \in Requests, Bind(r) PROVE Inv'
<1> DEFINE b == body[r]
<1>1. InFrame(r, "Handler") /\ reply[r].sent = None /\ got[r] = None
  BY DEF Bind, InHandler
<1>2. /\ TypeOK /\ reply[r].docs = 0 /\ reply[r].sent = None
  BY <1>1, InHandlerIs
<1>3. /\ b \in [head : Nat, left : Nat, quota : Nat \cup {None}]
      /\ b.head + b.left = req[r].size
      /\ conf.maxBody \in Nat /\ req[r].size \in Nat
      /\ IF conf.maxBody > 0 THEN b.quota # None /\ b.quota + b.head = conf.maxBody
                             ELSE b.quota = None
  BY <1>1, BodyIsThere
<1>4. /\ UNCHANGED <<conf, req, inflight, told, raised>>
      /\ body' \in [Requests -> [head : Nat, left : Nat, quota : Nat \cup {None}]]
      /\ \A s \in Requests \ {r} : body'[s] = body[s]
  <2> DEFINE B == [Requests -> [head : Nat, left : Nat, quota : Nat \cup {None}]]
             first == [body EXCEPT ![r].head = 0]
  <2>1. first \in B /\ \A s \in Requests \ {r} : first[s] = body[s]
    <3>1. body \in B
      BY <1>2 DEF TypeOK
    <3> QED
      BY <3>1
  <2>2. body' = [first EXCEPT ![r].left = 0]
    BY DEF Bind
  <2> HIDE DEF first
  <2>3. body' \in B /\ \A s \in Requests \ {r} : body'[s] = body[s]
    BY <2>1, <2>2
  <2> QED
    BY <2>3 DEF Bind
<1> HIDE DEF b
<1>5. CASE Readable(b) < b.left
  <2>1. /\ got' = [got EXCEPT ![r] = TooLarge] /\ Refuses(r, 413)
    BY <1>5 DEF Bind, b
  <2>2. 413 \in Statuses
    BY DEF Statuses
  <2>3. /\ reply' \in [Requests -> [status : Statuses, sent : Statuses \cup {None}, docs : Nat]]
        /\ \A s \in Requests \ {r} : reply'[s] = reply[s]
        /\ reply'[r] = [status |-> 413, sent |-> 413, docs |-> 1]
    <3> DEFINE st == 413
    <3>1. reply' = [reply EXCEPT ![r] = Document(@, st)] /\ st \in Statuses
      BY <2>1, <2>2 DEF Refuses, Error
    <3> HIDE DEF st
    <3>2. /\ reply' \in [Requests -> [status : Statuses, sent : Statuses \cup {None}, docs : Nat]]
          /\ \A s \in Requests \ {r} : reply'[s] = reply[s]
          /\ reply'[r] = [status |-> st, sent |-> st, docs |-> 1]
      BY <1>2, <3>1, DocumentIs
    <3> QED
      BY <3>2 DEF st
  <2>4. reply'[r].sent = 413 /\ reply'[r].status = 413 /\ reply'[r].docs = 1 /\ 413 # None
    BY <2>2, <2>3, NoneIsNoStatus
  <2>5. /\ index' \in [Requests -> 1..Aborted] /\ index'[r] = Aborted
        /\ \A s \in Requests \ {r} : index'[s] = index[s]
    BY <1>2, <2>1 DEF Refuses, Error, TypeOK, Aborted
  <2>6. /\ got' \in [Requests -> Nat \cup {TooLarge, None}] /\ got'[r] = TooLarge
        /\ \A s \in Requests \ {r} : got'[s] = got[s]
    BY <1>2, <2>1 DEF TypeOK
  <2>7. conf.maxBody > 0 /\ req[r].size > conf.maxBody
    <3>1. b.quota # None /\ b.left > b.quota /\ b.quota \in Nat
      BY <1>3, <1>5 DEF Readable, Least
    <3> QED
      BY <1>3, <3>1
  <2>8. BodyInPlace(r)'
    BY <1>4, <2>4, <2>6, <2>7, NoneIsNothing DEF BodyInPlace
  <2> QED
    BY <1>1, <1>4, <2>1, <2>3, <2>4, <2>5, <2>6, <2>8, HandlerKeepsInv DEF Refuses
<1>6. CASE ~(Readable(b) < b.left)
  <2>1. /\ got' = [got EXCEPT ![r] = b.head + b.left] /\ UNCHANGED <<calls, reply>>
    BY <1>6 DEF Bind, b
  <2>2. /\ reply' = reply /\ index' = index /\ frames' = frames /\ panic' = panic
    BY <2>1 DEF calls
  <2>3. b.head + b.left \in Nat
    BY <1>3
  <2>4. /\ got' \in [Requests -> Nat \cup {TooLarge, None}] /\ got'[r] = req[r].size
        /\ \A s \in Requests \ {r} : got'[s] = got[s]
    BY <1>2, <1>3, <2>1, <2>3 DEF TypeOK
  <2>5. conf.maxBody > 0 => req[r].size <= conf.maxBody
    <3>1. SUFFICES ASSUME conf.maxBody > 0 PROVE req[r].size <= conf.maxBody
      OBVIOUS
    <3>2. b.quota \in Nat /\ b.quota # None /\ b.left <= b.quota
      BY <1>3, <1>6, <3>1 DEF Readable, Least
    <3> QED
      BY <1>3, <3>1, <3>2
  <2>6. BodyInPlace(r)'
    BY <1>3, <1>4, <2>4, <2>5, NoneIsNothing DEF BodyInPlace
  <2>7. index' \in [Requests -> 1..Aborted]
    BY <1>2, <2>2 DEF TypeOK
  <2>8. reply' \in [Requests -> [status : Statuses, sent : Statuses \cup {None}, docs : Nat]]
    BY <1>2, <2>2 DEF TypeOK
  <2> QED
    BY <1>1, <1>2, <1>4, <2>2, <2>4, <2>6, <2>7, <2>8, HandlerKeepsInv
<1> QED
  BY <1>5, <1>6

LEMMA AnswersAreStatuses ==
  ASSUME NEW route \in Routes
  PROVE  Answers(route) \subseteq Statuses /\ InitialStatus(route) \in Statuses
<1>1. InitialStatus(route) \in Statuses
  BY DEF InitialStatus, Statuses
<1>2. ASSUME NEW e \in Failures PROVE FromStatus[e] \subseteq Statuses
  <2>1. e \in {"business", "deadline", "cancelled", "other"}
    BY FailuresAreKnown DEF FromStatus
  <2> QED
    BY <2>1 DEF FromStatus, Statuses
<1>3. 200 \in Statuses /\ 503 \in Statuses
  BY DEF Statuses
<1> QED
  BY <1>1, <1>2, <1>3 DEF Answers

LEMMA RespondKeepsInv == ASSUME Inv, NEW r \in Requests, Respond(r) PROVE Inv'
<1>1. InFrame(r, "Handler") /\ reply[r].sent = None
  BY DEF Respond, InHandler
<1>2. TypeOK /\ Serving(r) /\ Served(r) /\ reply[r].docs = 0 /\ WayOut(r)
  BY <1>1, InHandlerIs
<1>3. PICK status \in Answers(req[r].route) : reply' = [reply EXCEPT ![r] = Document(@, status)]
  BY DEF Respond
<1>4. status \in Statuses
  BY <1>2, RouteOf, AnswersAreStatuses
<1>5. /\ reply' \in [Requests -> [status : Statuses, sent : Statuses \cup {None}, docs : Nat]]
      /\ \A s \in Requests \ {r} : reply'[s] = reply[s]
      /\ reply'[r] = [status |-> status, sent |-> status, docs |-> 1]
  BY <1>1, <1>2, <1>3, <1>4, DocumentIs, Zenon
<1>6. reply'[r].sent = status /\ reply'[r].status = status /\ reply'[r].docs = 1
  BY <1>5
<1>7. status # None
  BY <1>4, NoneIsNoStatus
<1>8. /\ conf' = conf /\ req' = req /\ index' = index /\ frames' = frames /\ panic' = panic
      /\ body' = body /\ got' = got /\ inflight' = inflight /\ UNCHANGED told
      /\ raised' = raised
  BY DEF Respond, calls
<1>9. BodyInPlace(r)'
  <2>1. got[r] # TooLarge
    BY <1>1, <1>2, NoneIsNothing DEF Served, BodyInPlace
  <2>2. WayOut(r)'
    BY <1>2, <1>8 DEF WayOut, Length, MyChain
  <2>3. Height(r)' = Height(r)
    BY <1>8 DEF Height
  <2> QED
    BY <1>2, <1>8, <2>1, <2>2, <2>3 DEF Served, BodyInPlace
<1>10. /\ index' \in [Requests -> 1..Aborted]
       /\ body' \in [Requests -> [head : Nat, left : Nat, quota : Nat \cup {None}]]
       /\ got' \in [Requests -> Nat \cup {TooLarge, None}]
  BY <1>2, <1>8 DEF TypeOK
<1> QED
  BY <1>1, <1>5, <1>6, <1>7, <1>8, <1>9, <1>10, HandlerKeepsInv

\* A panic finds the request with at most one document, and above Recovery.
LEMMA PanicKeepsInv == ASSUME Inv, NEW r \in Requests, Panic(r) PROVE Inv'
<1>1. PICK m \in {"Auth", "Handler"}, why \in Panics :
        /\ InFrame(r, m)
        /\ m = "Auth" => index[r] <= Len(MyChain(r))
        /\ panic' = [panic EXCEPT ![r] = why]
        /\ raised' = [raised EXCEPT ![r] = [why |-> why, sent |-> reply[r].sent]]
  BY DEF Panic, Panics
<1>2. /\ conf' = conf /\ req' = req /\ index' = index /\ frames' = frames /\ reply' = reply
      /\ body' = body /\ got' = got /\ inflight' = inflight
      /\ counted' = counted /\ logged' = logged /\ panics' = panics
  BY DEF Panic, told
<1>3. /\ TypeOK /\ Serving(r) /\ Served(r) /\ panic[r] = None /\ frames[r] # << >>
  BY <1>1 DEF Inv, Local, InFrame
<1>4. Length(r) \in 8..11 /\ Height(r) \in Nat /\ Height(r) # 0 /\ index[r] \in 1..100
  BY <1>3, RouteOf, HeightIs
<1>5. /\ Height(r) >= 7 /\ panics[r] = 0
      /\ reply[r].docs = IF reply[r].sent = None THEN 0 ELSE 1
  <2>1. CASE m = "Handler"
    <3>1. /\ Length(r) \in 8..11 /\ Height(r) = Length(r) - 1 /\ panics[r] = 0
          /\ reply[r].docs = IF reply[r].sent = None THEN 0 ELSE 1
      BY <1>1, <2>1, InHandlerIs
    <3> QED
      BY <3>1
  <2>2. CASE m = "Auth"
    <3>1. Height(r) \in 1..Height(r) /\ frames[r][Height(r)] = "Auth"
      BY <1>1, <1>4, <2>2 DEF InFrame, Innermost, Height
    <3>2. Height(r) >= 7
      BY <1>3, <3>1, FrameIs, Zenon DEF Served
    <3>3. index[r] <= Length(r)
      BY <1>1, <2>2 DEF Length
    <3>4. ~WayOut(r)
      <4>1. ~(index[r] > Length(r))
        BY <1>4, <3>3
      <4> QED
        BY <1>3, <4>1 DEF WayOut
    <3>5. /\ reply[r] = [status |-> InitialStatus(req[r].route), sent |-> None, docs |-> 0]
          /\ raised[r] = None
      BY <1>3, <3>4 DEF Served, Untouched
    <3>6. panics[r] = 0
      BY <1>3, <3>5 DEF Served, PanicInPlace
    <3> QED
      BY <3>2, <3>5, <3>6
  <2> QED
    BY <2>1, <2>2
<1>6. why # None /\ why \in Panics
  BY NoneIsNothing
<1>7. /\ panic'[r] = why /\ panic' \in [Requests -> Panics \cup {None}]
      /\ \A s \in Requests \ {r} : panic'[s] = panic[s]
  BY <1>1, <1>3, <1>6 DEF TypeOK
<1> DEFINE e == [why |-> why, sent |-> reply[r].sent]
<1>8. e \in [why : Panics, sent : Statuses \cup {None}]
  BY <1>3, <1>6 DEF TypeOK
<1>9. e.why = why /\ e.sent = reply[r].sent /\ e # None
  <2>1. e.why = why /\ e.sent = reply[r].sent
    OBVIOUS
  <2> HIDE DEF e
  <2>2. e # None
    BY <1>8, NoneIsNothing
  <2> QED
    BY <2>1, <2>2
<1> HIDE DEF e
<1>10. /\ raised'[r] = e
       /\ raised' \in [Requests -> [why : Panics, sent : Statuses \cup {None}] \cup {None}]
       /\ \A s \in Requests \ {r} : raised'[s] = raised[s]
  BY <1>1, <1>3, <1>8 DEF TypeOK, e
<1>11. /\ Serving(r)' /\ MyChain(r)' = MyChain(r) /\ Length(r)' = Length(r)
       /\ Height(r)' = Height(r) /\ (TooLong(r)' <=> TooLong(r))
  BY <1>2, <1>3 DEF Serving, MyChain, Length, Height, TooLong
<1>12. WayOut(r)'
  BY <1>6, <1>7 DEF WayOut
<1>13. Stacked(r)' /\ Untouched(r)'
  BY <1>2, <1>3, <1>11, <1>12 DEF Served, Stacked, Untouched
<1>14. ToldOnce(r)'
  <2>1. ~(Height(r) <= 1) /\ ~(Height(r) <= 3)
    BY <1>4, <1>5
  <2> QED
    BY <1>2, <1>3, <1>11, <2>1 DEF Served, ToldOnce
<1>15. PanicInPlace(r)'
  <2>1. Height(r) >= 5
    BY <1>4, <1>5
  <2> QED
    BY <1>2, <1>5, <1>6, <1>7, <1>9, <1>10, <1>11, <2>1 DEF PanicInPlace
<1>16. BodyInPlace(r)'
  BY <1>2, <1>3, <1>11, <1>12 DEF Served, BodyInPlace
<1>17. Local(r)'
  BY <1>11, <1>13, <1>14, <1>15, <1>16 DEF Local, Served
<1>18. StepOf(r)
  BY <1>2, <1>7, <1>10 DEF StepOf, Same
<1>19. GaugeIsExact'
  BY <1>2, <1>11, <1>18, GaugeStays DEF Inv
<1>20. TypeOK'
  BY <1>2, <1>3, <1>7, <1>10 DEF TypeOK
<1> QED
  BY <1>17, <1>18, <1>19, <1>20, Lift

-----------------------------------------------------------------------------
(* The way out: frames are left, and their tails told. *)

LEMMA PopIs ==
  ASSUME TypeOK, NEW r \in Requests, frames[r] # << >>, Pop(r)
  PROVE  /\ frames' \in [Requests -> Seq(Handlers)] /\ Height(r)' = Height(r) - 1
         /\ Height(r) \in Nat /\ Height(r) > 0
         /\ \A j \in 1..Height(r) - 1 : frames'[r][j] = frames[r][j]
         /\ \A s \in Requests \ {r} : frames'[s] = frames[s]
<1> DEFINE n == Height(r)
           rest == SubSeq(frames[r], 1, n - 1)
<1>1. frames[r] \in Seq(Handlers) /\ n \in Nat /\ n # 0
  BY HeightIs
<1>2. rest \in Seq(Handlers) /\ Len(rest) = n - 1 /\ \A j \in 1..n - 1 : rest[j] = frames[r][j]
  <2>1. /\ 1 \in 1..Len(frames[r]) + 1 /\ n - 1 \in 0..Len(frames[r])
    BY <1>1 DEF Height
  <2>2. CASE n - 1 >= 1
    <3>1. \A j \in 1..n - 1 : frames[r][j] \in Handlers
      <4>1. \A j \in 1..Len(frames[r]) : frames[r][j] \in Handlers
        BY <1>1
      <4> QED
        BY <1>1, <4>1 DEF Height
    <3> QED
      BY <1>1, <2>1, <2>2, <3>1 DEF Height
  <2>3. CASE n - 1 = 0
    BY <1>1, <2>1, <2>3
  <2> QED
    BY <1>1, <2>2, <2>3
<1>3. frames' = [frames EXCEPT ![r] = rest]
  BY DEF Pop, Height
<1> HIDE DEF rest, n
<1>4. /\ frames' \in [Requests -> Seq(Handlers)] /\ frames'[r] = rest
      /\ \A s \in Requests \ {r} : frames'[s] = frames[s]
  BY <1>2, <1>3 DEF TypeOK
<1>5. Height(r)' = n - 1
  BY <1>2, <1>4 DEF Height
<1> QED
  BY <1>1, <1>2, <1>4, <1>5 DEF n

\* What the tail of the frame that is left does.
TailEffect(r) ==
  /\ inflight' = IF Height(r) = 2 THEN inflight - 1 ELSE inflight
  /\ counted' = IF Height(r) = 2 THEN [counted EXCEPT ![r] = Append(@, reply[r].status)]
                                 ELSE counted
  /\ logged' = IF Height(r) = 4 /\ req[r].route # "probe"
                 THEN [logged EXCEPT ![r] = Append(@, reply[r].status)] ELSE logged

LEMMA AppendToNone == ASSUME NEW x PROVE Append(<< >>, x) = <<x>>
OBVIOUS

LEMMA PopKeepsTold ==
  ASSUME TypeOK, NEW r \in Requests, Serving(r), Served(r), frames[r] # << >>, WayOut(r), TailEffect(r),
         Height(r)' = Height(r) - 1, Length(r)' = Length(r), WayOut(r)',
         UNCHANGED <<conf, req, reply>>
  PROVE  /\ ToldOnce(r)'
         /\ counted' \in [Requests -> Seq(Statuses)] /\ logged' \in [Requests -> Seq(Statuses)]
         /\ \A s \in Requests \ {r} : counted'[s] = counted[s] /\ logged'[s] = logged[s]
<1>1. Height(r) \in Nat /\ Height(r) # 0
  BY HeightIs
<1>2. /\ reply[r].sent \in {None, reply[r].status}
      /\ TooLong(r) => Height(r) <= 2
      /\ counted[r] = IF WayOut(r) /\ Height(r) <= 1 THEN <<reply[r].status>> ELSE << >>
      /\ logged[r] = IF WayOut(r) /\ Height(r) <= 3 /\ req[r].route # "probe" /\ ~TooLong(r)
                       THEN <<reply[r].status>> ELSE << >>
  BY DEF Served, ToldOnce
<1>3. reply[r].status \in Statuses
  BY DEF TypeOK
<1> DEFINE st == reply[r].status
<1>4. Append(<< >>, st) = <<st>> /\ <<st>> \in Seq(Statuses)
  BY <1>3
<1> HIDE DEF st
<1>5. /\ counted' \in [Requests -> Seq(Statuses)]
      /\ \A s \in Requests \ {r} : counted'[s] = counted[s]
      /\ counted'[r] = IF Height(r) <= 2 THEN <<st>> ELSE << >>
  <2>1. CASE Height(r) = 2
    <3>1. counted[r] = << >>
      BY <1>2, <2>1
    <3>2. counted' = [counted EXCEPT ![r] = <<st>>]
      BY <1>4, <2>1, <3>1 DEF TailEffect, st
    <3> QED
      BY <1>4, <2>1, <3>2 DEF TypeOK
  <2>2. CASE Height(r) # 2
    <3>1. counted' = counted
      BY <2>2 DEF TailEffect
    <3>2. (Height(r) <= 2) <=> (Height(r) <= 1)
      BY <1>1, <2>2
    <3> QED
      BY <1>2, <3>1, <3>2 DEF TypeOK, st
  <2> QED
    BY <2>1, <2>2
<1>6. /\ logged' \in [Requests -> Seq(Statuses)]
      /\ \A s \in Requests \ {r} : logged'[s] = logged[s]
      /\ logged'[r] = IF Height(r) <= 4 /\ req[r].route # "probe" /\ ~TooLong(r)
                        THEN <<st>> ELSE << >>
  <2>1. CASE Height(r) = 4 /\ req[r].route # "probe"
    <3>1. logged[r] = << >> /\ ~TooLong(r)
      BY <1>2, <2>1
    <3>2. logged' = [logged EXCEPT ![r] = <<st>>]
      BY <1>4, <2>1, <3>1 DEF TailEffect, st
    <3> QED
      BY <1>4, <2>1, <3>1, <3>2 DEF TypeOK
  <2>2. CASE ~(Height(r) = 4 /\ req[r].route # "probe")
    <3>1. logged' = logged
      BY <2>2 DEF TailEffect
    <3>2. req[r].route # "probe" => ((Height(r) <= 4) <=> (Height(r) <= 3))
      BY <1>1, <2>2
    <3>3. logged[r] = IF Height(r) <= 4 /\ req[r].route # "probe" /\ ~TooLong(r)
                        THEN <<st>> ELSE << >>
      BY <1>2, <3>2 DEF st
    <3> QED
      BY <3>1, <3>3 DEF TypeOK
  <2> QED
    BY <2>1, <2>2
<1>7. (TooLong(r)' <=> TooLong(r)) /\ reply'[r].status = st
  BY DEF TooLong, st
<1>8. /\ (Height(r)' <= 1) <=> (Height(r) <= 2)
      /\ (Height(r)' <= 3) <=> (Height(r) <= 4)
      /\ Height(r) <= 2 => Height(r)' <= 2
  BY <1>1
<1>9. ToldOnce(r)'
  BY <1>2, <1>5, <1>6, <1>7, <1>8 DEF ToldOnce, st
<1> QED
  BY <1>5, <1>6, <1>9

LEMMA PopKeepsInv ==
  ASSUME Inv, NEW r \in Requests, Serving(r), frames[r] # << >>, WayOut(r), Pop(r), TailEffect(r),
         UNCHANGED <<conf, req, index, panic, reply, body, got, panics, raised>>,
         panic[r] # None => (panic[r] = "abort" \/ Height(r) # 5)
  PROVE  Inv'
<1>1. TypeOK /\ Served(r) /\ Length(r) \in 8..11
  BY RouteOf DEF Inv, Local
<1>2. /\ frames' \in [Requests -> Seq(Handlers)] /\ Height(r)' = Height(r) - 1
      /\ Height(r) \in Nat /\ Height(r) > 0
      /\ \A j \in 1..Height(r) - 1 : frames'[r][j] = frames[r][j]
      /\ \A s \in Requests \ {r} : frames'[s] = frames[s]
  BY <1>1, PopIs
<1>3. /\ Serving(r)' /\ MyChain(r)' = MyChain(r) /\ Length(r)' = Length(r)
  BY DEF Serving, MyChain, Length
<1>4. WayOut(r)'
  BY <1>3 DEF WayOut
<1>5. Height(r) < Length(r)
  BY <1>1 DEF Served, Stacked
<1>6. Stacked(r)'
  <2>1. ASSUME NEW j \in 1..Height(r) - 1 PROVE frames'[r][j] = MyChain(r)[Position(j)]
    <3>1. j \in 1..Height(r)
      BY <1>2
    <3> QED
      BY <1>1, <1>2, <3>1 DEF Served, Stacked
  <2>2. Height(r)' < Length(r)'
    BY <1>1, <1>2, <1>3, <1>5
  <2> QED
    BY <1>2, <1>3, <1>4, <2>1, <2>2 DEF Stacked
<1>7. Untouched(r)'
  BY <1>4 DEF Untouched
<1>8. /\ ToldOnce(r)'
      /\ counted' \in [Requests -> Seq(Statuses)] /\ logged' \in [Requests -> Seq(Statuses)]
      /\ \A s \in Requests \ {r} : counted'[s] = counted[s] /\ logged'[s] = logged[s]
  BY <1>1, <1>2, <1>3, <1>4, PopKeepsTold
<1>9. PanicInPlace(r)'
  <2>1. CASE raised[r] = None
    <3>1. panic[r] = None /\ panics[r] = 0
      BY <1>1, <2>1 DEF Served, PanicInPlace
    <3>2. Height(r)' # Length(r)' - 1
      BY <1>1, <1>2, <1>3, <1>5
    <3> QED
      BY <2>1, <3>1, <3>2 DEF PanicInPlace
  <2>2. CASE raised[r] # None /\ panic[r] # None
    <3>1. /\ panic[r] = raised[r].why /\ panics[r] = 0
          /\ raised[r].why # "abort" => Height(r) >= 5
          /\ reply[r].sent = raised[r].sent
          /\ reply[r].docs = IF raised[r].sent = None THEN 0 ELSE 1
      BY <1>1, <2>2 DEF Served, PanicInPlace
    <3>2. raised[r].why # "abort" => Height(r)' >= 5
      BY <1>2, <2>2, <3>1
    <3> QED
      BY <2>2, <3>1, <3>2 DEF PanicInPlace
  <2>3. CASE raised[r] # None /\ panic[r] = None
    <3>1. /\ raised[r].why # "abort" /\ Height(r) <= 4
          /\ panics[r] = IF raised[r].why = "bug" THEN 1 ELSE 0
          /\ raised[r].why = "bug" =>
               /\ reply[r].docs = 1
               /\ reply[r].sent = IF raised[r].sent = None THEN 500 ELSE raised[r].sent
      BY <1>1, <2>3 DEF Served, PanicInPlace
    <3>2. Height(r)' <= 4
      BY <1>2, <3>1
    <3> QED
      BY <2>3, <3>1, <3>2 DEF PanicInPlace
  <2> QED
    BY <2>1, <2>2, <2>3
<1>10. BodyInPlace(r)'
  <2>1. Height(r)' >= 3 => Height(r) >= 3
    BY <1>2
  <2> QED
    BY <1>1, <1>4, <2>1 DEF Served, BodyInPlace
<1>11. Local(r)'
  BY <1>3, <1>6, <1>7, <1>8, <1>9, <1>10 DEF Local, Served
<1>12. StepOf(r)
  BY <1>2, <1>8 DEF StepOf, Same
<1>13. GaugeIsExact'
  <2>1. CASE Height(r) = 2
    <3>1. Height(r) >= 2 /\ ~(Height(r)' >= 2) /\ inflight' = inflight - 1
      BY <1>2, <2>1 DEF TailEffect
    <3> QED
      BY <1>12, <3>1, GaugeFalls DEF Inv
  <2>2. CASE Height(r) # 2
    <3>1. ((Height(r)' >= 2) <=> (Height(r) >= 2)) /\ inflight' = inflight
      BY <1>2, <2>2 DEF TailEffect
    <3> QED
      BY <1>12, <3>1, GaugeStays DEF Inv
  <2> QED
    BY <2>1, <2>2
<1>14. TypeOK'
  <2>1. inflight' \in Nat
    BY <1>13, FS_CardinalityType DEF GaugeIsExact
  <2> QED
    BY <1>1, <1>2, <1>8, <2>1 DEF TypeOK
<1> QED
  BY <1>11, <1>12, <1>13, <1>14, Lift

LEMMA InnermostIs ==
  ASSUME TypeOK, NEW r \in Requests, Serving(r), Stacked(r), frames[r] # << >>
  PROVE  /\ (Innermost(r) = "Metrics") <=> (Height(r) = 2)
         /\ (Innermost(r) = "Logger") <=> (Height(r) = 4)
         /\ (Innermost(r) = "Recovery") <=> (Height(r) = 5)
<1>1. Height(r) \in Nat /\ Height(r) # 0
  BY HeightIs
<1>2. Height(r) \in 1..Height(r) /\ Innermost(r) = frames[r][Height(r)]
  BY <1>1 DEF Innermost, Height
<1>3. /\ (frames[r][Height(r)] = "Metrics") <=> (Height(r) = 2)
      /\ (frames[r][Height(r)] = "Logger") <=> (Height(r) = 4)
      /\ (frames[r][Height(r)] = "Recovery") <=> (Height(r) = 5)
  BY <1>2, FrameIs
<1> QED
  BY <1>2, <1>3

LEMMA ReturnKeepsInv == ASSUME Inv, NEW r \in Requests, Return(r) PROVE Inv'
<1>1. /\ TypeOK /\ Serving(r) /\ Stacked(r) /\ frames[r] # << >> /\ panic[r] = None
      /\ WayOut(r) /\ Pop(r) /\ Epilogue(r, Innermost(r))
      /\ UNCHANGED <<conf, req, index, panic, reply, body, got, panics, raised>>
  BY DEF Inv, Local, Served, Return, WayOut, Length
<1>2. /\ (Innermost(r) = "Metrics") <=> (Height(r) = 2)
      /\ (Innermost(r) = "Logger") <=> (Height(r) = 4)
  BY <1>1, InnermostIs
<1>3. TailEffect(r)
  BY <1>1, <1>2 DEF Epilogue, TailEffect
<1> QED
  BY <1>1, <1>3, PopKeepsInv

LEMMA UnwindKeepsInv == ASSUME Inv, NEW r \in Requests, Unwind(r) PROVE Inv'
<1>1. /\ TypeOK /\ Serving(r) /\ Stacked(r) /\ frames[r] # << >>
      /\ WayOut(r) /\ Pop(r) /\ (Innermost(r) # "Recovery" \/ panic[r] = "abort")
      /\ UNCHANGED <<conf, req, index, panic, reply, body, got, panics, raised>>
  BY DEF Inv, Local, Served, Unwind, WayOut
<1>2. /\ (Innermost(r) = "Metrics") <=> (Height(r) = 2)
      /\ (Innermost(r) = "Logger") <=> (Height(r) = 4)
      /\ (Innermost(r) = "Recovery") <=> (Height(r) = 5)
  BY <1>1, InnermostIs
<1>3. TailEffect(r)
  <2>1. CASE Innermost(r) \in {"Metrics", "Logger"}
    <3>1. Epilogue(r, Innermost(r))
      BY <2>1 DEF Unwind, Deferring
    <3> QED
      BY <1>2, <3>1 DEF Epilogue, TailEffect
  <2>2. CASE Innermost(r) \notin {"Metrics", "Logger"}
    <3>1. UNCHANGED <<inflight, counted, logged>>
      BY <2>2 DEF Unwind, Deferring
    <3> QED
      BY <1>2, <2>2, <3>1 DEF TailEffect
  <2> QED
    BY <2>1, <2>2
<1> QED
  BY <1>1, <1>2, <1>3, PopKeepsInv

\* Recovery takes the panic, and answers a bug that nothing had answered.
LEMMA RecoverKeepsInv == ASSUME Inv, NEW r \in Requests, Recover(r) PROVE Inv'
<1>1. /\ TypeOK /\ Serving(r) /\ Served(r) /\ frames[r] # << >> /\ panic[r] \in {"bug", "pipe"}
      /\ panic[r] # None /\ Innermost(r) = "Recovery" /\ Pop(r)
      /\ panic' = [panic EXCEPT ![r] = None]
      /\ conf' = conf /\ req' = req /\ body' = body /\ got' = got /\ inflight' = inflight
      /\ counted' = counted /\ logged' = logged /\ raised' = raised
  BY NoneIsNothing DEF Inv, Local, Recover, Panics
<1>2. Height(r) = 5
  BY <1>1, InnermostIs DEF Served
<1>3. /\ frames' \in [Requests -> Seq(Handlers)] /\ Height(r)' = 4
      /\ \A j \in 1..4 : frames'[r][j] = frames[r][j]
      /\ \A s \in Requests \ {r} : frames'[s] = frames[s]
  <2>1. /\ frames' \in [Requests -> Seq(Handlers)] /\ Height(r)' = Height(r) - 1
        /\ \A j \in 1..Height(r) - 1 : frames'[r][j] = frames[r][j]
        /\ \A s \in Requests \ {r} : frames'[s] = frames[s]
    BY <1>1, PopIs
  <2> QED
    BY <1>2, <2>1
<1>4. /\ raised[r] # None /\ panic[r] = raised[r].why /\ panics[r] = 0
      /\ reply[r].sent = raised[r].sent
      /\ reply[r].docs = IF raised[r].sent = None THEN 0 ELSE 1
  BY <1>1 DEF Served, PanicInPlace
<1>5. /\ index' = [index EXCEPT ![r] = Aborted]
      /\ index'[r] = Aborted /\ index' \in [Requests -> 1..Aborted]
      /\ \A s \in Requests \ {r} : index'[s] = index[s]
  <2>1. index' = [index EXCEPT ![r] = Aborted]
    BY DEF Recover, Answer, Error
  <2>2. Aborted \in 1..Aborted
    BY DEF Aborted
  <2> HIDE DEF Aborted
  <2> QED
    BY <1>1, <2>1, <2>2 DEF TypeOK
<1>6. /\ panic'[r] = None /\ panic' \in [Requests -> Panics \cup {None}]
      /\ \A s \in Requests \ {r} : panic'[s] = panic[s]
  BY <1>1 DEF TypeOK
<1>7. /\ reply' \in [Requests -> [status : Statuses, sent : Statuses \cup {None}, docs : Nat]]
      /\ \A s \in Requests \ {r} : reply'[s] = reply[s]
      /\ reply'[r].sent \in {None, reply'[r].status}
      /\ reply[r].sent # None => reply'[r].sent = reply[r].sent
      /\ panic[r] = "bug" => /\ reply'[r].docs = 1
                             /\ reply'[r].sent = IF reply[r].sent = None THEN 500 ELSE reply[r].sent
  <2>1. CASE panic[r] = "bug" /\ reply[r].sent = None
    <3> DEFINE st == 500
    <3>1. reply' = [reply EXCEPT ![r] = Document(@, st)] /\ st \in Statuses
      BY <2>1 DEF Recover, Answer, Error, Statuses
    <3> HIDE DEF st
    <3>2. /\ reply' \in [Requests -> [status : Statuses, sent : Statuses \cup {None}, docs : Nat]]
          /\ \A s \in Requests \ {r} : reply'[s] = reply[s]
          /\ reply'[r] = [status |-> st, sent |-> st, docs |-> 1]
      BY <1>1, <2>1, <3>1, DocumentIs
    <3>3. reply'[r].status = st /\ reply'[r].sent = st /\ reply'[r].docs = 1
      BY <3>2
    <3> QED
      BY <2>1, <3>2, <3>3 DEF st
  <2>2. CASE ~(panic[r] = "bug" /\ reply[r].sent = None)
    <3>1. reply' = reply
      BY <1>1, <2>2 DEF Recover, Answer
    <3>2. reply[r].sent \in {None, reply[r].status}
      BY <1>1 DEF Served, ToldOnce
    <3> QED
      BY <1>1, <1>4, <2>2, <3>1, <3>2 DEF TypeOK
  <2> QED
    BY <2>1, <2>2
<1>8. /\ panics' \in [Requests -> Nat]
      /\ \A s \in Requests \ {r} : panics'[s] = panics[s]
      /\ panics'[r] = IF panic[r] = "bug" THEN 1 ELSE 0
  <2>1. CASE panic[r] = "bug"
    <3>1. panics' = [panics EXCEPT ![r] = @ + 1]
      BY <2>1 DEF Recover
    <3> QED
      BY <1>1, <1>4, <2>1, <3>1 DEF TypeOK
  <2>2. CASE panic[r] # "bug"
    <3>1. panics' = panics
      BY <2>2 DEF Recover
    <3> QED
      BY <1>1, <1>4, <2>2, <3>1 DEF TypeOK
  <2> QED
    BY <2>1, <2>2
<1>9. /\ Serving(r)' /\ MyChain(r)' = MyChain(r) /\ Length(r)' = Length(r)
      /\ (TooLong(r)' <=> TooLong(r)) /\ Length(r) \in 8..11
  BY <1>1, RouteOf DEF Serving, MyChain, Length, TooLong
<1>10. WayOut(r)' /\ WayOut(r)
  <2>1. Aborted > Length(r)
    BY <1>9 DEF Aborted
  <2> QED
    BY <1>1, <1>5, <1>9, <2>1 DEF WayOut
<1>11. Stacked(r)'
  <2>1. ASSUME NEW j \in 1..4 PROVE frames'[r][j] = MyChain(r)[Position(j)]
    <3>1. j \in 1..Height(r)
      BY <1>2
    <3> QED
      BY <1>1, <1>3, <3>1 DEF Served, Stacked
  <2>2. Height(r)' < Length(r)'
    BY <1>3, <1>9
  <2> QED
    BY <1>3, <1>9, <1>10, <2>1, <2>2 DEF Stacked
<1>12. Untouched(r)'
  BY <1>10 DEF Untouched
<1>13. ToldOnce(r)'
  <2>1. (TooLong(r) => Height(r) <= 2) /\ counted[r] = << >> /\ logged[r] = << >>
    BY <1>1, <1>2 DEF Served, ToldOnce
  <2>2. ~TooLong(r)
    BY <1>2, <2>1
  <2>3. ~(Height(r)' <= 1) /\ ~(Height(r)' <= 3)
    BY <1>3
  <2> QED
    BY <1>1, <1>7, <1>9, <2>1, <2>2, <2>3 DEF ToldOnce
<1>14. PanicInPlace(r)'
  <2>1. raised'[r] = raised[r] /\ raised[r].why \in {"bug", "pipe"} /\ Height(r)' <= 4
    BY <1>1, <1>3, <1>4
  <2> QED
    BY <1>4, <1>6, <1>7, <1>8, <2>1 DEF PanicInPlace
<1>15. BodyInPlace(r)'
  <2>1. Height(r) >= 3
    BY <1>2
  <2>2. got[r] = TooLarge => reply'[r].sent = reply[r].sent
    <3>1. got[r] = TooLarge => reply[r].sent = 413
      BY <1>1, NoneIsNothing DEF Served, BodyInPlace
    <3>2. 413 # None
      BY NoneIsNoStatus DEF Statuses
    <3> QED
      BY <1>7, <3>1, <3>2
  <2> QED
    BY <1>1, <1>10, <2>1, <2>2 DEF Served, BodyInPlace
<1>16. Local(r)'
  BY <1>9, <1>11, <1>12, <1>13, <1>14, <1>15 DEF Local, Served
<1>17. StepOf(r)
  BY <1>1, <1>3, <1>5, <1>6, <1>7, <1>8 DEF StepOf, Same
<1>18. GaugeIsExact'
  <2>1. (Height(r)' >= 2) <=> (Height(r) >= 2)
    BY <1>2, <1>3
  <2> QED
    BY <1>1, <1>17, <2>1, GaugeStays DEF Inv
<1>19. TypeOK'
  BY <1>1, <1>3, <1>5, <1>6, <1>7, <1>8 DEF TypeOK
<1> QED
  BY <1>16, <1>17, <1>18, <1>19, Lift

-----------------------------------------------------------------------------
(* A request begins and ends. *)

LEMMA FinishKeepsInv == ASSUME Inv, NEW r \in Requests, Finish(r) PROVE Inv'
<1>1. /\ TypeOK /\ Serving(r) /\ Served(r) /\ frames[r] = << >> /\ reply[r].sent = None
      /\ panic[r] = None /\ index[r] > Length(r) /\ WayOut(r)
      /\ reply' = [reply EXCEPT ![r].sent = reply[r].status]
      /\ conf' = conf /\ req' = req /\ index' = index /\ frames' = frames /\ panic' = panic
      /\ body' = body /\ got' = got /\ inflight' = inflight
      /\ counted' = counted /\ logged' = logged /\ panics' = panics /\ raised' = raised
  BY DEF Inv, Local, Finish, WayOut, Length, calls, told
<1>2. Height(r) = 0 /\ Length(r) \in 8..11
  BY <1>1, HeightIs, RouteOf
<1>3. /\ reply' \in [Requests -> [status : Statuses, sent : Statuses \cup {None}, docs : Nat]]
      /\ \A s \in Requests \ {r} : reply'[s] = reply[s]
      /\ reply'[r].sent = reply[r].status /\ reply'[r].status = reply[r].status
  <2> DEFINE st == reply[r].status
  <2>1. reply \in [Requests -> [status : Statuses, sent : Statuses \cup {None}, docs : Nat]]
    BY <1>1 DEF TypeOK
  <2>2. st \in Statuses /\ reply' = [reply EXCEPT ![r].sent = st]
    BY <1>1, <2>1
  <2> HIDE DEF st
  <2>3. /\ reply' \in [Requests -> [status : Statuses, sent : Statuses \cup {None}, docs : Nat]]
        /\ \A s \in Requests \ {r} : reply'[s] = reply[s]
        /\ reply'[r].sent = st /\ reply'[r].status = reply[r].status
    BY <2>1, <2>2
  <2> QED
    BY <2>3 DEF st
<1>4. /\ Serving(r)' /\ MyChain(r)' = MyChain(r) /\ Length(r)' = Length(r)
      /\ Height(r)' = Height(r) /\ (TooLong(r)' <=> TooLong(r))
  BY <1>1 DEF Serving, MyChain, Length, Height, TooLong
<1>5. WayOut(r)'
  BY <1>1, <1>4 DEF WayOut
<1>6. Stacked(r)' /\ Untouched(r)'
  BY <1>1, <1>4, <1>5 DEF Served, Stacked, Untouched
<1>7. ToldOnce(r)'
  BY <1>1, <1>3, <1>4, <1>5 DEF Served, ToldOnce
<1>8. PanicInPlace(r)'
  <2>1. CASE raised[r] = None
    <3>1. panics[r] = 0
      BY <1>1, <2>1 DEF Served, PanicInPlace
    <3>2. Height(r)' # Length(r)' - 1
      BY <1>2, <1>4
    <3> QED
      BY <1>1, <2>1, <3>1, <3>2 DEF PanicInPlace
  <2>2. CASE raised[r] # None
    <3>1. /\ raised[r].why # "abort" /\ Height(r) <= 4
          /\ panics[r] = IF raised[r].why = "bug" THEN 1 ELSE 0
          /\ raised[r].why = "bug" =>
               /\ reply[r].docs = 1
               /\ reply[r].sent = IF raised[r].sent = None THEN 500 ELSE raised[r].sent
      BY <1>1, <2>2 DEF Served, PanicInPlace
    <3>2. raised[r].why # "bug"
      <4>1. 500 # None
        BY NoneIsNoStatus DEF Statuses
      <4> QED
        BY <1>1, <3>1, <4>1
    <3> QED
      BY <1>1, <1>4, <2>2, <3>1, <3>2 DEF PanicInPlace
  <2> QED
    BY <2>1, <2>2
<1>9. BodyInPlace(r)'
  <2>1. got[r] # TooLarge
    <3>1. 413 # None
      BY NoneIsNoStatus DEF Statuses
    <3> QED
      BY <1>1, <3>1, NoneIsNothing DEF Served, BodyInPlace
  <2> QED
    BY <1>1, <1>4, <1>5, <2>1 DEF Served, BodyInPlace
<1>10. Local(r)'
  BY <1>4, <1>6, <1>7, <1>8, <1>9 DEF Local, Served
<1>11. StepOf(r)
  BY <1>1, <1>3 DEF StepOf, Same
<1>12. GaugeIsExact'
  BY <1>1, <1>4, <1>11, GaugeStays DEF Inv
<1>13. TypeOK'
  BY <1>1, <1>3 DEF TypeOK
<1> QED
  BY <1>10, <1>11, <1>12, <1>13, Lift

LEMMA ArriveKeepsInv == ASSUME Inv, NEW r \in Requests, Arrive(r) PROVE Inv'
<1>1. PICK q \in Traffic :
        /\ req' = [req EXCEPT ![r] = q]
        /\ reply' = [reply EXCEPT ![r].status = InitialStatus(q.route)]
        /\ body' = [body EXCEPT ![r].left = q.size]
  BY DEF Arrive
<1>2. /\ TypeOK /\ ~Serving(r) /\ Vacant(r)
      /\ conf' = conf /\ index' = index /\ frames' = frames /\ panic' = panic
      /\ got' = got /\ inflight' = inflight
      /\ counted' = counted /\ logged' = logged /\ panics' = panics /\ raised' = raised
  BY DEF Inv, Local, Arrive, Serving, calls, told
<1>3. q.route \in Routes /\ q.size \in Nat /\ q # None
  BY SizesAreLengths, NoneIsNothing
<1>4. InitialStatus(q.route) \in Statuses
  BY <1>3, AnswersAreStatuses
<1>5. /\ req'[r] = q /\ req' \in [Requests -> Traffic \cup {None}]
      /\ \A s \in Requests \ {r} : req'[s] = req[s]
  BY <1>1, <1>2 DEF TypeOK
<1>6. /\ reply' \in [Requests -> [status : Statuses, sent : Statuses \cup {None}, docs : Nat]]
      /\ \A s \in Requests \ {r} : reply'[s] = reply[s]
      /\ reply'[r] = [status |-> InitialStatus(q.route), sent |-> None, docs |-> 0]
  <2> DEFINE st == InitialStatus(q.route)
  <2>1. reply' = [reply EXCEPT ![r].status = st] /\ st \in Statuses
    BY <1>1, <1>4
  <2> HIDE DEF st
  <2>2. reply[r] = [status |-> 200, sent |-> None, docs |-> 0]
    BY <1>2 DEF Vacant
  <2>3. reply'[r] = [status |-> st, sent |-> None, docs |-> 0]
    <3>1. reply'[r] = [reply[r] EXCEPT !.status = st]
      BY <1>2, <2>1 DEF TypeOK
    <3>2. [[status |-> 200, sent |-> None, docs |-> 0] EXCEPT !.status = st]
            = [status |-> st, sent |-> None, docs |-> 0]
      OBVIOUS
    <3> QED
      BY <2>2, <3>1, <3>2
  <2>4. /\ reply' \in [Requests -> [status : Statuses, sent : Statuses \cup {None}, docs : Nat]]
        /\ \A s \in Requests \ {r} : reply'[s] = reply[s]
    <3>1. reply \in [Requests -> [status : Statuses, sent : Statuses \cup {None}, docs : Nat]]
      BY <1>2 DEF TypeOK
    <3> QED
      BY <2>1, <3>1
  <2> QED
    BY <2>3, <2>4 DEF st
<1>7. /\ body' \in [Requests -> [head : Nat, left : Nat, quota : Nat \cup {None}]]
      /\ \A s \in Requests \ {r} : body'[s] = body[s]
      /\ body'[r].head = 0 /\ body'[r].left = q.size
  <2>1. body[r].head = 0
    BY <1>2 DEF Vacant
  <2>2. body \in [Requests -> [head : Nat, left : Nat, quota : Nat \cup {None}]]
    BY <1>2 DEF TypeOK
  <2>3. q.size \in Nat /\ body' = [body EXCEPT ![r].left = q.size]
    BY <1>1, <1>3
  <2> QED
    BY <2>1, <2>2, <2>3
<1>8. /\ index'[r] = 1 /\ frames'[r] = << >> /\ panic'[r] = None /\ got'[r] = None
      /\ counted'[r] = << >> /\ logged'[r] = << >> /\ panics'[r] = 0 /\ raised'[r] = None
  BY <1>2 DEF Vacant
<1>9. TypeOK'
  BY <1>2, <1>5, <1>6, <1>7 DEF TypeOK
<1>10. Serving(r)'
  BY <1>3, <1>5 DEF Serving
<1>11. Length(r)' \in 8..11
  BY <1>3, <1>5, Places DEF Length, MyChain
<1>12. Height(r)' = 0 /\ Height(r) = 0
  BY <1>2, <1>8 DEF Height, Vacant
<1>13. ~WayOut(r)'
  <2>1. ~(1 > Length(r)')
    BY <1>11
  <2> QED
    BY <1>8, <2>1 DEF WayOut
<1>14. Stacked(r)'
  <2>1. Height(r)' < Length(r)' /\ Height(r)' = Called(1)
    BY <1>11, <1>12 DEF Called
  <2>2. \A j \in 1..Height(r)' : frames'[r][j] = MyChain(r)'[Position(j)]
    BY <1>12
  <2> QED
    BY <1>8, <2>1, <2>2 DEF Stacked
<1>15. Untouched(r)'
  BY <1>5, <1>6, <1>8 DEF Untouched
<1>16. ToldOnce(r)'
  BY <1>6, <1>8, <1>12, <1>13 DEF ToldOnce
<1>17. PanicInPlace(r)'
  BY <1>6, <1>8 DEF PanicInPlace
<1>18. BodyInPlace(r)'
  BY <1>5, <1>7, <1>8, <1>12 DEF BodyInPlace
<1>19. Local(r)'
  BY <1>10, <1>14, <1>15, <1>16, <1>17, <1>18 DEF Local, Served
<1>20. StepOf(r)
  BY <1>2, <1>5, <1>6, <1>7 DEF StepOf, Same
<1>21. GaugeIsExact'
  BY <1>2, <1>12, <1>20, GaugeStays DEF Inv
<1> QED
  BY <1>9, <1>19, <1>20, <1>21, Lift

LEMMA LeaveKeepsInv == ASSUME Inv, NEW r \in Requests, Leave(r) PROVE Inv'
<1> DEFINE rep == [status |-> 200, sent |-> None, docs |-> 0]
           bod == [head |-> 0, left |-> 0, quota |-> None]
<1>1. /\ TypeOK /\ frames[r] = << >>
      /\ conf' = conf /\ frames' = frames /\ inflight' = inflight
      /\ req' = [req EXCEPT ![r] = None] /\ index' = [index EXCEPT ![r] = 1]
      /\ panic' = [panic EXCEPT ![r] = None] /\ got' = [got EXCEPT ![r] = None]
      /\ counted' = [counted EXCEPT ![r] = << >>] /\ logged' = [logged EXCEPT ![r] = << >>]
      /\ panics' = [panics EXCEPT ![r] = 0] /\ raised' = [raised EXCEPT ![r] = None]
      /\ reply' = [reply EXCEPT ![r] = rep] /\ body' = [body EXCEPT ![r] = bod]
  BY DEF Inv, Leave, Over
<1>2. /\ rep \in [status : Statuses, sent : Statuses \cup {None}, docs : Nat]
      /\ bod \in [head : Nat, left : Nat, quota : Nat \cup {None}]
  BY DEF Statuses
<1>3. 1 \in 1..Aborted /\ << >> \in Seq(Statuses)
  BY DEF Aborted
<1> HIDE DEF rep, bod
<1>4. /\ req'[r] = None /\ index'[r] = 1 /\ panic'[r] = None /\ got'[r] = None
      /\ counted'[r] = << >> /\ logged'[r] = << >> /\ panics'[r] = 0 /\ raised'[r] = None
      /\ reply'[r] = rep /\ body'[r] = bod /\ frames'[r] = << >>
  BY <1>1 DEF TypeOK
<1>5. StepOf(r)
  BY <1>1 DEF TypeOK, StepOf, Same
<1>6. Local(r)'
  BY <1>4 DEF Local, Serving, Vacant, rep, bod
<1>7. GaugeIsExact'
  <2>1. Height(r)' = Height(r)
    BY <1>1 DEF Height
  <2> QED
    BY <1>1, <1>5, <2>1, GaugeStays DEF Inv
<1>8. TypeOK'
  <2> HIDE DEF Aborted
  <2> QED
    BY <1>1, <1>2, <1>3 DEF TypeOK
<1> QED
  BY <1>5, <1>6, <1>7, <1>8, Lift

-----------------------------------------------------------------------------
(* Every step keeps the invariant. *)

CorsAnswers(r, status) ==
  /\ reply' = [reply EXCEPT ![r].status = status, ![r].sent = status]
  /\ index' = [index EXCEPT ![r] = Aborted]
  /\ UNCHANGED <<frames, panic>>

LEMMA CorsAnswerKeepsInv ==
  ASSUME Inv, NEW r \in Requests, NEW status \in Statuses, Calls(r, "Cors"), Told,
         CorsAnswers(r, status), body' = body, inflight' = inflight
  PROVE  Inv'
<1> DEFINE R == [Requests -> [status : Statuses, sent : Statuses \cup {None}, docs : Nat]]
           first == [reply EXCEPT ![r].status = status]
<1>1. /\ first \in R /\ first[r].status = status
      /\ \A s \in Requests \ {r} : first[s] = reply[s]
  <2>1. reply \in R
    BY DEF Inv, TypeOK
  <2> QED
    BY <2>1
<1>2. reply' = [first EXCEPT ![r].sent = status]
  BY DEF CorsAnswers
<1> HIDE DEF first
<1>3. /\ reply' \in R /\ reply'[r].sent = status /\ reply'[r].status = status
      /\ \A s \in Requests \ {r} : reply'[s] = reply[s]
  BY <1>1, <1>2
<1>4. index[r] >= 7
  <2>1. index[r] = 7
    BY CalledIs DEF Inv
  <2> QED
    BY <2>1
<1> QED
  BY <1>3, <1>4, RefusalKeepsInv DEF CorsAnswers

LEMMA RecordingKeepsInv ==
  ASSUME Inv, NEW r \in Requests, BodyLimit(r) \/ Logger(r) \/ Cors(r)
  PROVE  Inv'
<1>1. CASE BodyLimit(r)
  <2>1. Calls(r, "BodyLimit") /\ Told /\ inflight' = inflight
    BY <1>1 DEF BodyLimit, Told
  <2>2. CASE TooLong(r)
    <3>1. Refuses(r, 413) /\ body' = body /\ 413 \in Statuses
      BY <1>1, <2>2 DEF BodyLimit, TooLong, Statuses
    <3> QED
      BY <2>1, <2>2, <3>1, RefusesKeepsInv
  <2>3. CASE ~TooLong(r)
    <3>1. /\ Stays(r, "BodyLimit")
          /\ body' = [body EXCEPT ![r].quota = IF conf.maxBody > 0 THEN conf.maxBody ELSE None]
      BY <1>1, <2>3 DEF BodyLimit, TooLong
    <3> QED
      BY <2>1, <2>3, <3>1, BodyLimitKeepsInv
  <2> QED
    BY <2>2, <2>3
<1>2. CASE Logger(r)
  <2>1. Calls(r, "Logger") /\ Stays(r, "Logger") /\ Told /\ inflight' = inflight
    BY <1>2 DEF Logger, Told
  <2>2. CASE body' = body
    BY <2>1, <2>2, WrapsKeepsInv
  <2>3. CASE body' = [body EXCEPT ![r] = Joined(@)]
    BY <2>1, <2>3, LoggerKeepsInv
  <2> QED
    BY <1>2, <2>2, <2>3 DEF Logger
<1>3. CASE Cors(r)
  <2>1. Calls(r, "Cors") /\ Told /\ body' = body /\ inflight' = inflight
    BY <1>3 DEF Cors, Told
  <2>2. CASE Passes(r)
    BY <2>1, <2>2, CorsPassKeepsInv
  <2>3. CASE \E status \in {403, 204} : CorsAnswers(r, status)
    <3>1. PICK status \in Statuses : CorsAnswers(r, status)
      BY <2>3 DEF Statuses
    <3> QED
      BY <2>1, <3>1, CorsAnswerKeepsInv
  <2>4. Passes(r) \/ \E status \in {403, 204} : CorsAnswers(r, status)
    <3>1. CASE Passes(r)
      BY <3>1
    <3>2. CASE \E status \in CorsStatuses(req[r].route) :
                 CorsAnswers(r, status)
      BY <3>2 DEF CorsStatuses
    <3> QED
      BY <1>3, <3>1, <3>2 DEF Cors, CorsAnswers
  <2> QED
    BY <2>2, <2>3, <2>4
<1> QED
  BY <1>1, <1>2, <1>3

LEMMA GuardsKeepInv ==
  ASSUME Inv, NEW r \in Requests, RateLimit(r) \/ Auth(r)
  PROVE  Inv'
<1>1. PICK m \in {"RateLimit", "AuthLimit", "Auth"}, status \in {429, 401} :
        Calls(r, m) /\ (Stays(r, m) \/ Refuses(r, status))
  BY DEF RateLimit, Auth
<1>2. Told /\ body' = body /\ inflight' = inflight
  BY DEF RateLimit, Auth, Told
<1>3. status \in Statuses
  BY DEF Statuses
<1>4. index[r] >= 7
  <2>1. index[r] \in 1..Length(r) /\ index[r] >= 8 /\ Serving(r)
    BY <1>1, CalledIs DEF Inv
  <2>2. index[r] \in 1..100
    BY HeightIs DEF Inv
  <2> QED
    BY <2>1, <2>2
<1>5. CASE Stays(r, m)
  BY <1>1, <1>2, <1>5, WrapsKeepsInv
<1>6. CASE Refuses(r, status)
  BY <1>1, <1>2, <1>3, <1>4, <1>6, RefusesKeepsInv
<1> QED
  BY <1>1, <1>5, <1>6

LEMMA WrappersKeepInv ==
  ASSUME Inv, NEW r \in Requests,
         RequestID(r) \/ Metrics(r) \/ Recovery(r) \/ SecurityHeaders(r) \/ Timeout(r) \/ Handler(r)
  PROVE  Inv'
<1>1. CASE Metrics(r)
  BY <1>1, WrapsKeepsInv DEF Metrics, Told
<1>2. ASSUME NEW m \in {"RequestID", "Recovery", "SecurityHeaders", "Timeout", "Handler"},
             Wraps(r, m)
      PROVE  Inv'
  BY <1>2, WrapsKeepsInv DEF Wraps, Told
<1> QED
  BY <1>1, <1>2 DEF RequestID, Recovery, SecurityHeaders, Timeout, Handler

LEMMA NextKeepsInv == Inv /\ [Next]_vars => Inv'
<1> SUFFICES ASSUME Inv, [Next]_vars PROVE Inv'
  OBVIOUS
<1>1. ASSUME NEW r \in Requests,
        \/ Arrive(r) \/ RequestID(r) \/ Metrics(r) \/ BodyLimit(r) \/ Logger(r) \/ Recovery(r)
        \/ SecurityHeaders(r) \/ Cors(r) \/ RateLimit(r) \/ Timeout(r) \/ Auth(r) \/ Handler(r)
        \/ Bind(r) \/ Respond(r) \/ Panic(r) \/ Return(r) \/ Unwind(r) \/ Recover(r)
        \/ Finish(r) \/ Leave(r)
      PROVE Inv'
  BY <1>1, ArriveKeepsInv, RecordingKeepsInv, GuardsKeepInv, WrappersKeepInv, BindKeepsInv,
     RespondKeepsInv, PanicKeepsInv, ReturnKeepsInv, UnwindKeepsInv, RecoverKeepsInv,
     FinishKeepsInv, LeaveKeepsInv, Zenon
<1>2. CASE UNCHANGED vars
  <2>1. /\ conf' = conf /\ req' = req /\ index' = index /\ frames' = frames /\ panic' = panic
        /\ reply' = reply /\ body' = body /\ got' = got /\ inflight' = inflight
        /\ counted' = counted /\ logged' = logged /\ panics' = panics /\ raised' = raised
    BY <1>2 DEF vars, calls, told
  <2>2. TypeOK'
    BY <2>1 DEF Inv, TypeOK
  <2>3. ASSUME NEW s \in Requests PROVE Local(s)'
    BY <2>1, SameLocal DEF Inv, Same
  <2>4. Measured' = Measured
    BY <2>1 DEF Measured, Height
  <2> QED
    BY <2>1, <2>2, <2>3, <2>4 DEF Inv, GaugeIsExact
<1> QED
  BY <1>1, <1>2 DEF Next

LEMMA InitHasInv == Init => Inv
<1> SUFFICES ASSUME Init PROVE Inv
  OBVIOUS
<1>1. TypeOK
  <2>1. /\ conf \in [maxBody : BodyLimits, logBody : BOOLEAN]
        /\ req \in [Requests -> Traffic \cup {None}] /\ index \in [Requests -> 1..Aborted]
        /\ panic \in [Requests -> Panics \cup {None}]
        /\ got \in [Requests -> Nat \cup {TooLarge, None}] /\ inflight \in Nat
        /\ panics \in [Requests -> Nat]
        /\ raised \in [Requests -> [why : Panics, sent : Statuses \cup {None}] \cup {None}]
    BY DEF Init, Aborted
  <2>2. /\ frames \in [Requests -> Seq(Handlers)]
        /\ counted \in [Requests -> Seq(Statuses)] /\ logged \in [Requests -> Seq(Statuses)]
    BY DEF Init
  <2>3. /\ reply \in [Requests -> [status : Statuses, sent : Statuses \cup {None}, docs : Nat]]
        /\ body \in [Requests -> [head : Nat, left : Nat, quota : Nat \cup {None}]]
    BY DEF Init, Statuses
  <2> QED
    BY <2>1, <2>2, <2>3 DEF TypeOK
<1>2. ASSUME NEW r \in Requests PROVE Local(r) /\ Height(r) = 0
  BY DEF Init, Local, Serving, Vacant, Height
<1>3. Measured = {} /\ inflight = 0
  BY <1>2 DEF Measured, Init
<1>4. GaugeIsExact
  BY <1>3, FS_EmptySet DEF GaugeIsExact
<1> QED
  BY <1>1, <1>2, <1>4 DEF Inv

\* The invariant of a request on its way in and out holds throughout.
LEMMA InvHolds == Spec => []Inv
BY InitHasInv, NextKeepsInv, PTL DEF Spec

-----------------------------------------------------------------------------
(* What follows from it. *)

\* Every index stays in its chain or past it, every quota in its limit, and
\* every stack is one of handlers: the types of the pipeline's state.
THEOREM TypeCorrect == Spec => []TypeOK
<1>1. Inv => TypeOK
  BY DEF Inv
<1> QED
  BY <1>1, InvHolds, PTL

\* A request that is over is on its way out, and there is nothing on its stack.
LEMMA OverIs ==
  ASSUME Inv, NEW r \in Requests, Over(r)
  PROVE  Served(r) /\ WayOut(r) /\ Height(r) = 0
<1>1. Served(r) /\ Height(r) = 0
  BY HeightIs DEF Inv, Over, Local
<1>2. WayOut(r)
  <2>1. SUFFICES ASSUME ~WayOut(r) PROVE panic[r] = None /\ reply[r].sent = None
    BY DEF Over
  <2>2. reply[r] = [status |-> InitialStatus(req[r].route), sent |-> None, docs |-> 0]
    BY <1>1, <2>1 DEF Served, Untouched
  <2> QED
    BY <2>1, <2>2 DEF WayOut
<1> QED
  BY <1>1, <1>2

\* The gauge is the number of requests between the two ends of the metrics
\* middleware, and each request that is over has been counted and logged once,
\* under the status that its client was sent.
THEOREM EachRequestIsToldOnce == Spec => []TellsWhatWasSent
<1>1. ASSUME Inv, NEW r \in Requests PROVE InMetrics(r) <=> (Height(r) >= 2)
  <2>1. TypeOK /\ frames[r] \in Seq(Handlers) /\ Height(r) \in Nat
    BY <1>1, HeightIs DEF Inv
  <2>2. DOMAIN frames[r] = 1..Height(r)
    BY <2>1, LenProperties DEF Height
  <2>3. CASE Serving(r)
    <3>1. Stacked(r)
      BY <1>1, <2>3 DEF Inv, Local, Served
    <3>2. \A j \in 1..Height(r) : (frames[r][j] = "Metrics") <=> (j = 2)
      BY <2>1, <2>3, <3>1, FrameIs
    <3>3. InMetrics(r) <=> \E j \in 1..Height(r) : j = 2
      BY <2>2, <3>2 DEF InMetrics
    <3> QED
      BY <2>1, <3>3
  <2>4. CASE ~Serving(r)
    <3>1. frames[r] = << >>
      BY <1>1, <2>4 DEF Inv, Local, Vacant
    <3>2. Height(r) = 0
      BY <2>1, <3>1, HeightIs
    <3> QED
      BY <2>2, <3>2 DEF InMetrics
  <2> QED
    BY <2>3, <2>4
<1>2. ASSUME Inv PROVE inflight = Cardinality({r \in Requests : InMetrics(r)})
  <2>1. {r \in Requests : InMetrics(r)} = Measured
    BY <1>1, <1>2 DEF Measured
  <2> QED
    BY <1>2, <2>1 DEF Inv, GaugeIsExact
<1>3. ASSUME Inv, NEW r \in Requests, Over(r)
      PROVE  /\ Len(counted[r]) = 1
             /\ panic[r] = None => counted[r][1] = reply[r].sent
             /\ logged[r] = IF \/ req[r].route = "probe"
                               \/ conf.maxBody > 0 /\ req[r].declared /\ req[r].size > conf.maxBody
                              THEN << >> ELSE counted[r]
  <2>1. Served(r) /\ WayOut(r) /\ Height(r) = 0
    BY <1>3, OverIs
  <2>2. /\ counted[r] = <<reply[r].status>>
        /\ logged[r] = IF req[r].route # "probe" /\ ~TooLong(r) THEN <<reply[r].status>> ELSE << >>
        /\ reply[r].sent \in {None, reply[r].status}
    BY <2>1 DEF Served, ToldOnce
  <2>3. panic[r] = None => reply[r].sent # None
    BY <1>3 DEF Over
  <2>4. Len(counted[r]) = 1 /\ counted[r][1] = reply[r].status
    BY <2>2
  <2> QED
    BY <2>2, <2>3, <2>4 DEF TooLong
<1>4. Inv => TellsWhatWasSent
  BY <1>2, <1>3, Zenon DEF TellsWhatWasSent
<1> QED
  BY <1>4, InvHolds, PTL

\* A bug that panics raises the alarm once and leaves the client one document;
\* a silent abort gets through Recovery.
THEOREM PanicsAreAnswered == Spec => []PanicIsAnswered
<1>1. ASSUME Inv, NEW r \in Requests, Over(r), raised[r] # None
      PROVE  /\ panics[r] = IF raised[r].why = "bug" THEN 1 ELSE 0
             /\ raised[r].why = "bug" =>
                  /\ reply[r].docs = 1
                  /\ reply[r].sent = IF raised[r].sent = None THEN 500 ELSE raised[r].sent
             /\ raised[r].why = "abort" => panic[r] = "abort"
  <2>1. Served(r) /\ Height(r) = 0
    BY <1>1, OverIs
  <2>2. CASE panic[r] # None
    <3>1. /\ panic[r] = raised[r].why /\ panics[r] = 0
          /\ raised[r].why # "abort" => Height(r) >= 5
      BY <1>1, <2>1, <2>2 DEF Served, PanicInPlace
    <3> QED
      BY <2>1, <3>1
  <2>3. CASE panic[r] = None
    BY <1>1, <2>1, <2>3 DEF Served, PanicInPlace
  <2> QED
    BY <2>2, <2>3
<1>2. Inv => PanicIsAnswered
  BY <1>1, Zenon DEF PanicIsAnswered
<1> QED
  BY <1>2, InvHolds, PTL

\* A handler reads the body its client sent, whole and within the limit, or
\* answers 413, whatever Logger kept of it.
THEOREM BodiesArriveWhole == Spec => []BodyWhole
<1>1. ASSUME Inv, NEW r \in Requests, got[r] # None
      PROVE  IF got[r] = TooLarge
               THEN conf.maxBody > 0 /\ req[r].size > conf.maxBody /\ reply[r].sent = 413
               ELSE got[r] = req[r].size /\ (conf.maxBody > 0 => req[r].size <= conf.maxBody)
  <2>1. Serving(r)
    BY <1>1 DEF Inv, Local, Vacant
  <2> QED
    BY <1>1, <2>1 DEF Inv, Local, Served, BodyInPlace
<1>2. Inv => BodyWhole
  BY <1>1, Zenon DEF BodyWhole
<1> QED
  BY <1>2, InvHolds, PTL

\* A step leaves the stacks alone, calls one handler, or leaves one frame.
LEMMA StackMoves ==
  ASSUME NEW r \in Requests,
         \/ Arrive(r) \/ RequestID(r) \/ Metrics(r) \/ BodyLimit(r) \/ Logger(r) \/ Recovery(r)
         \/ SecurityHeaders(r) \/ Cors(r) \/ RateLimit(r) \/ Timeout(r) \/ Auth(r) \/ Handler(r)
         \/ Bind(r) \/ Respond(r) \/ Panic(r) \/ Return(r) \/ Unwind(r) \/ Recover(r)
         \/ Finish(r) \/ Leave(r)
  PROVE  \/ frames' = frames
         \/ \E m \in Handlers : Calls(r, m) /\ Stays(r, m)
         \/ frames[r] # << >> /\ Pop(r)
<1>1. CASE Arrive(r) \/ Respond(r) \/ Panic(r) \/ Finish(r) \/ Leave(r)
  BY <1>1 DEF Arrive, Respond, Panic, Finish, Leave, calls
<1>2. CASE Return(r) \/ Unwind(r) \/ Recover(r)
  BY <1>2, Zenon DEF Return, Unwind, Recover
<1>3. CASE Bind(r) \/ Cors(r)
  BY <1>3 DEF Bind, Cors, Refuses, Passes, calls
<1>4. CASE \/ RequestID(r) \/ Metrics(r) \/ Logger(r) \/ Recovery(r) \/ SecurityHeaders(r)
           \/ Timeout(r) \/ Handler(r)
  BY <1>4 DEF RequestID, Metrics, Logger, Recovery, SecurityHeaders, Timeout, Handler, Wraps,
              Handlers
<1>5. CASE BodyLimit(r) \/ RateLimit(r) \/ Auth(r)
  BY <1>5 DEF BodyLimit, RateLimit, Auth, Refuses, Handlers
<1> QED
  BY <1>1, <1>2, <1>3, <1>4, <1>5

\* Once a request is answered or has panicked, none of the handlers that are
\* left in its chain is called.
THEOREM AnsweredIsDone == Spec => NothingAfterTheAnswer
<1> DEFINE Quiet == \A r \in Requests : Len(frames'[r]) > Len(frames[r]) =>
                      reply[r].sent = None /\ raised[r] = None
<1>1. ASSUME Inv, NEW q \in Requests, NEW r \in Requests, Len(frames'[r]) > Len(frames[r]),
             \/ frames' = frames
             \/ \E m \in Handlers : Calls(q, m) /\ Stays(q, m)
             \/ frames[q] # << >> /\ Pop(q)
      PROVE  reply[r].sent = None /\ raised[r] = None
  <2>1. Height(r) \in Nat
    BY <1>1, HeightIs DEF Inv
  <2>2. CASE frames' = frames
    BY <1>1, <2>1, <2>2 DEF Height
  <2>3. CASE frames[q] # << >> /\ Pop(q)
    <3>1. /\ Height(q)' = Height(q) - 1 /\ Height(q) \in Nat
          /\ \A s \in Requests \ {q} : frames'[s] = frames[s]
      BY <1>1, <2>3, PopIs DEF Inv
    <3>2. ~(Height(r)' > Height(r))
      <4>1. CASE r = q
        BY <3>1, <4>1
      <4>2. CASE r # q
        <5>1. Height(r)' = Height(r)
          BY <3>1, <4>2 DEF Height
        <5> QED
          BY <2>1, <5>1
      <4> QED
        BY <4>1, <4>2
    <3> QED
      BY <1>1, <3>2 DEF Height
  <2>4. ASSUME NEW m, Calls(q, m), Stays(q, m)
        PROVE  reply[r].sent = None /\ raised[r] = None
    <3>1. CASE r = q
      <4>1. /\ reply[r] = [status |-> InitialStatus(req[r].route), sent |-> None, docs |-> 0]
            /\ raised[r] = None
        BY <1>1, <2>4, <3>1, HeightOnTheWayIn
      <4> QED
        BY <4>1
    <3>2. CASE r # q
      <4>1. frames'[r] = frames[r]
        BY <1>1, <2>4, <3>2 DEF Stays, Inv, TypeOK
      <4> QED
        BY <1>1, <2>1, <4>1 DEF Height
    <3> QED
      BY <3>1, <3>2
  <2> QED
    BY <1>1, <2>2, <2>3, <2>4
<1>2. ASSUME Inv, Next PROVE Quiet
  <2>1. PICK q \in Requests :
          \/ Arrive(q) \/ RequestID(q) \/ Metrics(q) \/ BodyLimit(q) \/ Logger(q) \/ Recovery(q)
          \/ SecurityHeaders(q) \/ Cors(q) \/ RateLimit(q) \/ Timeout(q) \/ Auth(q) \/ Handler(q)
          \/ Bind(q) \/ Respond(q) \/ Panic(q) \/ Return(q) \/ Unwind(q) \/ Recover(q)
          \/ Finish(q) \/ Leave(q)
    BY <1>2, Zenon DEF Next
  <2>2. \/ frames' = frames
        \/ \E m \in Handlers : Calls(q, m) /\ Stays(q, m)
        \/ frames[q] # << >> /\ Pop(q)
    BY <2>1, StackMoves
  <2> QED
    BY <1>1, <1>2, <2>2
<1>3. Inv /\ [Next]_vars => [Quiet]_vars
  BY <1>2
<1> QED
  BY <1>3, InvHolds, PTL DEF Spec, NothingAfterTheAnswer
=============================================================================
