--------------------------- MODULE ProcessProofs ---------------------------
(***************************************************************************)
(* Proofs about one process, from its configuration to its exit.           *)
(*                                                                         *)
(* Lifecycle, for any number of requests and signals and any delays: the   *)
(* inductive invariant says, for each place main can be in, who answers a  *)
(* signal, whether the server listens, what is released, and whether the   *)
(* load balancer can still be sending.                                     *)
(*                                                                         *)
(* Config and Migrate, for any files, variables and flags: the inductive   *)
(* invariant says, for each step of config.Load, which files the keys read *)
(* so far come from, what of the configuration is already checked, and,    *)
(* for a migration, which tables are dealt with.                           *)
(***************************************************************************)
EXTENDS Process, TLAPS, SequenceTheorems

Starting == {"database", "redis", "wire", "register"}
Shutting == {"drain", "sleep", "admin", "server", "wait"}
Leaving  == {"closeRedis", "closeDatabase", "exit"}

\* What a signal does depends on where main is, until app.Close.
HandlerByPlace ==
  /\ pc \in Starting \cup {"notify"} => handler = "default"
  /\ pc \in {"select", "stop"} => handler = "context"
  /\ pc \in Shutting => handler = "forced"

\* Main gets past its select by a signal only, and only one more is forced.
SignalsSeen ==
  /\ context => signals >= 1
  /\ pc \in {"stop", "notify"} \cup Shutting \/ handler = "forced" => context
  /\ forced \in {"told", "closing"} => signals >= 2

\* Redis goes first, then the database; the forced path closes both at once.
ReleasedByPlace ==
  /\ pc = "closeDatabase" => redis # "open"
  /\ pc \in {"exit", "exited"} \/ forced = "closing" => redis # "open" /\ db # "open"

\* The load balancer sends here, or a probe may yet make it.
MaySend == inService \/ checking

\* A server that has not listened yet has never been in service.
ListenerByPlace ==
  /\ pc \in Starting \cup Leaving \/ srvErr => listener # "open"
  /\ pc \in Starting \/ srvErr \/ listener = "none" => ~MaySend
  /\ pc = "wait" \/ Gone \/ exit = "ok" => listener = "closed"

\* The exit status is chosen when main leaves; only the end cuts requests off.
ExitByPlace ==
  /\ exit \in {"none", "killed"} \/ pc \in Leaving \cup {"exited"}
  /\ exit = "ok" => handler = "forced"
  /\ (\E r \in Requests : request[r] = "cut") => Gone

\* The drain delay outlasts the load balancer's last good probe: the one that is
\* under way when the drain begins is answered, and the next one is due, in time.
OutOfServiceInTime ==
  DrainOutlastsProbes =>
    /\ pc \in {"sleep", "admin", "server", "wait"} => draining
    /\ pc = "sleep" /\ MaySend => lbLeft < left
    /\ pc = "sleep" /\ checking => probeLeft < left
    /\ pc \in {"admin", "server", "wait"} \cup Leaving => ~MaySend
    /\ signals <= 1 /\ MaySend => listener = "open"

Inv ==
  /\ TypeOK /\ HandlerByPlace /\ SignalsSeen /\ ReleasedByPlace /\ ListenerByPlace
  /\ ExitByPlace /\ OutOfServiceInTime /\ CleanExitCutsNothing /\ NobodyIsRefused

-----------------------------------------------------------------------------
LEMMA InvInit == Init => Inv
<1> SUFFICES ASSUME Init PROVE Inv
  OBVIOUS
<1> USE TimesAreNumbers DEF Init, Starting, Shutting, Leaving, Gone
<1>1. TypeOK
  <2>1. request \in [Requests -> {"none", "running", "done", "refused", "cut"}]
    OBVIOUS
  <2>2. left \in 0..(IF DrainDelay > ShutdownTimeout THEN DrainDelay ELSE ShutdownTimeout)
    OBVIOUS
  <2>3. {srvErr, adminBusy, draining, context, inService, checking} \subseteq BOOLEAN
    BY Zenon
  <2> QED
    BY <2>1, <2>2, <2>3 DEF TypeOK
<1>2. HandlerByPlace /\ SignalsSeen /\ ReleasedByPlace /\ ListenerByPlace
  BY DEF HandlerByPlace, SignalsSeen, ReleasedByPlace, ListenerByPlace, MaySend
<1>3. ExitByPlace /\ OutOfServiceInTime /\ CleanExitCutsNothing /\ NobodyIsRefused
  BY DEF ExitByPlace, OutOfServiceInTime, DrainOutlastsProbes, MaySend, CleanExitCutsNothing, NobodyIsRefused
<1> QED
  BY <1>1, <1>2, <1>3 DEF Inv

LEMMA InvNext == Inv /\ [Next]_vars => Inv'
<1> SUFFICES ASSUME Inv, [Next]_vars PROVE Inv'
  OBVIOUS
<1> USE TimesAreNumbers
    DEF Inv, TypeOK, HandlerByPlace, SignalsSeen, ReleasedByPlace, ListenerByPlace, ExitByPlace,
        OutOfServiceInTime, DrainOutlastsProbes, MaySend, CleanExitCutsNothing, NobodyIsRefused,
        Gone, Starting, Shutting, Leaving
<1>1. CASE InitDatabase
  <2> USE <1>1 DEF InitDatabase, Main, Else, lbVars
  <2>1. TypeOK'
    OBVIOUS
  <2>2. HandlerByPlace'
    OBVIOUS
  <2>3. SignalsSeen'
    OBVIOUS
  <2>4. ReleasedByPlace'
    OBVIOUS
  <2>5. ListenerByPlace'
    OBVIOUS
  <2>6. ExitByPlace'
    OBVIOUS
  <2>7. OutOfServiceInTime'
    OBVIOUS
  <2>8. CleanExitCutsNothing'
    OBVIOUS
  <2>9. NobodyIsRefused'
    OBVIOUS
  <2> QED
    BY <2>1, <2>2, <2>3, <2>4, <2>5, <2>6, <2>7, <2>8, <2>9
<1>2. CASE InitRedis
  <2> USE <1>2 DEF InitRedis, Main, Else, lbVars
  <2>1. TypeOK'
    OBVIOUS
  <2>2. HandlerByPlace'
    OBVIOUS
  <2>3. SignalsSeen'
    OBVIOUS
  <2>4. ReleasedByPlace'
    OBVIOUS
  <2>5. ListenerByPlace'
    OBVIOUS
  <2>6. ExitByPlace'
    OBVIOUS
  <2>7. OutOfServiceInTime'
    OBVIOUS
  <2>8. CleanExitCutsNothing'
    OBVIOUS
  <2>9. NobodyIsRefused'
    OBVIOUS
  <2> QED
    BY <2>1, <2>2, <2>3, <2>4, <2>5, <2>6, <2>7, <2>8, <2>9
<1>3. CASE Wire
  <2> USE <1>3 DEF Wire, Main, Else, lbVars
  <2>1. TypeOK'
    OBVIOUS
  <2>2. HandlerByPlace'
    OBVIOUS
  <2>3. SignalsSeen'
    OBVIOUS
  <2>4. ReleasedByPlace'
    OBVIOUS
  <2>5. ListenerByPlace'
    OBVIOUS
  <2>6. ExitByPlace'
    OBVIOUS
  <2>7. OutOfServiceInTime'
    OBVIOUS
  <2>8. CleanExitCutsNothing'
    OBVIOUS
  <2>9. NobodyIsRefused'
    OBVIOUS
  <2> QED
    BY <2>1, <2>2, <2>3, <2>4, <2>5, <2>6, <2>7, <2>8, <2>9
<1>4. CASE Register
  BY <1>4 DEF Register, Main, Else, lbVars
<1>5. CASE ServerFailed
  <2> USE <1>5 DEF ServerFailed, Main, Else, lbVars
  <2>1. TypeOK'
    OBVIOUS
  <2>2. HandlerByPlace'
    OBVIOUS
  <2>3. SignalsSeen'
    OBVIOUS
  <2>4. ReleasedByPlace'
    OBVIOUS
  <2>5. ListenerByPlace'
    OBVIOUS
  <2>6. ExitByPlace'
    OBVIOUS
  <2>7. OutOfServiceInTime'
    OBVIOUS
  <2>8. CleanExitCutsNothing'
    OBVIOUS
  <2>9. NobodyIsRefused'
    OBVIOUS
  <2> QED
    BY <2>1, <2>2, <2>3, <2>4, <2>5, <2>6, <2>7, <2>8, <2>9
<1>6. CASE ShutdownSignal
  BY <1>6 DEF ShutdownSignal, Main, Else, lbVars
<1>7. CASE Stop
  BY <1>7 DEF Stop, Main, Else, lbVars
<1>8. CASE Notify
  BY <1>8 DEF Notify, Main, lbVars
<1>9. CASE Drain
  <2> USE <1>9 DEF Drain, Main, Else, lbVars
  <2>1. TypeOK'
    OBVIOUS
  <2>2. HandlerByPlace'
    OBVIOUS
  <2>3. SignalsSeen'
    OBVIOUS
  <2>4. ReleasedByPlace'
    OBVIOUS
  <2>5. ListenerByPlace'
    OBVIOUS
  <2>6. ExitByPlace'
    OBVIOUS
  <2>7. OutOfServiceInTime'
    <3>1. CASE DrainDelay = 0
      BY <3>1
    <3>2. CASE DrainDelay > 0
      <4>1. pc' = "sleep" /\ left' = DrainDelay /\ lbLeft <= ProbeInterval
        BY <3>2
      <4>2. draining'
        BY <3>2, Zenon
      <4> QED
        BY <4>1, <4>2
    <3> QED
      BY <3>1, <3>2
  <2>8. CleanExitCutsNothing'
    OBVIOUS
  <2>9. NobodyIsRefused'
    OBVIOUS
  <2> QED
    BY <2>1, <2>2, <2>3, <2>4, <2>5, <2>6, <2>7, <2>8, <2>9
<1>10. CASE DrainEnds
  BY <1>10 DEF DrainEnds, Main, Else, lbVars
<1>11. CASE ShutdownAdmin
  BY <1>11 DEF ShutdownAdmin, Main, Else, lbVars
<1>12. CASE ShutdownServer
  BY <1>12 DEF ShutdownServer, Main, Else, lbVars
<1>13. CASE ServerIdle
  BY <1>13 DEF ServerIdle, Main, Else, lbVars, Running, Idle
<1>14. CASE ShutdownTimesOut
  BY <1>14 DEF ShutdownTimesOut, Main, Else, lbVars, Running, Idle
<1>15. CASE CloseRedis
  BY <1>15 DEF CloseRedis, Main, Else, lbVars, Closed
<1>16. CASE CloseDatabase
  BY <1>16 DEF CloseDatabase, Main, Else, lbVars, Closed
<1>17. CASE Exit
  BY <1>17 DEF Exit, Main, lbVars, CutOff
<1>18. CASE Listen
  <2> USE <1>18 DEF Listen, lbVars
  <2>1. TypeOK'
    OBVIOUS
  <2>2. HandlerByPlace'
    OBVIOUS
  <2>3. SignalsSeen'
    OBVIOUS
  <2>4. ReleasedByPlace'
    OBVIOUS
  <2>5. ListenerByPlace'
    OBVIOUS
  <2>6. ExitByPlace'
    OBVIOUS
  <2>7. OutOfServiceInTime'
    OBVIOUS
  <2>8. CleanExitCutsNothing'
    OBVIOUS
  <2>9. NobodyIsRefused'
    OBVIOUS
  <2> QED
    BY <2>1, <2>2, <2>3, <2>4, <2>5, <2>6, <2>7, <2>8, <2>9
<1>19. CASE Signal
  <2> USE <1>19 DEF Signal, lbVars, CutOff
  <2>1. TypeOK'
    <3>1. signals' \in 0..MaxSignals
      OBVIOUS
    <3>2. CASE handler = "default"
      BY <3>1, <3>2
    <3>3. CASE handler = "context"
      BY <3>1, <3>3
    <3>4. CASE handler = "forced"
      BY <3>1, <3>4
    <3> QED
      BY <3>2, <3>3, <3>4
  <2>2. HandlerByPlace'
    OBVIOUS
  <2>3. SignalsSeen'
    OBVIOUS
  <2>4. ReleasedByPlace'
    OBVIOUS
  <2>5. ListenerByPlace'
    OBVIOUS
  <2>6. ExitByPlace'
    OBVIOUS
  <2>7. OutOfServiceInTime'
    OBVIOUS
  <2>8. CleanExitCutsNothing'
    OBVIOUS
  <2>9. NobodyIsRefused'
    OBVIOUS
  <2> QED
    BY <2>1, <2>2, <2>3, <2>4, <2>5, <2>6, <2>7, <2>8, <2>9
<1>20. CASE ForcedClose
  BY <1>20 DEF ForcedClose, lbVars, Closed
<1>21. CASE ForcedExit
  BY <1>21 DEF ForcedExit, lbVars, CutOff
<1>22. ASSUME NEW r \in Requests, Send(r) PROVE Inv'
  BY <1>22 DEF Send, mainVars, lbVars
<1>23. ASSUME NEW r \in Requests, Finish(r) PROVE Inv'
  BY <1>23 DEF Finish, mainVars, lbVars
<1>24. CASE Probe
  <2> USE <1>24 DEF Probe, mainVars, lbVars
  <2>1. TypeOK'
    OBVIOUS
  <2>2. HandlerByPlace'
    OBVIOUS
  <2>3. SignalsSeen'
    OBVIOUS
  <2>4. ReleasedByPlace'
    OBVIOUS
  <2>5. ListenerByPlace'
    OBVIOUS
  <2>6. ExitByPlace'
    OBVIOUS
  <2>7. OutOfServiceInTime'
    OBVIOUS
  <2>8. CleanExitCutsNothing'
    OBVIOUS
  <2>9. NobodyIsRefused'
    OBVIOUS
  <2> QED
    BY <2>1, <2>2, <2>3, <2>4, <2>5, <2>6, <2>7, <2>8, <2>9
<1>25. CASE Answer
  <2> USE <1>25 DEF Answer, mainVars, lbVars
  <2>1. TypeOK'
    <3>1. checking' = FALSE /\ probeLeft' = 0 /\ inService' \in BOOLEAN
      BY Zenon
    <3>2. {srvErr', adminBusy', draining', context', inService', checking'} \subseteq BOOLEAN
      BY <3>1, Zenon
    <3> QED
      BY <3>1, <3>2
  <2>2. HandlerByPlace'
    OBVIOUS
  <2>3. SignalsSeen'
    OBVIOUS
  <2>4. ReleasedByPlace'
    OBVIOUS
  <2>5. ListenerByPlace'
    OBVIOUS
  <2>6. ExitByPlace'
    OBVIOUS
  <2>7. OutOfServiceInTime'
    OBVIOUS
  <2>8. CleanExitCutsNothing'
    OBVIOUS
  <2>9. NobodyIsRefused'
    OBVIOUS
  <2> QED
    BY <2>1, <2>2, <2>3, <2>4, <2>5, <2>6, <2>7, <2>8, <2>9
<1>26. CASE Tick
  BY <1>26 DEF Tick, mainVars, lbVars, Less
<1>28. CASE Admin
  BY <1>28 DEF Admin, mainVars, lbVars
<1>27. CASE UNCHANGED vars
  BY <1>27 DEF vars, mainVars, lbVars
<1> QED
  BY <1>1, <1>2, <1>3, <1>4, <1>5, <1>6, <1>7, <1>8, <1>9, <1>10, <1>11, <1>12, <1>13, <1>14, <1>15, <1>16, <1>17, <1>18, <1>19, <1>20, <1>21, <1>22, <1>23, <1>24, <1>25, <1>26, <1>27, <1>28
  DEF Next, MainStep

LEMMA InvHolds == Spec => []Inv
BY InvInit, InvNext, PTL DEF Spec

-----------------------------------------------------------------------------
\* The type invariant of Lifecycle, for every value of the constants.
THEOREM TypeCorrect == Spec => []TypeOK
<1>1. Inv => TypeOK
  BY DEF Inv
<1> QED
  BY <1>1, InvHolds, PTL

\* Whatever fails while starting and whenever the signals come, also while
\* main is itself in app.Close, a process that ended of its own accord has
\* closed every pool the App was handed (Init, Close, the second signal).
THEOREM ResourcesAreReleased == Spec => []ResourcesReleased
<1>1. Inv => ResourcesReleased
  BY DEF Inv, TypeOK, ReleasedByPlace, ResourcesReleased
<1> QED
  BY <1>1, InvHolds, PTL

\* Exit status 0 is given only when every request had ended, however many
\* requests hang and whichever signals came during the shutdown.
THEOREM CleanExitIsTrue == Spec => []CleanExitCutsNothing
<1>1. Inv => CleanExitCutsNothing
  BY DEF Inv
<1> QED
  BY <1>1, InvHolds, PTL

\* With a drain delay longer than the load balancer's probe interval and than the
\* answer to a probe, and one signal, no request finds the listener closed: for
\* all delays, and with a probe under way when the drain begins (drain, Check).
THEOREM DrainingRefusesNobody == Spec => []NobodyIsRefused
<1>1. Inv => NobodyIsRefused
  BY DEF Inv
<1> QED
  BY <1>1, InvHolds, PTL

\* What one step of main, of a signal or of time does to the way out.
LEMMA MainGoesOn ==
  ASSUME Inv, MainStep
  PROVE  Position[pc'] > Position[pc] /\ WaitLeft' <= WaitLeft
<1>1. left \in Nat /\ DrainDelay \in Nat /\ ShutdownTimeout \in Nat
  BY TimesAreNumbers DEF Inv, TypeOK
<1> USE <1>1 DEF Main, Position, WaitLeft
<1>2. CASE InitDatabase \/ InitRedis \/ Wire
  BY <1>2 DEF InitDatabase, InitRedis, Wire
<1>3. CASE Register \/ ServerFailed \/ ShutdownSignal \/ Stop \/ Notify
  BY <1>3 DEF Register, ServerFailed, ShutdownSignal, Stop, Notify
<1>4. CASE Drain
  BY <1>4 DEF Drain
<1>5. CASE DrainEnds \/ ShutdownAdmin \/ ShutdownServer
  BY <1>5 DEF DrainEnds, ShutdownAdmin, ShutdownServer
<1>6. CASE ServerIdle \/ ShutdownTimesOut \/ CloseRedis \/ CloseDatabase \/ Exit
  BY <1>6 DEF ServerIdle, ShutdownTimesOut, CloseRedis, CloseDatabase, Exit
<1> QED
  BY <1>2, <1>3, <1>4, <1>5, <1>6 DEF MainStep

LEMMA ShutdownStepHolds == Inv /\ [Next]_vars => [ShutdownStep]_vars
<1> SUFFICES ASSUME Inv, Next PROVE ShutdownStep
  BY DEF ShutdownStep
<1>1. left \in Nat /\ DrainDelay \in Nat /\ ShutdownTimeout \in Nat
  BY TimesAreNumbers DEF Inv, TypeOK
<1>2. CASE MainStep
  <2>1. ~Tick
    BY <1>2, MainGoesOn DEF Tick, Position, Inv, TypeOK
  <2> QED
    BY <1>2, <2>1, MainGoesOn DEF ShutdownStep
<1>3. CASE Tick
  <2>1. pc' = pc /\ left' = IF left > 0 THEN left - 1 ELSE 0
    BY <1>3 DEF Tick, Less
  <2> QED
    BY <1>1, <2>1 DEF ShutdownStep, WaitLeft
<1>4. CASE ForcedExit
  <2>1. pc' = "exited" /\ left' = left /\ pc # "exited"
    BY <1>4 DEF ForcedExit, Gone
  <2>2. ~Tick
    BY <2>1 DEF Tick
  <2>3. Position[pc'] > Position[pc] /\ WaitLeft' <= WaitLeft
    BY <1>1, <2>1 DEF Position, WaitLeft, Inv, TypeOK
  <2> QED
    BY <2>2, <2>3 DEF ShutdownStep
<1>5. CASE pc' = pc /\ left' = left /\ ~Tick
  <2>1. WaitLeft' = WaitLeft /\ WaitLeft \in Nat
    BY <1>1, <1>5 DEF WaitLeft
  <2> QED
    BY <1>5, <2>1 DEF ShutdownStep
<1>6. MainStep \/ Tick \/ ForcedExit \/ (pc' = pc /\ left' = left)
  BY DEF Next, Listen, Signal, ForcedClose, Send, Finish, Probe, Answer, Admin, mainVars
<1> QED
  BY <1>2, <1>3, <1>4, <1>5, <1>6

\* What SignalEnds rests on, besides fairness: for any delays, requests and
\* signals main never goes back, and after a signal it waits no longer than
\* drain_delay and shutdown_timeout together (Run, shutdown).
THEOREM ShutdownStaysBounded == Spec => ShutdownIsBounded
BY ShutdownStepHolds, InvHolds, PTL DEF Spec, ShutdownIsBounded

-----------------------------------------------------------------------------
(***************************************************************************)
(* Config and Migrate.                                                     *)
(***************************************************************************)
\* Steps before the environment is known, and those after Unmarshal.
Unchecked == {"idle", "env", "refused"}
Decoded == {"validate", "loaded", "connect", "drop", "create", "done"}
Places == Unchecked \cup {"config", "overlay", "local", "bind"} \cup Decoded

\* The environment is the one asked for, in its normal spelling, and allowed.
EnvIsChecked ==
  step \notin Unchecked => env = Normal(asked.spelling) /\ env \in Envs

\* What viper holds: each key from the first of these files that sets it.
Holds(local, overlay) ==
  /\ DOMAIN viper = DOMAIN local \cup DOMAIN overlay \cup DOMAIN dir.config
  /\ \A k \in DOMAIN viper :
       viper[k] = IF k \in DOMAIN local THEN local[k]
                  ELSE IF k \in DOMAIN overlay THEN overlay[k] ELSE dir.config[k]

LocalFile == IF env = "prod" THEN << >> ELSE Says(dir.local)

FilesAreMerged ==
  /\ step = "overlay" => Readable(dir.config) /\ Holds(<< >>, << >>)
  /\ step = "local" => Readable(dir.config) /\ Holds(<< >>, Says(dir[env]))
  /\ step \in {"bind"} \cup Decoded => Readable(dir.config) /\ Holds(LocalFile, Says(dir[env]))
  /\ step \in {"local", "bind"} \cup Decoded /\ env = "prod" => Readable(dir.prod)

\* The configuration is decoded from what viper still holds, and validated.
Validated == Sound /\ (IsProd => Strict)
CfgIsDecoded ==
  /\ step \in Decoded => cfg = [k \in Keys |-> Value(k)] /\ Decodes
  /\ step \in Decoded \ {"validate"} => Validated

\* What was confirmed, and which models are still to drop or to create.
Suffix(i) == SubSeq(Models, i + 1, 3)
Prefix(i) == SubSeq(Models, 1, i)
TodoIsPart ==
  /\ step \in {"connect", "drop", "create", "done"} /\ command.drop => Confirmed
  /\ step = "drop" => command.drop /\ \E i \in 0..3 : todo = Prefix(i)
  /\ step = "create" => \E i \in 0..3 : /\ todo = Suffix(i)
                                        /\ {Models[j] : j \in 1..i} \subseteq tables[Target]

MigrateInv ==
  /\ MigrateTypeOK /\ step \in Places
  /\ EnvIsChecked /\ FilesAreMerged /\ CfgIsDecoded /\ TodoIsPart

-----------------------------------------------------------------------------
LEMMA KeysAre ==
  Keys = {"host", "name", "password", "secret", "mode", "origins", "addr", "pprof", "params",
          "quota"}
BY DEF Keys, Values

LEMMA DefaultsCoverKeys == DOMAIN Defaults = Keys
BY KeysAre DEF Defaults, Over, EnvOnlyKeys

LEMMA NothingIsSet == DOMAIN << >> = {}
OBVIOUS

LEMMA ModelsAre == /\ Models \in Seq(Tables) /\ Len(Models) = 3
                   /\ Tables = {Models[1], Models[2], Models[3]}
<1>1. DOMAIN Models = 1..3 /\ Len(Models) = 3 /\ Models \in [1..3 -> Tables]
  BY DEF Models, Tables
<1>2. Tables = {Models[i] : i \in 1..3}
  BY <1>1, Zenon DEF Tables
<1>3. Models \in Seq(Tables)
  <2>1. "users" \in Tables /\ "orders" \in Tables /\ "order_status_logs" \in Tables
    BY <1>1 DEF Models
  <2> QED
    BY <2>1 DEF Models
<1> QED
  BY <1>1, <1>2, <1>3

LEMMA MigrateInvInit == MigrateInit => MigrateInv
<1> SUFFICES ASSUME MigrateInit PROVE MigrateInv
  OBVIOUS
<1>1. ConfigTypeOK
  BY NothingIsSet DEF MigrateInit, ConfigInit, ConfigTypeOK, Spellings, Envs, Loaded
<1>2. MigrateTypeOK
  <2>1. command \in Commands
    BY CommandsAreFlags DEF MigrateInit
  <2>2. todo = SubSeq(Models, 1, 0) /\ 0 \in 0..Len(Models)
    BY ModelsAre, SubSeqEmpty DEF MigrateInit
  <2>3. tables \in [Databases -> SUBSET Tables]
    BY DEF MigrateInit
  <2>4. runs \in 0..MaxRuns
    BY MaxRunsIsNumber DEF MigrateInit
  <2> QED
    BY <1>1, <2>1, <2>2, <2>3, <2>4 DEF MigrateTypeOK
<1>3. step = "idle"
  BY DEF MigrateInit, ConfigInit
<1> QED
  BY <1>2, <1>3 DEF MigrateInv, Places, Unchecked, Decoded, EnvIsChecked, FilesAreMerged,
    CfgIsDecoded, TodoIsPart

-----------------------------------------------------------------------------
\* What a configuration is, while one is being loaded.
LEMMA NormalTyped ==
  ASSUME NEW s \in Spellings
  PROVE  Normal(s) \in Envs \cup {"production"}
BY DEF Spellings, Normal, Envs

LEMMA RunKeeps == MigrateInv /\ Run => MigrateInv'
<1> SUFFICES ASSUME MigrateInv, Run PROVE MigrateInv'
  OBVIOUS
<1>1. step' = "env" /\ UNCHANGED <<dir, env, viper, cfg>>
  BY DEF Run, Start
<1>2. asked' \in [spelling : Spellings, environ : Environs \cup {<< >>}]
  BY DEF Run, Start
<1>3. ConfigTypeOK'
  BY <1>1, <1>2 DEF MigrateInv, MigrateTypeOK, ConfigTypeOK, Loaded
<1>4. runs' \in 0..MaxRuns
  BY MaxRunsIsNumber DEF MigrateInv, MigrateTypeOK, Run
<1>5. command' \in Commands /\ UNCHANGED <<todo, tables>>
  BY DEF Run
<1>6. MigrateTypeOK'
  BY <1>3, <1>4, <1>5 DEF MigrateInv, MigrateTypeOK
<1> QED
  BY <1>1, <1>6 DEF MigrateInv, Places, Unchecked, Decoded, EnvIsChecked, FilesAreMerged,
    CfgIsDecoded, TodoIsPart

\* While loading, only the configuration moves.
LEMMA LoadingTyped ==
  ASSUME MigrateInv, ConfigTypeOK', UNCHANGED <<command, todo, tables, runs>>
  PROVE  MigrateTypeOK'
BY DEF MigrateInv, MigrateTypeOK

\* A process that refuses to start, or has ended, promises nothing.
LEMMA OutsideKeeps ==
  ASSUME MigrateTypeOK', step' \in Unchecked
  PROVE  MigrateInv'
BY DEF MigrateInv, Places, Unchecked, Decoded, EnvIsChecked, FilesAreMerged, CfgIsDecoded,
   TodoIsPart

LEMMA CheckEnvKeeps ==
  MigrateInv /\ CheckEnv /\ UNCHANGED <<command, todo, tables, runs>> => MigrateInv'
<1> SUFFICES ASSUME MigrateInv, CheckEnv, UNCHANGED <<command, todo, tables, runs>>
             PROVE  MigrateInv'
  OBVIOUS
<1>1. UNCHANGED <<dir, asked, viper, cfg>> /\ env' = Normal(asked.spelling)
  BY DEF CheckEnv, Go
<1>2. env' \in Envs \cup {"production"}
  BY <1>1, NormalTyped DEF MigrateInv, MigrateTypeOK, ConfigTypeOK
<1>3. \/ step' = "config" /\ env' \in Envs
      \/ step' = "refused"
  BY DEF CheckEnv, Go
<1>4. ConfigTypeOK'
  BY <1>1, <1>2, <1>3 DEF MigrateInv, MigrateTypeOK, ConfigTypeOK, Loaded
<1>5. MigrateTypeOK'
  BY <1>4, LoadingTyped
<1>6. CASE step' = "refused"
  BY <1>5, <1>6, OutsideKeeps DEF Unchecked
<1>7. CASE step' = "config" /\ env' \in Envs
  BY <1>1, <1>5, <1>7 DEF MigrateInv, Places, Unchecked, Decoded, EnvIsChecked,
    FilesAreMerged, CfgIsDecoded, TodoIsPart
<1> QED
  BY <1>3, <1>6, <1>7

LEMMA ReadConfigKeeps ==
  MigrateInv /\ ReadConfig /\ UNCHANGED <<command, todo, tables, runs>> => MigrateInv'
<1> SUFFICES ASSUME MigrateInv, ReadConfig, UNCHANGED <<command, todo, tables, runs>>
             PROVE  MigrateInv'
  OBVIOUS
<1>1. UNCHANGED <<dir, asked, env, cfg>> /\ step = "config"
  BY DEF ReadConfig, Go
<1>2. \/ step' = "overlay" /\ Readable(dir.config) /\ viper' = dir.config
      \/ step' = "refused" /\ viper' = viper
  BY DEF ReadConfig, Go
<1>3. MigrateTypeOK'
  <2>1. ConfigTypeOK'
    BY <1>1, <1>2 DEF MigrateInv, MigrateTypeOK, ConfigTypeOK, Loaded
  <2> QED
    BY <2>1, LoadingTyped
<1>4. CASE step' = "refused"
  BY <1>3, <1>4, OutsideKeeps DEF Unchecked
<1>5. CASE step' = "overlay" /\ Readable(dir.config) /\ viper' = dir.config
  <2>1. EnvIsChecked'
    BY <1>1, <1>5 DEF MigrateInv, EnvIsChecked, Unchecked
  <2>2. Holds(<< >>, << >>)'
    BY <1>1, <1>5, NothingIsSet DEF Holds
  <2>3. FilesAreMerged'
    BY <1>1, <1>5, <2>2 DEF FilesAreMerged, Decoded, Readable
  <2> QED
    BY <1>3, <1>5, <2>1, <2>3 DEF MigrateInv, Places, Decoded, CfgIsDecoded, TodoIsPart
<1> QED
  BY <1>2, <1>4, <1>5

\* Holds, for one more file on top.
LEMMA MergeEnvKeeps ==
  MigrateInv /\ MergeEnv /\ UNCHANGED <<command, todo, tables, runs>> => MigrateInv'
<1> SUFFICES ASSUME MigrateInv, MergeEnv, UNCHANGED <<command, todo, tables, runs>>
             PROVE  MigrateInv'
  OBVIOUS
<1>1. UNCHANGED <<dir, asked, env, cfg>> /\ step = "overlay"
  BY DEF MergeEnv, Go
<1>2. env \in Envs /\ Readable(dir.config) /\ Holds(<< >>, << >>)
  BY <1>1 DEF MigrateInv, EnvIsChecked, Unchecked, FilesAreMerged
<1>3. \/ step' = "local" /\ Readable(dir[env]) /\ viper' = Over(dir[env], viper)
      \/ step' = "local" /\ ~Readable(dir[env]) /\ env # "prod" /\ viper' = viper
      \/ step' = "refused" /\ viper' = viper
  BY DEF MergeEnv, Go
<1>4. MigrateTypeOK'
  <2>1. ConfigTypeOK'
    BY <1>1, <1>3 DEF MigrateInv, MigrateTypeOK, ConfigTypeOK, Loaded
  <2> QED
    BY <2>1, LoadingTyped
<1>5. CASE step' = "refused"
  BY <1>4, <1>5, OutsideKeeps DEF Unchecked
<1>6. CASE step' = "local"
  <2>1. EnvIsChecked'
    BY <1>1, <1>6 DEF MigrateInv, EnvIsChecked, Unchecked
  <2>2. DOMAIN viper = DOMAIN dir.config /\ \A k \in DOMAIN viper : viper[k] = dir.config[k]
    BY <1>2, NothingIsSet DEF Holds
  <2>3. Holds(<< >>, Says(dir[env]))'
    <3>1. CASE Readable(dir[env])
      BY <1>1, <1>3, <1>6, <2>2, <3>1, NothingIsSet DEF Holds, Says, Over
    <3>2. CASE ~Readable(dir[env])
      BY <1>1, <1>3, <1>6, <2>2, <3>2, NothingIsSet DEF Holds, Says
    <3> QED
      BY <3>1, <3>2
  <2>4. env = "prod" => Readable(dir.prod)
    BY <1>3, <1>6
  <2>5. FilesAreMerged'
    BY <1>1, <1>2, <1>6, <2>3, <2>4 DEF FilesAreMerged, Decoded, Readable
  <2> QED
    BY <1>4, <1>6, <2>1, <2>5 DEF MigrateInv, Places, Decoded, CfgIsDecoded, TodoIsPart
<1> QED
  BY <1>3, <1>5, <1>6

LEMMA MergeLocalKeeps ==
  MigrateInv /\ MergeLocal /\ UNCHANGED <<command, todo, tables, runs>> => MigrateInv'
<1> SUFFICES ASSUME MigrateInv, MergeLocal, UNCHANGED <<command, todo, tables, runs>>
             PROVE  MigrateInv'
  OBVIOUS
<1>1. UNCHANGED <<dir, asked, env, cfg>> /\ step = "local" /\ step' = "bind"
  BY DEF MergeLocal, Go
<1>2. /\ env \in Envs /\ Readable(dir.config) /\ Holds(<< >>, Says(dir[env]))
      /\ env = "prod" => Readable(dir.prod)
  BY <1>1 DEF MigrateInv, EnvIsChecked, Unchecked, FilesAreMerged
<1>3. viper' = IF env # "prod" /\ Readable(dir.local) THEN Over(dir.local, viper) ELSE viper
  BY DEF MergeLocal
<1>4. MigrateTypeOK'
  <2>1. ConfigTypeOK'
    BY <1>1 DEF MigrateInv, MigrateTypeOK, ConfigTypeOK, Loaded
  <2> QED
    BY <2>1, LoadingTyped
<1>5. EnvIsChecked'
  BY <1>1 DEF MigrateInv, EnvIsChecked, Unchecked
<1>6. Holds(LocalFile, Says(dir[env]))'
  <2>1. /\ DOMAIN viper = DOMAIN Says(dir[env]) \cup DOMAIN dir.config
        /\ \A k \in DOMAIN viper :
             viper[k] = IF k \in DOMAIN Says(dir[env]) THEN Says(dir[env])[k] ELSE dir.config[k]
    BY <1>2, NothingIsSet DEF Holds
  <2>2. CASE env # "prod" /\ Readable(dir.local)
    <3>1. LocalFile' = dir.local /\ Says(dir[env])' = Says(dir[env])
      BY <1>1, <2>2 DEF LocalFile, Says, Readable
    <3> QED
      BY <1>1, <1>3, <2>1, <2>2, <3>1 DEF Holds, Over
  <2>3. CASE ~(env # "prod" /\ Readable(dir.local))
    <3>1. LocalFile' = << >> /\ Says(dir[env])' = Says(dir[env])
      BY <1>1, <2>3 DEF LocalFile, Says, Readable
    <3> QED
      BY <1>1, <1>3, <2>1, <2>3, <3>1, NothingIsSet DEF Holds
  <2> QED
    BY <2>2, <2>3
<1>7. FilesAreMerged'
  BY <1>1, <1>2, <1>6 DEF FilesAreMerged, Decoded, Readable
<1> QED
  BY <1>1, <1>4, <1>5, <1>7 DEF MigrateInv, Places, Decoded, CfgIsDecoded, TodoIsPart

LEMMA UnmarshalKeeps ==
  MigrateInv /\ Unmarshal /\ UNCHANGED <<command, todo, tables, runs>> => MigrateInv'
<1> SUFFICES ASSUME MigrateInv, Unmarshal, UNCHANGED <<command, todo, tables, runs>>
             PROVE  MigrateInv'
  OBVIOUS
<1>1. UNCHANGED <<dir, asked, env, viper>> /\ step = "bind"
  BY DEF Unmarshal, Go
<1>2. \/ step' = "validate" /\ Decodes /\ cfg' = [k \in Keys |-> Value(k)]
      \/ step' = "refused" /\ cfg' = cfg
  BY DEF Unmarshal, Go
<1>3. cfg' # << >> => DOMAIN cfg' = Keys /\ \A k \in Keys : cfg'[k] \in Values[k]
  BY <1>2 DEF MigrateInv, MigrateTypeOK, ConfigTypeOK, Decodes
<1>4. ConfigTypeOK'
  BY <1>1, <1>2, <1>3 DEF MigrateInv, MigrateTypeOK, ConfigTypeOK, Loaded
<1>5. MigrateTypeOK'
  BY <1>4, LoadingTyped
<1>6. CASE step' = "refused"
  BY <1>5, <1>6, OutsideKeeps DEF Unchecked
<1>7. CASE step' = "validate" /\ Decodes /\ cfg' = [k \in Keys |-> Value(k)]
  <2>1. EnvIsChecked'
    BY <1>1, <1>7 DEF MigrateInv, EnvIsChecked, Unchecked
  <2>2. Holds(LocalFile, Says(dir[env]))'
    BY <1>1 DEF MigrateInv, FilesAreMerged, Holds, LocalFile, Says, Readable
  <2>3. FilesAreMerged'
    BY <1>1, <1>7, <2>2 DEF MigrateInv, FilesAreMerged, Decoded, Readable
  <2>4. Decodes' /\ cfg' = [k \in Keys |-> Value(k)]'
    BY <1>1, <1>7 DEF Decodes, Value, Bound
  <2>5. CfgIsDecoded'
    BY <1>7, <2>4, Zenon DEF CfgIsDecoded
  <2> QED
    BY <1>5, <1>7, <2>1, <2>3, <2>5 DEF MigrateInv, Places, Decoded, TodoIsPart
<1> QED
  BY <1>2, <1>6, <1>7

\* Once decoded, a step that leaves the configuration as it is keeps what is
\* known of it.
LEMMA SameConfig ==
  ASSUME MigrateInv, step \in Decoded, step' \in Decoded,
         UNCHANGED <<dir, asked, env, viper, cfg>>, Validated
  PROVE  /\ EnvIsChecked' /\ FilesAreMerged' /\ CfgIsDecoded'
         /\ cfg # << >> /\ env \in Envs
<1>1. EnvIsChecked' /\ env \in Envs
  BY DEF MigrateInv, EnvIsChecked, Unchecked, Decoded
<1>2. Holds(LocalFile, Says(dir[env]))'
  BY DEF MigrateInv, FilesAreMerged, Holds, LocalFile, Says, Readable
<1>3. FilesAreMerged'
  BY <1>2 DEF MigrateInv, FilesAreMerged, Decoded, Readable
<1>4. Decodes' /\ cfg' = [k \in Keys |-> Value(k)]'
  <2>1. Decodes /\ cfg = [k \in Keys |-> Value(k)]
    BY Zenon DEF MigrateInv, CfgIsDecoded
  <2> QED
    BY <2>1 DEF Decodes, Value, Bound
<1>5. Validated'
  BY DEF Validated, Sound, IsProd, Strict, isLoopbackAddr
<1>6. CfgIsDecoded'
  BY <1>4, <1>5, Zenon DEF CfgIsDecoded
<1>7. cfg # << >>
  <2>1. DOMAIN cfg = Keys
    BY <1>4
  <2> QED
    BY <2>1, KeysAre, NothingIsSet
<1> QED
  BY <1>1, <1>3, <1>6, <1>7

LEMMA ValidateKeeps ==
  MigrateInv /\ Validate /\ UNCHANGED <<command, todo, tables, runs>> => MigrateInv'
<1> SUFFICES ASSUME MigrateInv, Validate, UNCHANGED <<command, todo, tables, runs>>
             PROVE  MigrateInv'
  OBVIOUS
<1>1. UNCHANGED <<dir, asked, env, viper, cfg>> /\ step = "validate"
  BY DEF Validate, Go
<1>2. \/ step' = "loaded" /\ Validated
      \/ step' = "refused"
  BY DEF Validate, Validated, Go
<1>3. CASE step' = "refused"
  <2>1. ConfigTypeOK'
    BY <1>1, <1>3 DEF MigrateInv, MigrateTypeOK, ConfigTypeOK, Loaded
  <2> QED
    BY <1>3, <2>1, LoadingTyped, OutsideKeeps DEF Unchecked
<1>4. CASE step' = "loaded" /\ Validated
  <2>1. /\ EnvIsChecked' /\ FilesAreMerged' /\ CfgIsDecoded'
        /\ cfg # << >> /\ env \in Envs
    BY <1>1, <1>4, SameConfig DEF Decoded
  <2>2. ConfigTypeOK'
    BY <1>1, <2>1 DEF MigrateInv, MigrateTypeOK, ConfigTypeOK
  <2> QED
    BY <1>4, <2>1, <2>2, LoadingTyped DEF MigrateInv, Places, Decoded, TodoIsPart
<1> QED
  BY <1>2, <1>3, <1>4

\* The end of a process.
LEMMA ForgetKeeps ==
  ASSUME MigrateInv, Forget, todo' = todo \/ todo' = << >>, UNCHANGED <<command, tables, runs>>
  PROVE  MigrateInv'
<1>1. step' = "idle"
  BY DEF Forget
<1>2. ConfigTypeOK'
  BY NothingIsSet DEF MigrateInv, MigrateTypeOK, ConfigTypeOK, Forget, Loaded
<1>3. << >> = SubSeq(Models, 1, 0) /\ 0 \in 0..Len(Models)
  BY ModelsAre, SubSeqEmpty
<1>4. MigrateTypeOK'
  BY <1>2, <1>3 DEF MigrateInv, MigrateTypeOK
<1> QED
  BY <1>1, <1>4, OutsideKeeps DEF Unchecked

LEMMA LoadingKeeps == MigrateInv /\ Loading => MigrateInv'
BY CheckEnvKeeps, ReadConfigKeeps, MergeEnvKeeps, MergeLocalKeeps, UnmarshalKeeps,
   ValidateKeeps, ForgetKeeps DEF Loading, Load

LEMMA EndKeeps == MigrateInv /\ End => MigrateInv'
BY ForgetKeeps DEF End

-----------------------------------------------------------------------------
\* The database of a process that migrates.
LEMMA TargetIsDatabase ==
  ASSUME MigrateInv, step \in Decoded \ {"validate"}
  PROVE  Target \in Databases
<1>1. cfg = [k \in Keys |-> Value(k)] /\ Decodes /\ Sound
  BY Zenon DEF MigrateInv, CfgIsDecoded, Decoded, Validated
<1>2. cfg["host"] \in Values["host"] /\ cfg["name"] \in Values["name"]
  BY <1>1, KeysAre DEF Decodes
<1>3. Values["host"] = {"", "local", "live"} /\ Values["name"] = {"", "shop", "gin"}
  BY DEF Values
<1>4. cfg["host"] # "" /\ cfg["name"] # ""
  BY <1>1 DEF Sound
<1> QED
  BY <1>2, <1>3, <1>4 DEF Target, Databases

\* Which models a list holds, for each number done.
LEMMA PartsOfModels ==
  /\ \A i \in 0..3 : Len(Prefix(i)) = i /\ Len(Suffix(i)) = 3 - i
  /\ \A i \in 1..3 : Prefix(i)[i] = Models[i] /\ SubSeq(Prefix(i), 1, i - 1) = Prefix(i - 1)
  /\ \A i \in 0..2 : Head(Suffix(i)) = Models[i + 1] /\ Tail(Suffix(i)) = Suffix(i + 1)
  /\ Prefix(0) = << >> /\ Suffix(3) = << >>
  /\ Prefix(3) = Models /\ Suffix(0) = Models
<1>1. \A i \in 0..3 : Len(Prefix(i)) = i /\ Len(Suffix(i)) = 3 - i
  BY ModelsAre DEF Prefix, Suffix
<1>2. \A i \in 1..3 : Prefix(i)[i] = Models[i] /\ SubSeq(Prefix(i), 1, i - 1) = Prefix(i - 1)
  BY ModelsAre DEF Prefix
<1>3. \A i \in 0..2 : Head(Suffix(i)) = Models[i + 1] /\ Tail(Suffix(i)) = Suffix(i + 1)
  <2> SUFFICES ASSUME NEW i \in 0..2
               PROVE  Head(Suffix(i)) = Models[i + 1] /\ Tail(Suffix(i)) = Suffix(i + 1)
    OBVIOUS
  <2>1. i + 1 \in 1..Len(Models) /\ 3 \in i + 1 .. Len(Models)
    BY ModelsAre
  <2> QED
    BY <2>1, ModelsAre, HeadTailOfSubSeq DEF Suffix
<1>4. Prefix(0) = << >> /\ Suffix(3) = << >>
  BY SubSeqEmpty DEF Prefix, Suffix
<1>5. Prefix(3) = Models /\ Suffix(0) = Models
  <2>1. SubSeq(Models, 1, Len(Models)) = Models
    BY ModelsAre, SubSeqFull, Zenon
  <2> QED
    BY <2>1, ModelsAre DEF Prefix, Suffix
<1> QED
  BY <1>1, <1>2, <1>3, <1>4, <1>5, Zenon

\* A step between two places after the configuration is decoded and validated.
Proceeds(next) ==
  /\ step \in Decoded \ {"validate"} /\ step' = next
  /\ UNCHANGED <<dir, asked, env, viper, cfg, command, runs>>

LEMMA ProceedsKeeps ==
  ASSUME MigrateInv, NEW next \in Decoded \ {"validate"}, Proceeds(next)
  PROVE  /\ ConfigTypeOK' /\ step' \in Places /\ EnvIsChecked' /\ FilesAreMerged' /\ CfgIsDecoded'
         /\ Target' = Target /\ command' = command /\ runs' = runs
         /\ Confirmed' = Confirmed /\ Target \in Databases
<1>1. /\ EnvIsChecked' /\ FilesAreMerged' /\ CfgIsDecoded'
      /\ cfg # << >> /\ env \in Envs
  <2>1. /\ step \in Decoded /\ step' \in Decoded /\ step \in Decoded \ {"validate"}
        /\ UNCHANGED <<dir, asked, env, viper, cfg>>
    BY DEF Proceeds
  <2>2. Validated
    BY <2>1 DEF MigrateInv, CfgIsDecoded
  <2> QED
    BY <2>1, <2>2, SameConfig
<1>2. ConfigTypeOK'
  BY <1>1 DEF MigrateInv, MigrateTypeOK, ConfigTypeOK, Proceeds
<1>3. Target' = Target /\ Confirmed' = Confirmed
  BY DEF Proceeds, Target, Confirmed, IsProd
<1> QED
  BY <1>1, <1>2, <1>3, TargetIsDatabase DEF Proceeds, Places

LEMMA ProceedsTyped ==
  ASSUME MigrateInv, ConfigTypeOK', UNCHANGED <<command, runs>>,
         todo' = todo \/ \E i \in 0..3 : todo' = Prefix(i) \/ todo' = Suffix(i),
         tables' \in [Databases -> SUBSET Tables]
  PROVE  MigrateTypeOK'
<1>1. \E i \in 0..Len(Models) : \/ todo' = SubSeq(Models, 1, i)
                                \/ todo' = SubSeq(Models, i + 1, Len(Models))
  <2>1. CASE todo' = todo
    BY <2>1 DEF MigrateInv, MigrateTypeOK
  <2>2. CASE \E i \in 0..3 : todo' = Prefix(i) \/ todo' = Suffix(i)
    BY <2>2, ModelsAre, Zenon DEF Prefix, Suffix
  <2> QED
    BY <2>1, <2>2
<1> QED
  BY <1>1 DEF MigrateInv, MigrateTypeOK

\* Giving up leaves the configuration as it is.
LEMMA RefusalKeeps ==
  ASSUME MigrateInv, step' = "refused", tables' \in [Databases -> SUBSET Tables],
         UNCHANGED <<dir, asked, env, viper, cfg, command, todo, runs>>
  PROVE  MigrateInv'
<1>1. ConfigTypeOK'
  BY DEF MigrateInv, MigrateTypeOK, ConfigTypeOK, Loaded
<1>2. MigrateTypeOK'
  BY <1>1, ProceedsTyped
<1> QED
  BY <1>2, OutsideKeeps DEF Unchecked

LEMMA GuardKeeps == MigrateInv /\ Guard => MigrateInv'
<1> SUFFICES ASSUME MigrateInv, Guard PROVE MigrateInv'
  OBVIOUS
<1>1. /\ UNCHANGED <<dir, asked, env, viper, cfg, command, runs, todo, tables>>
      /\ step = "loaded"
      /\ \/ step' = "connect" /\ (command.drop => Confirmed)
         \/ step' = "refused"
  BY DEF Guard, Goes, Go
<1>2. tables' \in [Databases -> SUBSET Tables]
  BY <1>1 DEF MigrateInv, MigrateTypeOK
<1>3. CASE step' = "refused"
  BY <1>1, <1>2, <1>3, RefusalKeeps
<1>4. CASE step' = "connect" /\ (command.drop => Confirmed)
  <2>1. Proceeds("connect")
    BY <1>1, <1>4 DEF Proceeds, Decoded
  <2>2. /\ ConfigTypeOK' /\ step' \in Places /\ EnvIsChecked' /\ FilesAreMerged' /\ CfgIsDecoded'
        /\ Target' = Target /\ command' = command /\ Confirmed' = Confirmed
    BY <2>1, ProceedsKeeps DEF Decoded
  <2>3. MigrateTypeOK'
    BY <1>1, <1>2, <2>2, ProceedsTyped
  <2>4. TodoIsPart'
    BY <1>4, <2>2 DEF TodoIsPart
  <2> QED
    BY <2>2, <2>3, <2>4 DEF MigrateInv
<1> QED
  BY <1>1, <1>3, <1>4

LEMMA ConnectKeeps == MigrateInv /\ Connect => MigrateInv'
<1> SUFFICES ASSUME MigrateInv, Connect PROVE MigrateInv'
  OBVIOUS
<1>1. /\ UNCHANGED <<dir, asked, env, viper, cfg, command, runs, tables>>
      /\ step = "connect"
      /\ \/ step' = "drop" /\ command.drop /\ todo' = Models
         \/ step' = "create" /\ ~command.drop /\ todo' = Models
         \/ step' = "refused" /\ todo' = todo
  BY DEF Connect, Goes, Go
<1>2. tables' \in [Databases -> SUBSET Tables]
  BY <1>1 DEF MigrateInv, MigrateTypeOK
<1>3. CASE step' = "refused"
  BY <1>1, <1>2, <1>3, RefusalKeeps
<1>4. CASE step' \in {"drop", "create"}
  <2>1. Proceeds(step') /\ step' \in Decoded \ {"validate"}
    BY <1>1, <1>4 DEF Proceeds, Decoded
  <2>2. /\ ConfigTypeOK' /\ step' \in Places /\ EnvIsChecked' /\ FilesAreMerged' /\ CfgIsDecoded'
        /\ Target' = Target /\ command' = command /\ Confirmed' = Confirmed
    BY <2>1, ProceedsKeeps
  <2>3. todo' = Prefix(3) /\ todo' = Suffix(0)
    BY <1>1, <1>4, PartsOfModels
  <2>4. MigrateTypeOK'
    BY <1>1, <1>2, <2>2, <2>3, ProceedsTyped
  <2>5. command.drop => Confirmed
    BY <1>1 DEF MigrateInv, TodoIsPart
  <2>6. step' = "drop" => command.drop
    BY <1>1
  <2>7. {Models[j] : j \in 1..0} \subseteq tables[Target]
    OBVIOUS
  <2>8. TodoIsPart'
    <3>1. (step \in {"connect", "drop", "create", "done"} /\ command.drop => Confirmed)'
      BY <2>2, <2>5
    <3>2. (step = "drop" => command.drop /\ \E i \in 0..3 : todo = Prefix(i))'
      BY <2>2, <2>3, <2>6 DEF Prefix
    <3>3. (step = "create" => \E i \in 0..3 : /\ todo = Suffix(i)
                                             /\ {Models[j] : j \in 1..i} \subseteq tables[Target])'
      BY <1>1, <2>2, <2>3, <2>7 DEF Suffix
    <3> QED
      BY <3>1, <3>2, <3>3 DEF TodoIsPart
  <2> QED
    BY <2>2, <2>4, <2>8 DEF MigrateInv
<1> QED
  BY <1>1, <1>3, <1>4

LEMMA DropTableKeeps == MigrateInv /\ DropTable => MigrateInv'
<1> SUFFICES ASSUME MigrateInv, DropTable PROVE MigrateInv'
  OBVIOUS
<1>1. /\ UNCHANGED <<dir, asked, env, viper, cfg, command, runs>>
      /\ step = "drop" /\ todo # << >>
      /\ \/ /\ step' = "drop"
            /\ tables' = [tables EXCEPT ![Target] = @ \ {todo[Len(todo)]}]
            /\ todo' = SubSeq(todo, 1, Len(todo) - 1)
         \/ step' = "refused" /\ UNCHANGED <<todo, tables>>
  BY DEF DropTable, Goes, Go
<1>2. tables' \in [Databases -> SUBSET Tables]
  <2>1. tables \in [Databases -> SUBSET Tables]
    BY DEF MigrateInv, MigrateTypeOK
  <2> QED
    BY <1>1, <2>1
<1>3. CASE step' = "refused"
  BY <1>1, <1>2, <1>3, RefusalKeeps
<1>4. CASE step' = "drop"
  <2>1. Proceeds("drop")
    BY <1>1, <1>4 DEF Proceeds, Decoded
  <2>2. /\ ConfigTypeOK' /\ step' \in Places /\ EnvIsChecked' /\ FilesAreMerged' /\ CfgIsDecoded'
        /\ Target' = Target /\ command' = command /\ Confirmed' = Confirmed
    BY <2>1, ProceedsKeeps DEF Decoded
  <2>3. command.drop /\ Confirmed
    BY <1>1 DEF MigrateInv, TodoIsPart
  <2>4. PICK i \in 0..3 : todo = Prefix(i)
    BY <1>1 DEF MigrateInv, TodoIsPart
  <2>5. i \in 1..3
    <3>1. i # 0
      BY <1>1, <2>4, PartsOfModels
    <3> QED
      BY <3>1
  <2>6. todo' = Prefix(i - 1) /\ i - 1 \in 0..3
    <3>1. Len(todo) = i /\ SubSeq(Prefix(i), 1, i - 1) = Prefix(i - 1)
      BY <2>4, <2>5, PartsOfModels
    <3> QED
      BY <1>1, <1>4, <2>4, <2>5, <3>1
  <2>7. MigrateTypeOK'
    BY <1>1, <1>2, <2>2, <2>6, ProceedsTyped
  <2>8. TodoIsPart'
    BY <1>4, <2>2, <2>3, <2>6 DEF TodoIsPart, Prefix
  <2> QED
    BY <2>2, <2>7, <2>8 DEF MigrateInv
<1> QED
  BY <1>1, <1>3, <1>4

LEMMA DroppedKeeps == MigrateInv /\ Dropped => MigrateInv'
<1> SUFFICES ASSUME MigrateInv, Dropped PROVE MigrateInv'
  OBVIOUS
<1>1. /\ UNCHANGED <<dir, asked, env, viper, cfg, command, runs, tables>>
      /\ step = "drop" /\ step' = "create" /\ todo' = Models
  BY DEF Dropped, Goes, Go
<1>2. tables' \in [Databases -> SUBSET Tables]
  BY <1>1 DEF MigrateInv, MigrateTypeOK
<1>3. Proceeds("create")
  BY <1>1 DEF Proceeds, Decoded
<1>4. /\ ConfigTypeOK' /\ step' \in Places /\ EnvIsChecked' /\ FilesAreMerged' /\ CfgIsDecoded'
      /\ Target' = Target /\ command' = command /\ Confirmed' = Confirmed
  BY <1>3, ProceedsKeeps DEF Decoded
<1>5. todo' = Suffix(0)
  BY <1>1, PartsOfModels
<1>6. MigrateTypeOK'
  BY <1>1, <1>2, <1>4, <1>5, ProceedsTyped
<1>7. Confirmed
  BY <1>1 DEF MigrateInv, TodoIsPart
<1>8. {Models[j] : j \in 1..0} \subseteq tables'[Target']
  OBVIOUS
<1>9. TodoIsPart'
  BY <1>1, <1>4, <1>5, <1>7, <1>8 DEF TodoIsPart, Suffix
<1> QED
  BY <1>4, <1>6, <1>9 DEF MigrateInv

LEMMA AutoMigrateKeeps == MigrateInv /\ AutoMigrate => MigrateInv'
<1> SUFFICES ASSUME MigrateInv, AutoMigrate PROVE MigrateInv'
  OBVIOUS
<1>1. /\ UNCHANGED <<dir, asked, env, viper, cfg, command, runs>>
      /\ step = "create" /\ todo # << >>
      /\ \/ /\ step' = "create"
            /\ tables' = [tables EXCEPT ![Target] = @ \cup {Head(todo)}]
            /\ todo' = Tail(todo)
         \/ step' = "refused" /\ UNCHANGED <<todo, tables>>
  BY DEF AutoMigrate, Goes, Go
<1>2. tables \in [Databases -> SUBSET Tables]
  BY DEF MigrateInv, MigrateTypeOK
<1>3. CASE step' = "refused"
  BY <1>1, <1>2, <1>3, RefusalKeeps
<1>4. CASE step' = "create"
  <2>1. Proceeds("create")
    BY <1>1, <1>4 DEF Proceeds, Decoded
  <2>2. /\ ConfigTypeOK' /\ step' \in Places /\ EnvIsChecked' /\ FilesAreMerged' /\ CfgIsDecoded'
        /\ Target' = Target /\ command' = command /\ Confirmed' = Confirmed
        /\ Target \in Databases
    BY <2>1, ProceedsKeeps DEF Decoded
  <2>3. command.drop => Confirmed
    BY <1>1 DEF MigrateInv, TodoIsPart
  <2>4. PICK i \in 0..3 : /\ todo = Suffix(i)
                          /\ {Models[j] : j \in 1..i} \subseteq tables[Target]
    BY <1>1 DEF MigrateInv, TodoIsPart
  <2>5. i \in 0..2
    <3>1. i # 3
      BY <1>1, <2>4, PartsOfModels
    <3> QED
      BY <3>1
  <2>6. /\ todo' = Suffix(i + 1) /\ i + 1 \in 0..3
        /\ Head(todo) = Models[i + 1] /\ Models[i + 1] \in Tables
    <3>1. Head(Suffix(i)) = Models[i + 1] /\ Tail(Suffix(i)) = Suffix(i + 1)
      BY <2>5, PartsOfModels
    <3>2. Models[i + 1] \in Tables
      BY <2>5, ModelsAre
    <3> QED
      BY <1>1, <1>4, <2>4, <2>5, <3>1, <3>2
  <2>7. tables' = [tables EXCEPT ![Target] = @ \cup {Models[i + 1]}]
    BY <1>1, <1>4, <2>6
  <2>8. tables' \in [Databases -> SUBSET Tables]
    BY <1>2, <2>6, <2>7
  <2>9. MigrateTypeOK'
    BY <1>1, <2>2, <2>6, <2>8, ProceedsTyped
  <2>10. {Models[j] : j \in 1..i + 1} \subseteq tables'[Target]
    <3>1. tables'[Target] = tables[Target] \cup {Models[i + 1]}
      BY <1>2, <2>2, <2>7
    <3>2. {Models[j] : j \in 1..i + 1} = {Models[j] : j \in 1..i} \cup {Models[i + 1]}
      BY <2>5
    <3> QED
      BY <2>4, <3>1, <3>2
  <2>11. TodoIsPart'
    BY <1>4, <2>2, <2>3, <2>6, <2>10 DEF TodoIsPart, Suffix
  <2> QED
    BY <2>2, <2>9, <2>11 DEF MigrateInv
<1> QED
  BY <1>1, <1>3, <1>4

LEMMA CompletedKeeps == MigrateInv /\ Completed => MigrateInv'
<1> SUFFICES ASSUME MigrateInv, Completed PROVE MigrateInv'
  OBVIOUS
<1>1. /\ UNCHANGED <<dir, asked, env, viper, cfg, command, runs, tables, todo>>
      /\ step = "create" /\ step' = "done"
  BY DEF Completed, Goes, Go
<1>2. tables' \in [Databases -> SUBSET Tables]
  BY <1>1 DEF MigrateInv, MigrateTypeOK
<1>3. Proceeds("done")
  BY <1>1 DEF Proceeds, Decoded
<1>4. /\ ConfigTypeOK' /\ step' \in Places /\ EnvIsChecked' /\ FilesAreMerged' /\ CfgIsDecoded'
      /\ command' = command /\ Confirmed' = Confirmed
  BY <1>3, ProceedsKeeps DEF Decoded
<1>5. MigrateTypeOK'
  BY <1>1, <1>2, <1>4, ProceedsTyped
<1>6. command.drop => Confirmed
  BY <1>1 DEF MigrateInv, TodoIsPart
<1>7. TodoIsPart'
  BY <1>1, <1>4, <1>6 DEF TodoIsPart
<1> QED
  BY <1>4, <1>5, <1>7 DEF MigrateInv

LEMMA MigrateInvNext == MigrateInv /\ [MigrateNext]_migrateVars => MigrateInv'
<1> SUFFICES ASSUME MigrateInv, [MigrateNext]_migrateVars PROVE MigrateInv'
  OBVIOUS
<1>1. CASE MigrateNext
  BY <1>1, RunKeeps, LoadingKeeps, GuardKeeps, ConnectKeeps, DropTableKeeps, DroppedKeeps,
    AutoMigrateKeeps, CompletedKeeps, EndKeeps DEF MigrateNext
<1>2. CASE UNCHANGED migrateVars
  <2>1. UNCHANGED <<dir, asked, step, env, viper, cfg, command, todo, tables, runs>>
    BY <1>2 DEF migrateVars, configVars
  <2>2. MigrateTypeOK'
    BY <2>1 DEF MigrateInv, MigrateTypeOK, ConfigTypeOK, Loaded
  <2>3. EnvIsChecked'
    BY <2>1 DEF MigrateInv, EnvIsChecked
  <2>4. FilesAreMerged'
    BY <2>1 DEF MigrateInv, FilesAreMerged, Holds, LocalFile, Says, Readable
  <2>5. CfgIsDecoded'
    BY <2>1 DEF MigrateInv, CfgIsDecoded, Decodes, Value, Bound, Validated, Sound, IsProd, Strict,
      isLoopbackAddr
  <2>6. TodoIsPart'
    BY <2>1 DEF MigrateInv, TodoIsPart, Confirmed, IsProd, Target
  <2> QED
    BY <2>1, <2>2, <2>3, <2>4, <2>5, <2>6 DEF MigrateInv
<1> QED
  BY <1>1, <1>2

LEMMA MigrateInvHolds == MigrateSpec => []MigrateInv
BY MigrateInvInit, MigrateInvNext, PTL DEF MigrateSpec

-----------------------------------------------------------------------------
\* Whatever files and variables it was started with, a process decodes each key
\* to a value of its kind or does not run, and works on one database at a time
\* (config.Load; Migrate and Drop of cmd/migrate).
THEOREM MigrateTypeCorrect == MigrateSpec => []MigrateTypeOK
<1>1. MigrateInv => MigrateTypeOK
  BY DEF MigrateInv
<1> QED
  BY <1>1, MigrateInvHolds, PTL

\* The sources, one by one.
LEMMA SourcesAre ==
  /\ DOMAIN Sources = 1..6
  /\ Sources[1] = [k \in Variables |-> asked.environ[k]]
  /\ Sources[2] = LocalFile /\ Sources[3] = Says(dir[env]) /\ Sources[4] = Says(dir.config)
  /\ Sources[5] = [mode |-> "debug", origins |-> "*", addr |-> "loopback", pprof |-> "on",
                   params |-> "masked", quota |-> "positive"]
  /\ Sources[6] = [k \in Keys |-> ""]
BY DEF Sources, LocalFile

\* The first source that sets a key, whichever it is.
LEMMA FirstSource ==
  ASSUME NEW k, NEW i \in 1..6, k \in DOMAIN Sources[i], cfg[k] = Sources[i][k],
         \A j \in 1..i - 1 : k \notin DOMAIN Sources[j]
  PROVE  \E s \in DOMAIN Sources :
           /\ k \in DOMAIN Sources[s] /\ cfg[k] = Sources[s][k]
           /\ \A j \in 1..s - 1 : k \notin DOMAIN Sources[j]
BY SourcesAre

LEMMA ValuesFollowPriority == MigrateInv => FollowsPriority
<1> SUFFICES ASSUME MigrateInv, Loaded, NEW k \in Keys
             PROVE  \E i \in DOMAIN Sources :
                      /\ k \in DOMAIN Sources[i] /\ cfg[k] = Sources[i][k]
                      /\ \A j \in 1..i - 1 : k \notin DOMAIN Sources[j]
  BY DEF FollowsPriority
<1>1. step \in Decoded
  BY DEF MigrateInv, Places, Unchecked, Decoded, Loaded
<1>2. cfg[k] = Value(k)
  BY <1>1 DEF MigrateInv, CfgIsDecoded
<1>3. Readable(dir.config) /\ Holds(LocalFile, Says(dir[env]))
  BY <1>1 DEF MigrateInv, FilesAreMerged
<1>4. Says(dir.config) = dir.config
  BY <1>3 DEF Says
<1>5. Bound(k) <=> k \in Variables
  BY DefaultsCoverKeys DEF Bound, Variables
<1>6. /\ k \in DOMAIN Sources[1] <=> k \in Variables
      /\ k \in DOMAIN Sources[2] <=> k \in DOMAIN LocalFile
      /\ k \in DOMAIN Sources[3] <=> k \in DOMAIN Says(dir[env])
      /\ k \in DOMAIN Sources[4] <=> k \in DOMAIN dir.config
  BY <1>4, SourcesAre
<1>7. CASE k \in Variables
  <2>1. k \in DOMAIN Sources[1] /\ Sources[1][k] = asked.environ[k]
    BY <1>7, SourcesAre
  <2>2. cfg[k] = asked.environ[k]
    BY <1>2, <1>5, <1>7 DEF Value
  <2> QED
    BY <2>1, <2>2, FirstSource
<1>8. CASE k \notin Variables /\ k \in DOMAIN viper
  <2>1. cfg[k] = viper[k] /\ k \notin DOMAIN Sources[1]
    BY <1>2, <1>5, <1>8, SourcesAre DEF Value
  <2>2. CASE k \in DOMAIN LocalFile
    <3>1. k \in DOMAIN Sources[2] /\ cfg[k] = Sources[2][k]
      BY <1>3, <1>8, <2>1, <2>2, SourcesAre DEF Holds
    <3>2. \A j \in 1..2 - 1 : k \notin DOMAIN Sources[j]
      BY <2>1
    <3> QED
      BY <3>1, <3>2, FirstSource
  <2>3. CASE k \notin DOMAIN LocalFile /\ k \in DOMAIN Says(dir[env])
    <3>1. k \in DOMAIN Sources[3] /\ cfg[k] = Sources[3][k]
      BY <1>3, <1>8, <2>1, <2>3, SourcesAre DEF Holds
    <3>2. \A j \in 1..3 - 1 : k \notin DOMAIN Sources[j]
      BY <1>6, <1>8, <2>3
    <3> QED
      BY <3>1, <3>2, FirstSource
  <2>4. CASE k \notin DOMAIN LocalFile /\ k \notin DOMAIN Says(dir[env])
    <3>1. k \in DOMAIN dir.config /\ cfg[k] = dir.config[k]
      BY <1>3, <1>8, <2>1, <2>4 DEF Holds
    <3>2. k \in DOMAIN Sources[4] /\ cfg[k] = Sources[4][k]
      BY <1>4, <3>1, SourcesAre
    <3>3. \A j \in 1..4 - 1 : k \notin DOMAIN Sources[j]
      BY <1>6, <1>8, <2>4
    <3> QED
      BY <3>2, <3>3, FirstSource
  <2> QED
    BY <2>2, <2>3, <2>4
<1>9. CASE k \notin Variables /\ k \notin DOMAIN viper
  <2>1. cfg[k] = Defaults[k]
    BY <1>2, <1>5, <1>9, DefaultsCoverKeys DEF Value
  <2>2. \A j \in 1..4 : k \notin DOMAIN Sources[j]
    <3>1. /\ k \notin DOMAIN LocalFile /\ k \notin DOMAIN Says(dir[env])
          /\ k \notin DOMAIN dir.config
      BY <1>3, <1>9 DEF Holds
    <3> QED
      BY <1>6, <1>9, <3>1
  <2>3. CASE k \in EnvOnlyKeys
    <3>1. k \in DOMAIN Sources[6] /\ cfg[k] = Sources[6][k] /\ k \notin DOMAIN Sources[5]
      BY <2>1, <2>3, SourcesAre DEF Defaults, Over, EnvOnlyKeys
    <3>2. \A j \in 1..6 - 1 : k \notin DOMAIN Sources[j]
      BY <2>2, <3>1
    <3> QED
      BY <3>1, <3>2, FirstSource
  <2>4. CASE k \notin EnvOnlyKeys
    <3>1. k \in DOMAIN Sources[5] /\ cfg[k] = Sources[5][k]
      BY <2>1, <2>4, KeysAre, SourcesAre DEF Defaults, Over, EnvOnlyKeys
    <3>2. \A j \in 1..5 - 1 : k \notin DOMAIN Sources[j]
      BY <2>2
    <3> QED
      BY <3>1, <3>2, FirstSource
  <2> QED
    BY <2>3, <2>4
<1> QED
  BY <1>7, <1>8, <1>9

\* Every key of a process that runs has the value of the first source that sets
\* it, for any files and any variables (the comment of config.Load).
THEOREM PriorityIsFollowed == MigrateSpec => []FollowsPriority
BY ValuesFollowPriority, MigrateInvHolds, PTL

LEMMA InvGuardsProduction == MigrateInv => ProductionIsGuarded
<1> SUFFICES ASSUME MigrateInv, Loaded, ForProduction
             PROVE  /\ Readable(dir.prod)
                    /\ cfg.mode = "release" /\ cfg.origins = "listed"
                    /\ cfg.secret = "long" /\ cfg.password = "password"
                    /\ cfg.params = "masked"
                    /\ cfg.pprof = "off" \/ cfg.addr \in {"", "loopback"}
  BY DEF ProductionIsGuarded
<1>1. step \in Decoded \ {"validate"}
  BY DEF MigrateInv, Places, Unchecked, Decoded, Loaded
<1>2. env = "prod"
  BY <1>1 DEF MigrateInv, EnvIsChecked, Unchecked, Decoded, ForProduction, Normal, Envs
<1>3. Readable(dir.prod)
  BY <1>1, <1>2 DEF MigrateInv, FilesAreMerged
<1>4. Sound /\ Strict
  BY <1>1, <1>2 DEF MigrateInv, CfgIsDecoded, Validated, IsProd
<1>5. \A k \in Keys : cfg[k] \in Values[k]
  <2>1. Decodes /\ cfg = [k \in Keys |-> Value(k)]
    BY <1>1 DEF MigrateInv, CfgIsDecoded
  <2> QED
    BY <2>1 DEF Decodes
<1>6. /\ cfg["origins"] \in {"*", "listed"} /\ cfg["password"] \in {"", "password"}
      /\ cfg["secret"] \in {"", "changeme", "short", "long"} /\ cfg["pprof"] \in {"on", "off"}
  BY <1>5, KeysAre DEF Values
<1> QED
  BY <1>3, <1>4, <1>6 DEF Strict, isLoopbackAddr

\* What was started to be production, however that was spelled, runs under the
\* rules for production, for any files and any variables (Validate, IsProd).
THEOREM ProductionStaysGuarded == MigrateSpec => []ProductionIsGuarded
BY InvGuardsProduction, MigrateInvHolds, PTL

LEMMA OnlyDropsAreLosses ==
  ASSUME MigrateInv, MigrateNext, NEW d \in Databases, tables[d] \ tables'[d] # {}
  PROVE  step = "drop" /\ d = Target
<1>1. tables \in [Databases -> SUBSET Tables]
  BY DEF MigrateInv, MigrateTypeOK
<1>2. \/ tables' = tables
      \/ DropTable /\ tables' = [tables EXCEPT ![Target] = @ \ {todo[Len(todo)]}]
      \/ tables' = [tables EXCEPT ![Target] = @ \cup {Head(todo)}]
  BY DEF MigrateNext, Run, Loading, Guard, Connect, DropTable, Dropped, AutoMigrate, Completed, End
<1> QED
  BY <1>1, <1>2 DEF DropTable

LEMMA StepMigratesWhatWasNamed ==
  ASSUME MigrateInv, MigrateNext
  PROVE  /\ \A d \in Databases : tables[d] \ tables'[d] # {} =>
               command.drop /\ command.confirm = d[2] /\ ~ForProduction
         /\ step' = "done" => tables'[Target] = Tables
<1>1. ASSUME NEW d \in Databases, tables[d] \ tables'[d] # {}
      PROVE  command.drop /\ command.confirm = d[2] /\ ~ForProduction
  <2>1. step = "drop" /\ d = Target
    BY <1>1, OnlyDropsAreLosses
  <2>2. command.drop /\ Confirmed
    BY <2>1 DEF MigrateInv, TodoIsPart
  <2>3. ~ForProduction
    BY <2>1, <2>2 DEF MigrateInv, EnvIsChecked, Unchecked, Confirmed, IsProd, ForProduction, Normal,
      Envs
  <2> QED
    BY <2>1, <2>2, <2>3 DEF Confirmed, Target
<1>2. ASSUME step' = "done" PROVE tables'[Target] = Tables
  <2>1. Completed
    BY <1>2 DEF MigrateNext, Run, Start, Loading, Load, CheckEnv, ReadConfig, MergeEnv, MergeLocal,
      Unmarshal, Validate, Forget, Go, Goes, Guard, Connect, DropTable, Dropped, AutoMigrate, End
  <2>2. PICK i \in 0..3 : todo = Suffix(i) /\ {Models[j] : j \in 1..i} \subseteq tables[Target]
    BY <2>1 DEF Completed, MigrateInv, TodoIsPart
  <2>3. i = 3
    <3>1. Len(todo) = 3 - i /\ Len(todo) = 0
      BY <2>1, <2>2, PartsOfModels DEF Completed
    <3> QED
      BY <3>1
  <2>4. Tables \subseteq tables[Target]
    BY <2>2, <2>3, ModelsAre
  <2>5. tables[Target] \subseteq Tables
    BY <2>1, TargetIsDatabase DEF Completed, Goes, Decoded, MigrateInv, MigrateTypeOK
  <2> QED
    BY <2>1, <2>4, <2>5 DEF Completed
<1> QED
  BY <1>1, <1>2

\* For any files, variables and flags, and any number of processes killed
\* between any two statements: a table is lost only to a -drop that was given
\* the name of its database outside production, and a migration that says it
\* completed leaves every table there (Migrate, Drop and main of cmd/migrate).
THEOREM MigrationKeepsToItsName == MigrateSpec => MigratesWhatWasNamed
<1>1. MigrateInv /\ [MigrateNext]_migrateVars =>
        [/\ \A d \in Databases : tables[d] \ tables'[d] # {} =>
               command.drop /\ command.confirm = d[2] /\ ~ForProduction
         /\ step' = "done" => tables'[Target] = Tables]_migrateVars
  BY StepMigratesWhatWasNamed
<1> QED
  BY <1>1, MigrateInvHolds, PTL DEF MigrateSpec, MigratesWhatWasNamed

---------------------------------------------------------------------------
\* One process from its command line to its exit is both: whatever start is
\* followed, loading and migrating keep their promises beside a server that
\* comes up and shuts down, and the server keeps its own (run of cmd/server).
THEOREM WholeProcessIsSafe ==
  ProcessSpec => /\ MigrateSpec
                 /\ [](ResourcesReleased /\ CleanExitCutsNothing /\ NobodyIsRefused)
<1>1. ProcessInit => Init /\ MigrateInit
  BY DEF ProcessInit
<1>2. [ProcessNext]_processVars => [Next]_vars /\ [MigrateNext]_migrateVars
  BY DEF ProcessNext, Serves, processVars
<1>3. Inv => ResourcesReleased /\ CleanExitCutsNothing /\ NobodyIsRefused
  BY DEF Inv, TypeOK, ReleasedByPlace, ResourcesReleased
<1> QED
  BY <1>1, <1>2, <1>3, InvInit, InvNext, PTL DEF ProcessSpec, MigrateSpec
=============================================================================
