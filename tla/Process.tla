------------------------------ MODULE Process ------------------------------
(***************************************************************************)
(* A process from its command line to its exit (run of cmd/server/main.go, *)
(* cmd/migrate/main.go): it loads its configuration, then migrates, or     *)
(* serves until it is told to stop.  Processes run one after the other.    *)
(*                                                                         *)
(* bootstrap.Init and Run ask the configuration only for what Lifecycle    *)
(* has as constants, so the life of one server is that of any other.  It   *)
(* is followed for one start; other servers just end.                      *)
(***************************************************************************)
EXTENDS Lifecycle, Migrate

CONSTANTS
  Directory,  \* bound: the configuration directory and
  Startup     \* the start of the one server whose life is followed

\* It is the first process, on tables that are there.
Serving ==
  /\ step = "loaded" /\ ~Migrates
  /\ dir = Directory /\ asked = Startup
  /\ runs = 1 /\ \A d \in Databases : tables[d] = Tables

ProcessInit == Init /\ MigrateInit

\* run: bootstrap.Init and app.Run once the configuration is loaded.
Serves(action) == Serving /\ action /\ UNCHANGED migrateVars

ProcessNext == Serves(Next) \/ (~Serving /\ MigrateNext /\ UNCHANGED vars)

processVars == <<vars, migrateVars>>

\* That of Lifecycle, once the server is there.
ProcessFairness ==
  /\ WF_processVars(Serves(MainStep)) /\ WF_processVars(Serves(Tick))
  /\ WF_processVars(Serves(Probe)) /\ WF_processVars(Serves(Answer))

ProcessSpec == ProcessInit /\ [][ProcessNext]_processVars /\ ProcessFairness
=============================================================================
