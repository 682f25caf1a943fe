------------------------------ MODULE Migrate ------------------------------
(***************************************************************************)
(* cmd/migrate, and the start of cmd/server, over config.Load: which       *)
(* database a process ends up with, and what -drop does to its tables.     *)
(*                                                                         *)
(* Each DROP TABLE and each CREATE TABLE commits on its own; any may fail, *)
(* and the process may be killed between two of them.  Processes run one   *)
(* after the other.                                                        *)
(***************************************************************************)
EXTENDS Config, Sequences

CONSTANTS
  Commands,  \* the programs and flags that are started
  MaxRuns    \* bound: processes in a behaviour

\* The flags of a server are not looked at.
ASSUME CommandsAreFlags ==
  /\ Commands \subseteq [program : {"server", "migrate"}, drop : BOOLEAN, confirm : Values.name]
  /\ Commands # {}
ASSUME MaxRunsIsNumber == MaxRuns \in Nat

Models == <<"users", "orders", "order_status_logs">>
Tables == {Models[i] : i \in DOMAIN Models}
Databases == {"local", "live"} \X {"shop", "gin"}

VARIABLES
  command,  \* the command line
  todo,     \* models still to drop or to create
  tables,   \* the tables of each database
  runs      \* processes so far

migrateVars == <<configVars, command, todo, tables, runs>>

MigrateInit ==
  /\ ConfigInit
  /\ command = CHOOSE c \in Commands : TRUE
  /\ todo = << >>
  /\ \E there \in {{}, Tables} : tables = [d \in Databases |-> there]
  /\ runs = 0

Run ==
  /\ runs < MaxRuns
  /\ runs' = runs + 1
  /\ command' \in Commands
  /\ Start
  /\ UNCHANGED <<todo, tables>>

Loading == Load /\ UNCHANGED <<command, todo, tables, runs>>

Migrates == command.program = "migrate"
Target == <<cfg.host, cfg.name>>

\* A step that leaves the configuration as it is.
Goes(next) == Go(next) /\ UNCHANGED <<env, viper, cfg, command, runs>>

\* Broken: the name is compared with that of the file.
ConfirmedByFile ==
  ~IsProd /\ command.confirm = IF "name" \in DOMAIN viper THEN viper["name"] ELSE ""

\* The name of the database, not its host, is what has to be confirmed.
Confirmed == ~IsProd /\ command.confirm = cfg.name

Guard ==
  /\ step = "loaded" /\ Migrates
  /\ Goes(IF command.drop => Confirmed THEN "connect" ELSE "refused")
  /\ UNCHANGED <<todo, tables>>

Connect ==
  /\ step = "connect"
  /\ \/ /\ Goes(IF command.drop THEN "drop" ELSE "create")
        /\ todo' = Models
     \/ Goes("refused") /\ UNCHANGED todo
  /\ UNCHANGED tables

\* gorm drops in the reverse order.
DropTable ==
  /\ step = "drop" /\ todo # << >>
  /\ \/ /\ tables' = [tables EXCEPT ![Target] = @ \ {todo[Len(todo)]}]
        /\ todo' = SubSeq(todo, 1, Len(todo) - 1)
        /\ Goes("drop")
     \/ Goes("refused") /\ UNCHANGED <<todo, tables>>

Dropped ==
  /\ step = "drop" /\ todo = << >>
  /\ Goes("create")
  /\ todo' = Models
  /\ UNCHANGED tables

\* A table that exists is brought up to date.
AutoMigrate ==
  /\ step = "create" /\ todo # << >>
  /\ \/ /\ tables' = [tables EXCEPT ![Target] = @ \cup {Head(todo)}]
        /\ todo' = Tail(todo)
        /\ Goes("create")
     \/ Goes("refused") /\ UNCHANGED <<todo, tables>>

Completed ==
  /\ step = "create" /\ todo = << >>
  /\ Goes("done")
  /\ UNCHANGED <<todo, tables>>

\* The server stops, the migration has ended, or either is killed.
End ==
  /\ Loaded
  /\ Forget
  /\ todo' = << >>
  /\ UNCHANGED <<command, tables, runs>>

MigrateNext ==
  \/ Run \/ Loading \/ Guard \/ Connect
  \/ DropTable \/ Dropped \/ AutoMigrate \/ Completed \/ End

MigrateSpec == MigrateInit /\ [][MigrateNext]_migrateVars

---------------------------------------------------------------------------
MigrateTypeOK ==
  /\ ConfigTypeOK
  /\ command \in Commands
  /\ \E i \in 0..Len(Models) : \/ todo = SubSeq(Models, 1, i)
                               \/ todo = SubSeq(Models, i + 1, Len(Models))
  /\ tables \in [Databases -> SUBSET Tables]
  /\ runs \in 0..MaxRuns

\* A table is lost only to a -drop that was given the name of the database it
\* was in, by a process not meant to be production; and a migration that says
\* it completed leaves every table there, whatever state an earlier one that
\* failed or was killed left behind.
MigratesWhatWasNamed ==
  [][/\ \A d \in Databases : tables[d] \ tables'[d] # {} =>
          command.drop /\ command.confirm = d[2] /\ ~ForProduction
     /\ step' = "done" => tables'[Target] = Tables]_migrateVars
=============================================================================
