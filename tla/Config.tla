------------------------------- MODULE Config -------------------------------
(***************************************************************************)
(* config.Load and Validate of internal/config: from the spelling of the   *)
(* environment, the files of the configuration directory and the APP_      *)
(* variables to a configuration, or to a process that refuses to start.    *)
(*                                                                         *)
(* One key stands for each way a key is declared and checked: an           *)
(* enumeration (mode), a number that must be positive (quota), the keys    *)
(* without a default of their own, and each key with a rule for            *)
(* production.  A value stands for those Validate does not tell apart.     *)
(* The files may set keys the program does not know; they do not change    *)
(* while they are read.                                                    *)
(***************************************************************************)
EXTENDS Naturals

CONSTANTS
  Directories,  \* what the configuration directory can hold
  Environs,     \* what the APP_ variables can hold
  Absent,       \* a file that does not exist,
  Malformed     \* and one that is not YAML

Envs == {"dev", "test", "prod"}
Spellings == Envs \cup {"", " Prod", "production"}

Values == [
  host |-> {"", "local", "live"},
  name |-> {"", "shop", "gin"},
  password |-> {"", "password"},
  secret |-> {"", "changeme", "short", "long"},
  mode |-> {"debug", "test", "release", "verbose"},
  origins |-> {"*", "listed"},
  addr |-> {"", "loopback", "all", "garbled"},
  pprof |-> {"on", "off"},
  params |-> {"masked", "logged"},
  quota |-> {"positive", "zero"}]
Keys == DOMAIN Values

Readable(file) == file \notin {Absent, Malformed}

VARIABLES
  dir,      \* the files: config, dev, test, prod and local
  asked,    \* how the process was started
  step,     \* where it is
  env,      \* Config.Env
  viper,    \* what the files set so far
  cfg       \* the configuration

configVars == <<dir, asked, step, env, viper, cfg>>

ConfigInit ==
  /\ dir \in Directories
  /\ asked = [spelling |-> "", environ |-> << >>]
  /\ step = "idle"
  /\ env = ""
  /\ viper = << >>
  /\ cfg = << >>

Start ==
  /\ step = "idle"
  /\ step' = "env"
  /\ asked' \in [spelling : Spellings, environ : Environs]
  /\ UNCHANGED <<dir, env, viper, cfg>>

Go(next) == step' = next /\ UNCHANGED <<dir, asked>>

\* Broken: an unknown name is taken for a deployment without a file.
NormalLenient(spelling) ==
  CASE spelling = " Prod" -> "prod"
    [] spelling \in Envs -> spelling
    [] OTHER -> "dev"

\* Trimmed and in lower case; nothing said means dev.
Normal(spelling) ==
  CASE spelling = " Prod" -> "prod"
    [] spelling = "" -> "dev"
    [] OTHER -> spelling

CheckEnv ==
  /\ step = "env"
  /\ env' = Normal(asked.spelling)
  /\ Go(IF env' \in Envs THEN "config" ELSE "refused")
  /\ UNCHANGED <<viper, cfg>>

\* What viper does with one more file: it sets its keys and leaves the others.
Over(top, below) ==
  [k \in DOMAIN top \cup DOMAIN below |-> IF k \in DOMAIN top THEN top[k] ELSE below[k]]

ReadConfig ==
  /\ step = "config"
  /\ IF Readable(dir.config)
       THEN viper' = dir.config /\ Go("overlay")
       ELSE Go("refused") /\ UNCHANGED viper
  /\ UNCHANGED <<env, cfg>>

\* Outside production a file that is malformed is taken for one that is absent.
MergeEnv ==
  /\ step = "overlay"
  /\ IF Readable(dir[env])
       THEN viper' = Over(dir[env], viper) /\ Go("local")
       ELSE Go(IF env = "prod" THEN "refused" ELSE "local") /\ UNCHANGED viper
  /\ UNCHANGED <<env, cfg>>

MergeLocal ==
  /\ step = "local"
  /\ viper' = IF env # "prod" /\ Readable(dir.local) THEN Over(dir.local, viper) ELSE viper
  /\ Go("bind")
  /\ UNCHANGED <<env, cfg>>

\* Broken: a key is forgotten in envOnlyKeys.
EnvOnlyKeysSome == {"host", "name", "secret"}

EnvOnlyKeys == {"host", "name", "password", "secret"}

Defaults ==
  Over([mode |-> "debug", origins |-> "*", addr |-> "loopback", pprof |-> "on",
        params |-> "masked", quota |-> "positive"], [k \in EnvOnlyKeys |-> ""])

\* BindEnv reaches the keys viper knows, and an empty variable counts as none.
Bound(k) ==
  /\ k \in DOMAIN viper \cup DOMAIN Defaults
  /\ k \in DOMAIN asked.environ /\ asked.environ[k] # ""

Value(k) ==
  CASE Bound(k) -> asked.environ[k]
    [] ~Bound(k) /\ k \in DOMAIN viper -> viper[k]
    [] ~Bound(k) /\ k \in DOMAIN Defaults \ DOMAIN viper -> Defaults[k]
    [] OTHER -> ""

Decodes == \A k \in Keys : Value(k) \in Values[k]

\* Broken: a value that does not parse is left for later.
UnmarshalLenient ==
  /\ step = "bind"
  /\ cfg' = [k \in Keys |-> Value(k)]
  /\ Go("validate")
  /\ UNCHANGED <<env, viper>>

Unmarshal ==
  /\ step = "bind"
  /\ IF Decodes
       THEN cfg' = [k \in Keys |-> Value(k)] /\ Go("validate")
       ELSE Go("refused") /\ UNCHANGED cfg
  /\ UNCHANGED <<env, viper>>

IsProd == env = "prod"

\* Rules for every environment.
Sound ==
  /\ cfg.mode \in {"debug", "release", "test"}
  /\ cfg.host # "" /\ cfg.name # ""
  /\ cfg.quota = "positive"
  /\ cfg.secret \notin {"", "changeme"}

\* An address without a host listens on every interface.
isLoopbackAddr == cfg.addr = "loopback"

\* Rules for production.
Strict ==
  /\ cfg.mode = "release"
  /\ cfg.secret \notin {"", "changeme", "short"}
  /\ cfg.password # ""
  /\ cfg.origins # "*"
  /\ cfg.pprof = "on" /\ cfg.addr # "" => isLoopbackAddr
  /\ cfg.params = "masked"

Validate ==
  /\ step = "validate"
  /\ Go(IF Sound /\ (IsProd => Strict) THEN "loaded" ELSE "refused")
  /\ UNCHANGED <<env, viper, cfg>>

\* The process is over, and the next one knows nothing of it.
Forget ==
  /\ step' = "idle"
  /\ env' = ""
  /\ viper' = << >>
  /\ cfg' = << >>
  /\ UNCHANGED <<dir, asked>>

Load ==
  \/ CheckEnv \/ ReadConfig \/ MergeEnv \/ MergeLocal \/ Unmarshal \/ Validate
  \/ step = "refused" /\ Forget

---------------------------------------------------------------------------
\* Loading is over, and the program runs with cfg.
Loaded ==
  step \notin {"idle", "env", "config", "overlay", "local", "bind", "validate", "refused"}

ConfigTypeOK ==
  /\ dir \in Directories
  /\ asked \in [spelling : Spellings, environ : Environs \cup {<< >>}]
  /\ env \in Envs \cup {"", "production"}
  /\ cfg # << >> => DOMAIN cfg = Keys /\ \A k \in Keys : cfg[k] \in Values[k]
  /\ Loaded => env \in Envs /\ cfg # << >>

\* The sources of a value, the one that counts most first.
Says(file) == IF Readable(file) THEN file ELSE << >>
Variables == {k \in DOMAIN asked.environ : asked.environ[k] # ""}
Sources ==
  << [k \in Variables |-> asked.environ[k]],
     IF env = "prod" THEN << >> ELSE Says(dir.local),
     Says(dir[env]),
     Says(dir.config),
     [mode |-> "debug", origins |-> "*", addr |-> "loopback", pprof |-> "on",
      params |-> "masked", quota |-> "positive"],
     [k \in Keys |-> ""] >>

\* Every key has the value of the first source that sets it, as the comment of
\* Load promises: an APP_ variable is heard whether or not a file mentions its
\* key, and config.local.yaml is not heard in production.
FollowsPriority ==
  Loaded =>
    \A k \in Keys : \E i \in DOMAIN Sources :
      /\ k \in DOMAIN Sources[i] /\ cfg[k] = Sources[i][k]
      /\ \A j \in 1..i - 1 : k \notin DOMAIN Sources[j]

\* What was started to be production, however that was spelled, runs under the
\* rules for production with the file for production, or does not run: no
\* variable and no file takes it out of them (Load, Validate, IsProd).
ForProduction == asked.spelling \in {"prod", " Prod", "production"}
ProductionIsGuarded ==
  Loaded /\ ForProduction =>
    /\ Readable(dir.prod)
    /\ cfg.mode = "release" /\ cfg.origins = "listed"
    /\ cfg.secret = "long" /\ cfg.password = "password"
    /\ cfg.params = "masked"
    /\ cfg.pprof = "off" \/ cfg.addr \in {"", "loopback"}
=============================================================================
