\* Two probes; the database may hang.  TTL and timeout are equal, as
\* bootstrap.go sets them.
SPECIFICATION LiveSpec
CONSTANTS
  Probes = {p1, p2}
  Deps = {db, redis}
  Hangs = {db}
  Timeout = 1
  TTL = 1
  Nobody = Nobody
INVARIANTS TypeOK
PROPERTIES BatchesApart ReadyIsRecent EveryProbeAnswered DrainTakesEffect
