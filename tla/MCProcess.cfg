\* Two processes, one after the other.  The server that is followed serves two
\* requests and gets three signals; its drain delay is twice the probe interval,
\* as README.md recommends, and longer than an answer of /readyz, which takes
\* longer than the interval.
SPECIFICATION ProcessSpec
CONSTANTS
  Absent = Absent
  Malformed = Malformed
  Directories <- MCDirectories
  Environs <- MCEnvirons
  Commands <- MCCommands
  MaxRuns = 2
  Directory <- MCDirectory
  Startup <- MCStartup
  Requests = {r1, r2}
  DrainDelay = 4
  ShutdownTimeout = 2
  ProbeInterval = 2
  ProbeTime = 3
  MaxSignals = 3
INVARIANTS
  TypeOK ResourcesReleased CleanExitCutsNothing NobodyIsRefused
  MigrateTypeOK FollowsPriority ProductionIsGuarded
PROPERTIES
  SignalEnds
  MigratesWhatWasNamed
CHECK_DEADLOCK FALSE
