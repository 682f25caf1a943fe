----------------------------- MODULE MCProcess -----------------------------
\* Starting a process, with the inputs given here: one configuration that is
\* complete for each environment, and deviations from it.
EXTENDS Process, TLC

Complete == [host |-> "local", name |-> "gin", password |-> "", secret |-> "short"]
Production == [mode |-> "release", origins |-> "listed", pprof |-> "off"]
Local == [host |-> "local", name |-> "shop", secret |-> "short", mode |-> "debug",
          misspelt |-> "on"]

Files(config, prod, local) ==
  [config |-> config, dev |-> Absent, test |-> [mode |-> "test"], prod |-> prod, local |-> local]

MCDirectories ==
  { Files(Complete, Production, Absent),
    Files(Complete, Absent, Local),
    Files(Complete, Malformed, Malformed),
    Files([host |-> "local"], Production, Local),
    Files(Malformed, Production, Local) }
    \cup {Files(Complete, Production @@ deviation, Local) :
            deviation \in {[params |-> "logged"], [quota |-> "zero"]}}

Injected == [host |-> "live", name |-> "gin", password |-> "password", secret |-> "long"]

MCEnvirons ==
  { << >>, Injected, [host |-> "live"], [name |-> "shop", secret |-> ""],
    Injected @@ [mode |-> "debug"], Injected @@ [mode |-> "verbose"],
    Injected @@ [origins |-> "*"], Injected @@ [quota |-> "many"],
    Injected @@ [pprof |-> "on", addr |-> "all"] }

\* The server that is followed is one in production.
MCDirectory == Files(Complete, Production, Absent)
MCStartup == [spelling |-> " Prod", environ |-> Injected]

MCCommands ==
  { [program |-> "server", drop |-> FALSE, confirm |-> ""],
    [program |-> "migrate", drop |-> FALSE, confirm |-> ""],
    [program |-> "migrate", drop |-> TRUE, confirm |-> ""],
    [program |-> "migrate", drop |-> TRUE, confirm |-> "gin"] }
=============================================================================
