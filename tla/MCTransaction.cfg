\* Two handlers over one connection; one of them nests and lets its context
\* escape, the other competes with it.
SPECIFICATION FairSpec
CONSTANTS
  Handlers = {h1, h2}
  Leaky = {h1}
  Nesting = {h1}
  Conns = 1
  MaxWrites = 2
INVARIANTS TypeOK
PROPERTIES KeepsPromiseButStrands LateStatementsStandAlone ConnectionGranted
