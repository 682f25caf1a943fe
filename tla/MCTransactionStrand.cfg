\* The instance of MCTransaction.cfg against the promise without its exception.
SPECIFICATION FairSpec
CONSTANTS
  Handlers = {h1, h2}
  Leaky = {h1}
  Nesting = {h1}
  Conns = 1
  MaxWrites = 2
PROPERTIES KeepsPromise
