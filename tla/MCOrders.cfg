\* Two handlers, two keys, two numbers: every pair of requests races, both
\* keys can be taken, and both numbers, so that an INSERT collides.
CONSTANTS
  Handlers = {h1, h2}
  Users = {u1, u2}
  OrderIds = {1, 2}
  OrderNos = {n1, n2}
  None = None
SPECIFICATION Spec
SYMMETRY Symmetry
INVARIANTS
  TypeOK
  LogTellsStatus
  OneWinner
  PlacesAtMostOnce
  LocksDoNotChain
PROPERTIES
  OnlyOwnerActs
  ImplementsLedger
