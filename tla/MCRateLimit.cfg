\* Two callers, three clients and room for two buckets.
SPECIFICATION Spec
CONSTANTS
  Callers = {c1, c2}
  Clients = {i1, i2, i3}
  Rate = 1
  Burst = 3
  MaxBuckets = 2
  gcInterval = 1
  idleTTL = 4
  MaxStall = 1
  None = None
SYMMETRY Symmetry
INVARIANTS TypeOK
PROPERTIES AdmitsNoMore RefusesOnlyTheEmpty
