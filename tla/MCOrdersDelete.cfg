\* Two handlers race on one order of one user: one pays, the other deletes.
CONSTANTS
  Handlers = {h1, h2}
  Users = {u1}
  OrderIds = {1}
  OrderNos = {n1}
  None = None
SPECIFICATION Spec
PROPERTIES
  DeletesOnlyDeletable
