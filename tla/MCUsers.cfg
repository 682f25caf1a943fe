\* Two sessions and two accounts.
SPECIFICATION Spec
CONSTANTS
  Sessions = {s1, s2}
  Names = {n1, n2}
  Emails = {e1, e2}
  Phones = {f1, f2}
  Passwords = {w1, w2}
  MaxUsers = 2
  None = None
SYMMETRY Symmetry
INVARIANTS TypeOK IdentitiesAreUnique
PROPERTIES ProfileKeepsIdentity
