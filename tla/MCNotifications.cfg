CONSTANTS
  Ids = {n1, n2}
  Users = {u1, u2}
  Workers = {w1, w2, w3}
  MaxTime = 2
  None = None
SPECIFICATION Spec
INVARIANTS
  OneFirstReading
SYMMETRY Symmetry
