CONSTANTS
  Emails = {e1}
  Subs = {g1, g2}
  Sessions = {s1}
  Workers = {w1, w2}
  MaxPasswords = 4
  MaxLogins = 2
  None = None
SPECIFICATION Spec
SYMMETRY Symmetry
INVARIANTS
  TypeOK
  AccountsIInv
