\* A replayed token: does its family die?
CONSTANTS
  Token = {t1, t2, t3}
  Proc = {p1}
  Agent = {a1, a2}
  Null = Null
  Grace = 1
  TTL = 2
  RetainExpired = 0
  RetainRevoked = 1
  MaxTime = 2
SPECIFICATION Spec
SYMMETRY Symmetry
INVARIANTS
  ReuseKillsFamily
