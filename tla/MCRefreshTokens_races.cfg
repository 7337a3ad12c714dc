CONSTANTS
  Token = {t1, t2, t3}
  Proc = {p1, p2, p3}
  Agent = {a1}
  Null = Null
  Grace = 1
  TTL = 2
  RetainExpired = 0
  RetainRevoked = 1
  MaxTime = 1
SPECIFICATION Spec
SYMMETRY Symmetry
INVARIANTS
  OneActivePerFamily
  ChainsLinear
  SentIsDurable
  LogoutEffective
  NoWaitCycle
PROPERTY RevocationFinal
