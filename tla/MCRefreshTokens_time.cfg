\* One request at a time, two user agents, a clock that passes the grace
\* window, the expiry and the cleanup's retention.
CONSTANTS
  Token = {t1, t2, t3}
  Proc = {p1}
  Agent = {a1, a2}
  Null = Null
  Grace = 1
  TTL = 2
  RetainExpired = 0
  RetainRevoked = 1
  MaxTime = 3
SPECIFICATION Spec
SYMMETRY Symmetry
INVARIANTS
  GraceFaithful
PROPERTIES
  RevocationFinal
  ImplementsSessions
