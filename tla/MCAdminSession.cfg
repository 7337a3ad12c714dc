CONSTANTS
  User = {parent, student, admin}
  Student = {student}
  Call = {c1, c2}
  Flight = {r1, r2}
  Logout = {l1, l2}
  Form = {f1, f2}
  Parent = {parent}
  Admin = {admin}
  Null = Null
SPECIFICATION FairBrowserSpec
SYMMETRY Symmetry
INVARIANTS
  TypeOK
  SingleFlight
  HiddenAfterLogout
  ShownUserIsCaller
PROPERTIES
  EveryCallSettles
