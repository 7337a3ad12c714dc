CONSTANTS
  User = {parent}
  Student = {}
  Parent = {parent}
  Call = {c1}
  Flight = {r1}
  Logout = {l1}
  Form = {f1}
  Null = Null
SPECIFICATION Spec
PROPERTY NoRetryAfterLogout
