SPECIFICATION MCSpec
CONSTANTS
  Calls = 2
  u1 = u1
  u2 = u2
  User = {u1, u2}
  a = a
  b = b
  Attribute = {a, b}
  p = p
  P = P
  q = q
  Value = {p, P, q}
  Lowercase <- MCLowercase
  Request <- MCRequest
  None = None
  Empty = Empty
  Unset = Unset
  NoToken = NoToken
  NoProfile = NoProfile
  Lifetime = 4
  Margin = 2
  Timeout = 1
  MaxTime = 4
  MaxFaults = 1
INVARIANTS IInv OutcomeIsTrue ResendIsFresh UnexpiredInUse
PROPERTIES StubAgrees CallsSettle
CHECK_DEADLOCK FALSE
