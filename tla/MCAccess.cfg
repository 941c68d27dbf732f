SPECIFICATION MCSpec
CONSTANTS
  i1 = i1
  i2 = i2
  s1 = s1
  k1 = k1
  k2 = k2
  addr = addr
  perCaller = perCaller
  perAddress = perAddress
  RuleName = {perCaller, perAddress}
  Issuer = {i1, i2}
  Subject = {s1}
  Uri = {k1, k2}
  Ip = {addr}
  Tracker <- MCTracker
  Limits <- MCLimits
  App <- MCApp
  Token <- MCToken
  StaticIssuer = i1
  StaticUri = k1
  Undefined = Undefined
  Absent = Absent
  NoExpiry = NoExpiry
  NoToken = NoToken
  NoConfig = NoConfig
  NoUser = NoUser
  NoEntry = NoEntry
  Requests = 3
  Second = 2
  MaxTime = 3
  CacheTtl = 1
  Slow = 1
  MaxChanges = 1
  MaxFaults = 1
INVARIANTS IInv AdmittedWasChecked TrustIsPerIssuer UserIsCurrent
PROPERTIES LimitHolds RequestsSettle
CHECK_DEADLOCK FALSE
