SPECIFICATION RetrySpec
CONSTANTS
  Actor = {c1}
  Context = {c1}
  SessionId = {k1, k2}
  Source = {main, app}
  Main = main
  Name = {n1}
  Oid = {o1}
  NoName = NoName
  NoOid = NoOid
  NoSession = NoSession
  Nobody = Nobody
  Outsider = Outsider
  MaxFaults = 2
  MaxOutside = 0
PROPERTIES OperationsSettle CleanupConverges
CHECK_DEADLOCK FALSE
