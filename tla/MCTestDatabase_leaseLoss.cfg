SPECIFICATION Spec
CONSTANTS
  Actor = {c1}
  Context = {c1}
  SessionId = {k1}
  Source = {main}
  Main = main
  Name = {n1}
  Oid = {o1}
  NoName = NoName
  NoOid = NoOid
  NoSession = NoSession
  Nobody = Nobody
  Outsider = Outsider
  MaxFaults = 1
  MaxOutside = 0
PROPERTIES SetupStopsOnLeaseLoss
CHECK_DEADLOCK FALSE
