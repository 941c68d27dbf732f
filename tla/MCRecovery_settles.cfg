SPECIFICATION RetainedSpec
CONSTANTS
  Actor = {r, p}
  SessionId = {k1}
  Source = {main}
  Name = {n1}
  Oid = {o1}
  Recoverer = r
  Slot = k1
  Target = n1
  Acquired = o1
  NoName = NoName
  NoOid = NoOid
  NoSession = NoSession
  Nobody = Nobody
  Outsider = Outsider
  MaxPending = 0
  MaxFaults = 1
  MaxOutside = 0
INVARIANTS IInv
PROPERTIES CallSettles NoOrphan
CHECK_DEADLOCK FALSE
