SPECIFICATION SharedSpec
CONSTANTS
  Actor = {r, p}
  SessionId = {k1}
  Source = {main}
  Name = {n1, n2}
  Oid = {o1, o2}
  Recoverer = r
  Slot = k1
  Target = n1
  Acquired = o1
  NoName = NoName
  NoOid = NoOid
  NoSession = NoSession
  Nobody = Nobody
  Outsider = Outsider
  MaxPending = 1
  MaxFaults = 1
  MaxOutside = 2
INVARIANTS PeersAgree DropsOnlyTarget SuccessIsClean Fence
PROPERTIES OutcomeIsHonest
ACTION_CONSTRAINT OthersApart
CHECK_DEADLOCK FALSE
