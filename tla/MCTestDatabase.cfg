SPECIFICATION Spec
CONSTANTS
  Actor = {c1}
  Context = {c1}
  SessionId = {k1, k2}
  Source = {main, app}
  Main = main
  Name = {n1, n2}
  Oid = {o1, o2}
  NoName = NoName
  NoOid = NoOid
  NoSession = NoSession
  Nobody = Nobody
  Outsider = Outsider
  MaxFaults = 2
  MaxOutside = 1
INVARIANTS TypeOK Use DdlUnderLock DropsOnlyItsOwn NothingUntracked
PROPERTIES ClearsOnlyItsOwn ReleasedOnlyWhenGone ForgetsOnlyWhenClean TargetIsExclusive
SYMMETRY Symmetry
CHECK_DEADLOCK FALSE
