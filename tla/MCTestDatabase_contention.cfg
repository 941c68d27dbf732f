SPECIFICATION Spec
CONSTANTS
  Actor = {c1, c2}
  Context = {c1, c2}
  SessionId = {k1}
  Source = {main}
  Main = main
  Name = {n1}
  Oid = {o1, o2}
  NoName = NoName
  NoOid = NoOid
  NoSession = NoSession
  Nobody = Nobody
  Outsider = Outsider
  MaxFaults = 1
  MaxOutside = 1
INVARIANTS IInv UsedUnderLock
SYMMETRY Symmetry
