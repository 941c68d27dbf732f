SPECIFICATION Spec
CONSTANTS
  ns1 = ns1
  empty = empty
  lone = lone
  pool1 = pool1
  pool2 = pool2
  connect = connect
  q1 = q1
  q2 = q2
  Url <- MCUrl
  Namespace = {ns1, empty, lone}
  Worker = {pool1, pool2}
  TestOptions <- MCTestOptions
  Unusable = {empty}
  Unfaithful = {lone, pool2}
  LongRole = {"long"}
  Deviation <- MCDeviation
  MaxOid = 3
  MaxTimeout = 2
  MaxCloseTimeout = 2
  Missing = Missing
  Op = {connect, q1, q2}
  ConnectOp = connect
  OpTimeout = 1
  Budgets = {0, 3}
  MaxTime = 5
INVARIANTS IInv CloseIsHonest ReportedIsRecoverable
PROPERTIES KeepsPromise
CHECK_DEADLOCK FALSE
