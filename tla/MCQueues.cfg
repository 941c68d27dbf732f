CONSTANTS
  Process = {p1, p2}
  QueueName = {"default", "heavy"}
  DefaultQueue = "default"
  JobName <- MCName
  JobId <- MCId
  Release <- MCRelease
  Down = Down
  NoCron = NoCron
  Nothing = Nothing
  MaxEvents = 4
SPECIFICATION MCSpec
SYMMETRY MCSymmetry
INVARIANTS IInv SchedulersSettle JobsRunApart
CHECK_DEADLOCK FALSE
