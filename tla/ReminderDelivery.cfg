SPECIFICATION Spec
CONSTANTS
  w1 = w1
  w2 = w2
  Workers = {w1, w2}
  Rules <- OnlyOnce
  Channels = {"push"}
  Grace = 5
  Lease = 1
  SnoozeMin = 2
  MaxRun = 1
  QueueDelay = 9
  SweepPeriod = 1
  MaxOcc = 2
  Horizon = 7
  MaxEdits = 1
  Budget <- Failures
SYMMETRY Symmetric
INVARIANTS
  DupsOnlyAfterLoss
  StillComes
