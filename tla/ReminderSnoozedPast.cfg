SPECIFICATION Spec
CONSTANTS
  w1 = w1
  w2 = w2
  Workers = {w1}
  Rules <- Recurring
  Channels = {"both"}
  Grace = 2
  Lease = 2
  SnoozeMin = 2
  MaxRun = 1
  QueueDelay = 1
  SweepPeriod = 1
  MaxOcc = 6
  Horizon = 8
  MaxEdits = 1
  Budget <- NoEvents
INVARIANT NotStranded
