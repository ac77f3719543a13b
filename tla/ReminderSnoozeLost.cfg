SPECIFICATION Spec
CONSTANTS
  w1 = w1
  w2 = w2
  Workers = {w1, w2}
  Rules <- OnlyOnce
  Channels = {"both"}
  Grace = 3
  Lease = 2
  SnoozeMin = 2
  MaxRun = 1
  QueueDelay = 1
  SweepPeriod = 9
  MaxOcc = 2
  Horizon = 5
  MaxEdits = 1
  Budget <- NoEvents
PROPERTY SnoozeHolds
