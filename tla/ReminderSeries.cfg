SPECIFICATION Spec
CONSTANTS
  w1 = w1
  w2 = w2
  Workers = {w1}
  Rules <- Recurring
  Channels = {"both"}
  Grace = 2
  Lease = 2
  SnoozeMin = 2
  MaxRun = 1
  QueueDelay = 9
  SweepPeriod = 1
  MaxOcc = 7
  Horizon = 4
  MaxEdits = 2
  Budget <- OwnerLeaves
INVARIANTS
  TypeOK
  SeriesRuns
  SeriesInOrder
PROPERTIES
  KeepsPromise
