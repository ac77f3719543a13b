SPECIFICATION PlannerSpec
CONSTANTS
  Goal = goal
  A = a
  B = b
  C = c
  None = none
  Tasks <- GoalAB
  Goals <- JustGoal
  Repeating <- AB
  Requests = {h1, h2}
  MaxServed = 2
  StartStatuses = {"todo", "blocked"}
  StartWaiters = 1
  Handlers = {h1, h2}
  DayTicks = 2
  WeekDays = 2
  MonthDays = 2
  Grace = 1
  Lease = 1
  MaxRun = 1
  Never = Never
  Horizon = 5
  Bounds <- MCBounds
  Asked = {1, 3}
  MaxFields = 2
  Kept = Kept
  PlanDay = 3
  PlanHorizon = 10
  PlanEdits = 2
  PlanMishaps = 1
  WeekLength = 2
  MonthLength = 3
  WeekTasks = {a, b}
  DigestDays = 5
  DigestEdits = 2
  MaxDigestRuns = 2
  Thinkers = {h1, h2}
  MaxThoughts = 3
  MaxCards = 2
INVARIANTS
  WaitsInOrder
  ToldOfItsTime
  KeepsReminding
  AlertsInStep
  NudgedOnce
  BriefFlagged
  CardsHold
PROPERTIES
  ClosesInOrder
SYMMETRY Alike
CHECK_DEADLOCK FALSE
