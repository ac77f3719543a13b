SPECIFICATION BillersSpec
CONSTANTS
  Requests = {r1}
  Periods = {1, 3}
  LastMonth = 4
  MaxCalls = 4
  Crashes = 0
  Gone = Gone
INVARIANT OncePerPeriod
CHECK_DEADLOCK FALSE
