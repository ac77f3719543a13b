SPECIFICATION Spec
CONSTANTS
  GapDays <- MCGaps
  GapHour = 2
  GapTo = 1
  RuleInputs <- MCRules
  Starts <- MCStarts
  Hours = {2, 9}
  MaxSequence = 12
  Window <- MCWindow
  Pauses <- MCPauses
  Requests = {r1, r2}
  FirstDay <- MCFirstDay
  Past = 5
  MaxDays = 2
  MaxWrites = 3
  Curators = {r1, r2}
  Announcers = {r1, r2}
  LastRelease = 2
  MaxCurated = 2
  NoDate = NoDate
INVARIANTS
  FollowsRule
  StreaksAreRuns
  ReleaseToldOnce
PROPERTIES
  LeavesUpcoming
  NothingSkipped
  ResendHarmless
CHECK_DEADLOCK FALSE
