SPECIFICATION LinksSpec
CONSTANTS
  Goal = goal
  A = a
  B = b
  C = c
  None = none
  Tasks <- GoalABC
  Goals <- JustGoal
  Repeating <- Nothing
  Requests = {r1}
  MaxServed = 2
  StartStatuses = {"todo"}
  StartWaiters = 2
PROPERTIES NotDoneOverOpen
CHECK_DEADLOCK FALSE
