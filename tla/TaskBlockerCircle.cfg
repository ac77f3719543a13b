SPECIFICATION LinksSpec
CONSTANTS
  Goal = goal
  A = a
  B = b
  C = c
  None = none
  Tasks <- GoalAB
  Goals <- JustGoal
  Repeating <- AB
  Requests = {r1, r2}
  MaxServed = 2
  StartStatuses = {"todo", "blocked"}
  StartWaiters = 2
INVARIANTS NoCircle
CHECK_DEADLOCK FALSE
