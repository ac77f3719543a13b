SPECIFICATION MoneySpec
CONSTANTS
  People = {p1, p2}
  Price = 2
  LastDay = 2
  Editors = {e1, e2}
  MaxRequests = 3
  None = None
  Requests = {e1, e2}
  Periods = {1, 3}
  LastMonth = 3
  MaxCalls = 3
  Crashes = 1
  Gone = Gone
  Hands = {e1, e2}
  MaxPayment = 2
  LastCycle = 3
  MaxActs = 3
  Unset = Unset
  Bank = bank
  Card = card
  PlainLife = plain
  Trip = trip
  MaxAmount = 2
  LastDate = 2
  Clerks = {e1, e2}
  MaxRows = 4
  MaxOrders = 3
  Usual = usual
  Outliers = {s1}
  Categories = {k1}
  Planners = {e1, e2}
  MaxPlans = 2
  NoBudget = NoBudget
INVARIANTS
  BillAddsUp
  PaidInOrder
  CyclesTold
  InvestedAddsUp
  RowsHold
  StatementsHold
  HoldsOneEdit
PROPERTIES
  ForgivenIsOwed
SYMMETRY Alike
CHECK_DEADLOCK FALSE
