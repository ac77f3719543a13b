------------------------------- MODULE Delivery -------------------------------
(* What every notice shares: the handlers that deliver it, a small calendar *)
(* and the limits of internal/api/reminders.go.                             *)
EXTENDS Integers, FiniteSets

CONSTANTS
  Handlers,     \* concurrent requests to /internal/reminders and /notifications
  DayTicks, WeekDays, MonthDays,  \* a small calendar
  Grace, Lease, \* reminderGrace, reminderClaimLease
  MaxRun,       \* request timeout of the host
  Never         \* a column that is NULL

ASSUME DeliveryAssumption ==
  /\ {DayTicks, WeekDays, MonthDays, Lease} \subseteq Nat \ {0}
  /\ {Grace, MaxRun} \subseteq Nat
  /\ MaxRun <= Lease /\ Grace < DayTicks
  /\ Never \notin Int

Day(t) == t \div DayTicks
WeekOf(d) == d - (d % WeekDays)
MonthOf(d) == d - (d % MonthDays)
=============================================================================
