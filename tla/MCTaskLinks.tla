------------------------------ MODULE MCTaskLinks ------------------------------
(* One month goal and two other tasks, or three, that repeat or do not.    *)
EXTENDS TaskLinks, TLC

CONSTANTS Goal, A, B, C

AB == {A, B}
GoalAB == {Goal, A, B}
GoalABC == {Goal, A, B, C}
JustGoal == {Goal}
Nothing == {}
Interchangeable == Permutations({A, B}) \cup Permutations(Requests)
=============================================================================
