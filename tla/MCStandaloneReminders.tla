------------------------ MODULE MCStandaloneReminders ------------------------
(* Instances of StandaloneReminders for TLC.                               *)
EXTENDS StandaloneReminders, TLC

CONSTANTS w1, w2

Once == [step |-> 0, count |-> 0, until |-> 0]
Twice == [step |-> 2, count |-> 2, until |-> 0]
Until5 == [step |-> 2, count |-> 0, until |-> 5]

Recurring == {Twice, Until5}
OnlyOnce == {Once}

Only(events) == [e \in Events |-> IF e \in events THEN 1 ELSE 0]
OwnerLeaves == Only({"deletion"})
Failures == Only({"unsent", "unqueued", "abort"})
NoEvents == Only({})

Symmetric == Permutations(Workers)
=============================================================================
