------------------------- MODULE MCNotificationOutbox -------------------------
(* A notification to two recipients and one to nobody, keyed or not, in a     *)
(* table with the CHECK of migration 0008 or with the one the claim needs.    *)
EXTENDS NotificationOutbox, TLC

CONSTANTS n1, n2, r1, r2, alert, b1, b2, d1

Uneven  == [n \in Notes |-> IF n = n1 THEN {r1, r2} ELSE {}]
Keyed   == [n \in Notes |-> IF n = n1 THEN {alert} ELSE {alert, NoKey}]

AnyCheck == {Migrated, Widened}
Deployed == {Migrated}

Symmetry == Permutations(Batches) \cup Permutations(Recipients)

==============================================================================
