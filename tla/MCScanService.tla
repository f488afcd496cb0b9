--------------------------- MODULE MCScanService ----------------------------
(* Budgets of events for the small instances of ScanService. *)
EXTENDS ScanService, TLC

Quiet      == [k \in Events |-> 0]
Fair       == [Quiet EXCEPT !.crash = 1]
Crashes    == [Quiet EXCEPT !.crash = 2, !.cancel = 1, !.dlqRetry = 1, !.shutdown = 1]
Storm      == [Quiet EXCEPT !.io = 1, !.falseReap = 1, !.reaperCrash = 1]
OneError   == [Quiet EXCEPT !.io = 1]
OneCancel  == [Quiet EXCEPT !.cancel = 1]
OneReap    == [Quiet EXCEPT !.falseReap = 1]
OneRetry   == [Quiet EXCEPT !.dlqRetry = 1]

Symmetry == Permutations(Jobs) \cup Permutations(Workers) \cup Permutations(Reapers)
=============================================================================
