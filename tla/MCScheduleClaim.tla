-------------------------- MODULE MCScheduleClaim --------------------------
(* Values for TLC: a cadence is a period, and its fire times its multiples. *)
EXTENDS ScheduleClaim, TLC

MCCadences == {2, 3}
MCNextRun(c, t) == ((t \div c) + 1) * c
MCShortCadences == {1, 3}
MCGraces == {1}

\* Rows and replicas are interchangeable in every run without liveness.
MCSymmetry == Permutations(Schedules) \cup Permutations(Replicas)
=============================================================================
