----------------------------- MODULE MCPlayPoll -----------------------------
(* Values for TLC: half-minute ticks; the backoff doubles, with a jitter of  *)
(* one tick, so that a stretched interval is no whole number of minutes.     *)
EXTENDS PlayPoll, TLC

MCWideCaps == {4, 6}
MCNarrowCaps == {2, 4}
MCStretch(n) == CASE n = 0 -> 4 [] n = 1 -> 5 [] OTHER -> 7

MCSymmetry == Permutations(Demands)
=============================================================================
