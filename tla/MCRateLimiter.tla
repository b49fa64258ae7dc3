---------------------------- MODULE MCRateLimiter ----------------------------
(* Callers are interchangeable where no liveness is checked.                *)
EXTENDS RateLimiter, TLC

MCSymmetry == Permutations(Callers)
=============================================================================
