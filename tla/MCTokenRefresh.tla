--------------------------- MODULE MCTokenRefresh ---------------------------
(* Managers are interchangeable where no liveness is checked.               *)
EXTENDS TokenRefresh, TLC

MCSymmetry == Permutations(Managers)
=============================================================================
