---------------------- MODULE MCBackgroundOperations ----------------------
(* Every export belongs to the same user.                                   *)
EXTENDS BackgroundOperations

MCOwner == [u \in Exports |-> "user"]
=============================================================================
