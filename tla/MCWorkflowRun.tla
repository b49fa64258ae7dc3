--------------------------- MODULE MCWorkflowRun ---------------------------
(* Runs and processes are interchangeable in every run without liveness.    *)
EXTENDS WorkflowRun, TLC

MCSymmetry == Permutations(Runs) \cup Permutations(Processes)
=============================================================================
