---------------------------- MODULE SerialImport ----------------------------
(***************************************************************************)
(* What the import of uploaded exports promises its users: the files of a   *)
(* user are imported one at a time, those of one export in the order of     *)
(* upload, none twice.  A file may be dropped (cancelled, failed to start,  *)
(* or lost with its process), and then it never runs.                       *)
(***************************************************************************)
EXTENDS Integers

CONSTANTS Exports, Files, Owner

VARIABLE work       \* what became of each file: <<export, position>>

All == Exports \X Files

Init == work = [f \in All |-> "waiting"]

Start(f) ==
    /\ work[f] = "waiting"
    /\ \A g \in All : work[g] = "running" => Owner[g[1]] # Owner[f[1]]
    /\ \A i \in Files : i < f[2] => work[<<f[1], i>>] \in {"done", "dropped"}
    /\ work' = [work EXCEPT ![f] = "running"]

Finish(f) ==
    /\ work[f] = "running"
    /\ work' = [work EXCEPT ![f] = "done"]

\* A cancellation or the end of the process drops many files at once.
Drop(D) ==
    /\ D \subseteq {f \in All : work[f] \in {"waiting", "running"}}
    /\ work' = [f \in All |-> IF f \in D THEN "dropped" ELSE work[f]]

Next ==
    \/ \E f \in All : Start(f) \/ Finish(f)
    \/ \E D \in SUBSET All : Drop(D)

Spec == Init /\ [][Next]_work
=============================================================================
