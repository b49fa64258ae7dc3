--------------------------- MODULE DispatchLease ---------------------------
(***************************************************************************)
(* What a claim column promises (schedules.started_at, the active row of    *)
(* workflow_runs, sync_checkpoints.poll_claimed_at): a lease per resource,  *)
(* which one worker at a time takes, keeps for as long as it works and      *)
(* gives up when it is through.  A worker may also abandon a lease (it      *)
(* died, or could not write its release); only an abandoned lease is ever   *)
(* taken away by somebody else.                                             *)
(***************************************************************************)
CONSTANTS Schedules, Replicas

VARIABLES
    taken,      \* the schedules whose lease is out
    holders     \* the replicas at work on behalf of each schedule

lease == <<taken, holders>>

Init ==
    /\ taken = {}
    /\ holders = [s \in Schedules |-> {}]

Take(r, s) ==
    /\ s \notin taken
    /\ holders[s] = {}
    /\ taken' = taken \cup {s}
    /\ holders' = [holders EXCEPT ![s] = {r}]

GiveBack(r, s) ==
    /\ s \in taken
    /\ holders[s] = {r}
    /\ taken' = taken \ {s}
    /\ holders' = [holders EXCEPT ![s] = {}]

\* A replica abandons every lease in A at once when it dies.
Abandon(r, A) ==
    /\ A \subseteq {s \in taken : holders[s] = {r}}
    /\ holders' = [s \in Schedules |-> IF s \in A THEN {} ELSE holders[s]]
    /\ UNCHANGED taken

\* The leases in A, all abandoned, are reclaimed.
Reclaim(A) ==
    /\ A \subseteq {s \in taken : holders[s] = {}}
    /\ taken' = taken \ A
    /\ UNCHANGED holders

Next ==
    \/ \E r \in Replicas :
        \/ \E s \in Schedules : Take(r, s) \/ GiveBack(r, s)
        \/ \E A \in SUBSET Schedules : Abandon(r, A)
    \/ \E A \in SUBSET Schedules : Reclaim(A)

Spec == Init /\ [][Next]_lease
=============================================================================
