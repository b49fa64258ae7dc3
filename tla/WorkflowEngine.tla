--------------------------- MODULE WorkflowEngine ---------------------------
(***************************************************************************)
(* One run of a workflow in the executor: the levels of its task graph, the *)
(* nodes of a level running side by side, the observer that writes their    *)
(* rows, the degrading of enrichers, the stop between levels, the teardown. *)
(*                                                                         *)
(* What a node computes is left out, and with it metrics and progress bars. *)
(* So is the order within a level: it picks the message of a failed run.    *)
(***************************************************************************)
EXTENDS Integers, FiniteSets

CONSTANTS
    Tasks,          \* tasks of the definition
    MaxCancels,     \* bound: cancellations of the coroutine of the run
    MaxLost         \* bound: node rows whose write fails

\* The validation of a definition refuses one without tasks.
ASSUME EngineAssumption ==
    IsFiniteSet(Tasks) /\ Tasks # {} /\ MaxCancels \in Nat /\ MaxLost \in Nat

VARIABLES
    upstream,   \* WorkflowTaskDef.upstream of every task
    category,   \* what the registry says of every task
    levels,     \* the levels of the graph, first to last
    current,    \* the level that runs, counted from 1
    stage,      \* where the coroutine of each node is
    record,     \* _RunState.node_records: how each node came out
    results,    \* _RunState.task_results: the tasks that have one
    row,        \* workflow_run_nodes.status
    run,        \* what has become of the run
    pools,      \* the connectors of the run: open, closing or closed
    shutdown,   \* _shutdown_requested
    broken,     \* history: the nodes whose lifecycle itself raised
    lost, cancels

plan == <<upstream, category, levels>>
vars == <<plan, current, stage, record, results, row, run, pools, shutdown, broken,
          lost, cancels>>

Ended == {"refused", "completed", "failed", "cancelled", "crashed"}

-----------------------------------------------------------------------------
(* compute_parallel_levels *)

\* How many parents a task still waits for, once those of a level are peeled.
Degree(degree, peeled) ==
    [t \in Tasks |-> degree[t] - Cardinality(upstream[t] \cap peeled)]

\* The tasks that a peeled level leaves waiting for nobody.  Mutant: for at
\* most one parent.
ReleasedEarly(degree, peeled) ==
    {t \in Tasks : degree[t] > 0 /\ upstream[t] \cap peeled # {} /\ Degree(degree, peeled)[t] <= 1}
Released(degree, peeled) ==
    {t \in Tasks : degree[t] > 0 /\ Degree(degree, peeled)[t] = 0}

FirstRound == [degree |-> [t \in Tasks |-> Cardinality(upstream[t])],
               level |-> {t \in Tasks : upstream[t] = {}}]
NextRound(round) == [degree |-> Degree(round.degree, round.level),
                     level |-> Released(round.degree, round.level)]

Rounds[n \in 1..Cardinality(Tasks)] ==
    IF n = 1 THEN FirstRound ELSE NextRound(Rounds[n - 1])

\* One level per round, until a round releases nobody.
Levels ==
    LET fruitful == {n \in 1..Cardinality(Tasks) : Rounds[n].level # {}}
    IN  [n \in 1..Cardinality(fruitful) |-> Rounds[n].level]

Scheduled == UNION {levels[n] : n \in DOMAIN levels}

\* A graph that no run of peeling exhausts has a cycle, and is refused.
Init ==
    /\ upstream \in [Tasks -> SUBSET Tasks]
    /\ category \in [Tasks -> {"enricher", "destination", "other"}]
    /\ \A t \in Tasks : upstream[t] = {} => category[t] = "other"
    /\ levels = Levels
    /\ current = 0
    /\ stage = [t \in Tasks |-> "waiting"]
    /\ record = [t \in Tasks |-> "none"]
    /\ results = {}
    /\ row = [t \in Tasks |-> "pending"]
    /\ run = IF Scheduled = Tasks THEN "running" ELSE "refused"
    /\ pools = "open"
    /\ shutdown = FALSE
    /\ broken = {}
    /\ lost = 0
    /\ cancels = 0

-----------------------------------------------------------------------------
(* The loop over the levels *)

\* The run is over but for its teardown, which comes first.
Closing(verdict, recorded) ==
    /\ run' = verdict
    /\ pools' = "closing"
    /\ record' = recorded
    /\ UNCHANGED <<current, stage>>

\* The next level, unless a shutdown was asked for: then what has no result
\* is skipped.
EnterLevel(n, known) ==
    \/ /\ shutdown
       /\ Closing("cancelling",
                  [t \in Tasks |-> IF t \in known THEN record[t] ELSE "skipped"])
    \/ /\ ~shutdown
       /\ current' = n
       /\ stage' = [t \in Tasks |-> IF t \in levels[n] THEN "created" ELSE stage[t]]
       /\ UNCHANGED <<record, run, pools>>

Begin ==
    /\ run = "running" /\ current = 0
    /\ EnterLevel(1, {})
    /\ UNCHANGED <<plan, results, row, shutdown, broken, lost, cancels>>

\* The coroutines of a level take their first steps together; each looks at
\* the flag once.
StartNodes ==
    /\ run = "running" /\ current > 0
    /\ \E t \in levels[current] : stage[t] = "created"
    /\ stage' = [t \in Tasks |-> IF t \notin levels[current] THEN stage[t]
                                 ELSE IF shutdown THEN "done" ELSE "starting"]
    /\ record' = [t \in Tasks |-> IF t \in levels[current] /\ shutdown
                                  THEN "skipped" ELSE record[t]]
    /\ UNCHANGED <<plan, current, results, row, run, pools, shutdown, broken, lost, cancels>>

\* The outcomes that leave a result.
Fine == {"completed", "degraded"}

\* The group is over: results are kept, and then a fatal node ends the run.
\* Mutants: the run goes on with the results there are; a skipped node is a
\* failure like any other.
LevelOver ==
    /\ run = "running" /\ current > 0
    /\ \A t \in levels[current] : stage[t] = "done"
    /\ results' = results \cup {t \in levels[current] : record[t] \in Fine}
    /\ UNCHANGED <<plan, row, shutdown, broken, lost, cancels>>
GoOn ==
    \/ current < Cardinality(DOMAIN levels) /\ EnterLevel(current + 1, results')
    \/ current = Cardinality(DOMAIN levels) /\ Closing("completing", record)
Some(status) == \E t \in levels[current] : record[t] = status

LevelDoneRegardless == LevelOver /\ GoOn
LevelDoneFailed ==
    /\ LevelOver
    /\ \/ (Some("skipped") \/ Some("failed")) /\ Closing("failing", record)
       \/ ~Some("skipped") /\ ~Some("failed") /\ GoOn
LevelDone ==
    /\ LevelOver
    /\ \/ Some("skipped") /\ Closing("cancelling", record)
       \/ Some("failed") /\ Closing("failing", record)
       \/ ~Some("skipped") /\ ~Some("failed") /\ GoOn

-----------------------------------------------------------------------------
(* The lifecycle of a node *)

\* The observer's write of a row; its failure is only counted.
RowWritten(t, status) ==
    \/ row' = [row EXCEPT ![t] = status] /\ UNCHANGED lost
    \/ lost < MaxLost /\ lost' = lost + 1 /\ UNCHANGED row

Moved(t, from, to) ==
    /\ stage[t] = from
    /\ stage' = [stage EXCEPT ![t] = to]
    /\ UNCHANGED <<plan, current, results, run, pools, shutdown, cancels>>

NodeStarted(t) ==
    /\ Moved(t, "starting", "executing")
    /\ RowWritten(t, "running")
    /\ UNCHANGED <<record, broken>>

\* The node returns, or it raises or runs into its timeout.
NodeReturned(t) ==
    /\ Moved(t, "executing", "completing") \/ Moved(t, "executing", "failing")
    /\ UNCHANGED <<record, row, broken, lost>>

NodeCompleted(t) ==
    /\ Moved(t, "completing", "done")
    /\ RowWritten(t, "completed")
    /\ record' = [record EXCEPT ![t] = "completed"]
    /\ UNCHANGED broken

\* An enricher passes the result of its primary input through.
Degrades(t) == category[t] = "enricher" /\ upstream[t] \cap results # {}

Came(t) == IF Degrades(t) THEN "degraded" ELSE "failed"

\* Mutants: a degraded node is reported as completed after its failure; its row
\* takes the status of its record, which no column knows.
NodeFailedCompleted(t) ==
    /\ Moved(t, "failing", "done")
    /\ RowWritten(t, IF Degrades(t) THEN "completed" ELSE "failed")
    /\ record' = [record EXCEPT ![t] = Came(t)]
    /\ UNCHANGED broken
NodeFailedRecorded(t) ==
    /\ Moved(t, "failing", "done")
    /\ RowWritten(t, Came(t))
    /\ record' = [record EXCEPT ![t] = Came(t)]
    /\ UNCHANGED broken
NodeFailed(t) ==
    /\ Moved(t, "failing", "done")
    /\ RowWritten(t, "failed")
    /\ record' = [record EXCEPT ![t] = Came(t)]
    /\ UNCHANGED broken

\* The lifecycle itself raises, on what the node returned: fatal, and unseen by
\* the observer.
NodeBroken(t) ==
    /\ Moved(t, "executing", "done")
    /\ record' = [record EXCEPT ![t] = "failed"]
    /\ broken' = broken \cup {t}
    /\ UNCHANGED <<row, lost>>

NodeStep(t) ==
    NodeStarted(t) \/ NodeReturned(t) \/ NodeCompleted(t) \/ NodeFailed(t) \/ NodeBroken(t)

-----------------------------------------------------------------------------
(* The end of a run *)

\* The shielded close of the connectors; it may fail, and is over.
PoolsClosed ==
    /\ pools = "closing"
    /\ pools' = "closed"
    /\ UNCHANGED <<plan, current, stage, record, results, row, run, shutdown, broken, lost,
                   cancels>>

\* Only the result of a destination makes a finished graph a completed run.
Verdict ==
    CASE run = "completing" /\ \E t \in Tasks : category[t] = "destination" -> "completed"
      [] run = "completing" /\ \A t \in Tasks : category[t] # "destination" -> "failed"
      [] run = "failing" -> "failed"
      [] run = "cancelling" -> "cancelled"
      [] run = "crashing" -> "crashed"

Finish ==
    /\ run \in {"completing", "failing", "cancelling", "crashing"} /\ pools = "closed"
    /\ run' = Verdict
    /\ UNCHANGED <<plan, current, stage, record, results, row, pools, shutdown, broken, lost,
                   cancels>>

\* Another cancellation of a run that waits for its connectors: the wait is
\* over, the close goes on.  Mutant: it does not.
CancelCloseUnshielded ==
    /\ run \in {"completing", "failing", "cancelling", "crashing"} /\ pools = "closing"
    /\ run' = "crashed"
    /\ pools' = "open"
    /\ UNCHANGED <<current, stage, record, row>>
CancelClose ==
    /\ run \in {"completing", "failing", "cancelling", "crashing"} /\ pools = "closing"
    /\ run' = "crashed"
    /\ UNCHANGED <<current, stage, record, row, pools>>

\* What an observer call in flight would make of a row.
Underway(t) ==
    CASE stage[t] = "starting" -> {row[t], "running"}
      [] stage[t] = "completing" -> {row[t], "completed"}
      [] stage[t] = "failing" -> {row[t], "failed"}
      [] OTHER -> {row[t]}

\* A cancellation of a run in a level: the group cancels its nodes, whose row
\* writes may have been committed.
CancelLevel ==
    /\ run = "running" /\ current > 0
    /\ run' = "crashing"
    /\ pools' = "closing"
    /\ stage' = [t \in Tasks |-> IF stage[t] \in {"waiting", "done"} THEN stage[t] ELSE "gone"]
    /\ row' \in [Tasks -> {"pending", "running", "completed", "failed"}]
    /\ \A t \in Tasks : row'[t] \in Underway(t)
    /\ UNCHANGED <<current, record>>

Cancel ==
    /\ cancels < MaxCancels /\ cancels' = cancels + 1
    /\ CancelLevel \/ CancelClose
    /\ UNCHANGED <<plan, results, shutdown, broken, lost>>

\* SIGTERM or SIGINT; the flag is never cleared.
Shutdown ==
    /\ run \notin Ended /\ ~shutdown
    /\ shutdown' = TRUE
    /\ UNCHANGED <<plan, current, stage, record, results, row, run, pools, broken, lost, cancels>>

RunStep == Begin \/ StartNodes \/ LevelDone \/ PoolsClosed \/ Finish \/ \E t \in Tasks : NodeStep(t)

Next == RunStep \/ Cancel \/ Shutdown

Spec == Init /\ [][Next]_vars

\* Nodes have a timeout, row writes and the close of the connectors end.
FairSpec == Spec /\ WF_vars(RunStep)

-----------------------------------------------------------------------------
\* The type of every variable.
TypeOK ==
    /\ upstream \in [Tasks -> SUBSET Tasks]
    /\ category \in [Tasks -> {"enricher", "destination", "other"}]
    /\ DOMAIN levels = 1..Cardinality(DOMAIN levels)
    /\ \A n \in DOMAIN levels : levels[n] \subseteq Tasks
    /\ current \in 0..Cardinality(DOMAIN levels)
    /\ stage \in [Tasks -> {"waiting", "created", "starting", "executing",
                            "completing", "failing", "done", "gone"}]
    /\ record \in [Tasks -> {"none", "completed", "degraded", "failed", "skipped"}]
    /\ results \subseteq Tasks
    /\ row \in [Tasks -> {"pending", "running", "completed", "failed"}]
    /\ run \in Ended \cup {"running", "completing", "failing", "cancelling", "crashing"}
    /\ pools \in {"open", "closing", "closed"}
    /\ shutdown \in BOOLEAN
    /\ broken \subseteq Tasks
    /\ lost \in 0..MaxLost
    /\ cancels \in 0..MaxCancels

\* The levels against their definition: a graph is refused just when some tasks
\* wait for each other in a circle, and in any other graph every task has one
\* level, directly above the highest of its parents.
LevelsSound ==
    /\ (run = "refused") =
           \E S \in (SUBSET Tasks) \ {{}} : \A t \in S : upstream[t] \cap S # {}
    /\ run # "refused" =>
           \A t \in Tasks, n \in DOMAIN levels :
               t \in levels[n] <=>
                   /\ upstream[t] \subseteq UNION {levels[m] : m \in 1..(n - 1)}
                   /\ n > 1 => upstream[t] \cap levels[n - 1] # {}

\* A node that executes has the result of each parent, and none of its
\* ancestors failed, was skipped or is still at work.  In particular no playlist
\* is written from a graph that broke on the way to it.
SoundInputs ==
    \A t \in Tasks : stage[t] = "executing" =>
        /\ upstream[t] \subseteq results
        /\ \E S \in SUBSET Tasks :
              /\ upstream[t] \subseteq S
              /\ \A a \in S : record[a] \in Fine /\ upstream[a] \subseteq S

\* What the run is recorded as is what happened: completed says that every node
\* has a result and one of them is a destination's; failed, that a node was
\* fatal or there was no destination; cancelled, an orderly stop before any node
\* failed; crashed, a cancellation of the coroutine.
VerdictTrue ==
    /\ run = "completed" => /\ \A t \in Tasks : record[t] \in Fine
                            /\ \E t \in results : category[t] = "destination"
    /\ run = "failed" => \/ \E t \in Tasks : record[t] = "failed"
                         \/ \A t \in Tasks : category[t] # "destination"
    /\ run = "cancelled" => shutdown /\ \A t \in Tasks : record[t] # "failed"
    /\ run = "crashed" => cancels > 0

\* Whichever way a run ends, if no row write failed its rows tell what became of
\* the nodes: completed; failed, for a degraded node too; pending, for a skipped
\* one and one that was never reached.  Two kinds of row stay behind: a node
\* whose lifecycle broke is recorded as failed and its row reads running for
\* good; one that a cancellation cut off at its work may read anything.
Told(t) ==
    /\ (row[t] = "completed") = (record[t] = "completed")
    /\ (row[t] = "pending") = (record[t] \in {"none", "skipped"})
    /\ (row[t] = "running") = (t \in broken)

HistoryTrue ==
    run \in Ended /\ lost = 0 => \A t \in Tasks : stage[t] # "gone" => Told(t)

\* Every run ends, and its connectors are closed, cancelled or not.
RunEnds == run = "running" ~> (run \in Ended /\ pools = "closed")
=============================================================================
