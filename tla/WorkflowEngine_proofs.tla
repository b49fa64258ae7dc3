----------------------- MODULE WorkflowEngine_proofs -----------------------
(***************************************************************************)
(* Proofs about WorkflowEngine, for any graph over any number of tasks, any *)
(* number of cancellations and of lost row writes: type correctness,        *)
(* LevelsSound, SoundInputs, VerdictTrue and HistoryTrue.                   *)
(***************************************************************************)
EXTENDS WorkflowLevels_proofs

-----------------------------------------------------------------------------
(* The inductive invariants.                                               *)

Working == {"created", "starting", "executing", "completing", "failing"}

InLevel == run = "running" /\ current > 0

WorkInLevel == \A t \in Tasks : stage[t] \in Working => InLevel /\ t \in levels[current]

BehindFine == InLevel =>
    \A m \in 1..(current - 1) : \A t \in levels[m] : record[t] \in Fine /\ t \in results

AheadWaits == run = "running" =>
    \A m \in 1..Depth : m > current => \A t \in levels[m] : stage[t] = "waiting"

StageRecord == \A t \in Tasks :
    /\ stage[t] \in Working => record[t] = "none"
    /\ stage[t] = "waiting" => record[t] = "none" \/ (record[t] = "skipped" /\ run # "running")
    /\ stage[t] = "done" => record[t] # "none"
    /\ stage[t] = "gone" => run \in {"crashing", "crashed"}
    /\ t \in results => stage[t] = "done" /\ record[t] \in Fine

\* The nodes of a level start together, and are skipped together.
OneStart == InLevel =>
    /\ \A t, u \in levels[current] : stage[t] = "created" => stage[u] = "created"
    /\ \A t, u \in levels[current] : record[t] = "skipped" => record[u] = "skipped"

SkippedByShutdown == \A t \in Tasks : record[t] = "skipped" => shutdown

\* What is known of a run that is being closed is what its verdict will say.
ClosingTrue ==
    /\ run \in {"completing", "completed"} => \A t \in Tasks : record[t] \in Fine /\ t \in results
    /\ run = "completed" => \E t \in Tasks : category[t] = "destination"
    /\ run = "failing" => \E t \in Tasks : record[t] = "failed"
    /\ run = "failed" => \/ \E t \in Tasks : record[t] = "failed"
                         \/ \A t \in Tasks : category[t] # "destination"
    /\ run \in {"cancelling", "cancelled"} => shutdown /\ \A t \in Tasks : record[t] # "failed"
    /\ run \in {"crashing", "crashed"} => cancels > 0

EngineInv ==
    /\ TypeOK /\ Layered /\ WorkInLevel /\ BehindFine /\ AheadWaits
    /\ StageRecord /\ OneStart /\ SkippedByShutdown /\ ClosingTrue

\* A row follows its node while no write is lost and until it is cut off.
RowTold(t) ==
    /\ stage[t] \in {"waiting", "created", "starting"} => row[t] = "pending"
    /\ stage[t] \in {"executing", "completing", "failing"} => row[t] = "running"
    /\ stage[t] = "done" =>
           /\ (row[t] = "completed") = (record[t] = "completed")
           /\ (row[t] = "pending") = (record[t] = "skipped")
           /\ (row[t] = "running") = (t \in broken)
    /\ t \in broken => stage[t] = "done"

RowsFollow == lost = 0 => \A t \in Tasks : RowTold(t)

-----------------------------------------------------------------------------
(* The layers.                                                             *)

LEMMA LayeredStable ==
    ASSUME Layered, UNCHANGED plan, run # "refused"
    PROVE  Layered' /\ Depth' = Depth
BY DEF Layered, plan, Depth, Below

\* A task of a graph that runs is behind the current level, in it or ahead.
LEMMA Placed ==
    ASSUME EngineInv, run = "running", NEW t \in Tasks
    PROVE  \/ InLevel /\ \E m \in 1..(current - 1) : t \in levels[m]
           \/ InLevel /\ t \in levels[current]
           \/ \E m \in 1..Depth : m > current /\ t \in levels[m]
<1>1. PICK m \in 1..Depth : t \in levels[m]
    BY DEF EngineInv, Layered
<1>2. current \in 0..Depth /\ Depth \in Nat
    BY DEF EngineInv, Layered, TypeOK, Depth
<1>3. m \in 1..(current - 1) \/ m = current \/ m > current
    BY <1>2
<1> QED
    BY <1>1, <1>2, <1>3 DEF InLevel

\* There is a first level.
LEMMA SomeDepth == ASSUME EngineInv, run # "refused" PROVE Depth \in Nat /\ Depth >= 1
<1>1. PICK t \in Tasks : TRUE
    BY EngineAssumption
<1>2. PICK n \in 1..Depth : t \in levels[n]
    BY DEF EngineInv, Layered
<1> QED
    BY <1>2 DEF EngineInv, Layered

-----------------------------------------------------------------------------
(* The steps of a node.                                                    *)

LEMMA NodeEffect ==
    ASSUME EngineInv, NEW t \in Tasks, NodeStep(t)
    PROVE  /\ InLevel /\ t \in levels[current] /\ stage[t] \in Working
           /\ stage[t] # "created" /\ record[t] = "none"
           /\ UNCHANGED <<plan, current, results, run, pools, shutdown, cancels>>
           /\ stage' = [stage EXCEPT ![t] = stage'[t]]
           /\ record' = [record EXCEPT ![t] = record'[t]]
           /\ \/ stage'[t] \in Working \ {"created"} /\ record'[t] = "none"
              \/ stage'[t] = "done" /\ record'[t] \in {"completed", "degraded", "failed"}
           /\ row' \in [Tasks -> {"pending", "running", "completed", "failed"}]
           /\ lost' \in 0..MaxLost
           /\ broken' \subseteq Tasks /\ broken \subseteq broken' /\ broken' \subseteq broken \cup {t}
<1> USE DEF EngineInv
<1>1. stage[t] \in Working \ {"created"}
    BY DEF NodeStep, NodeStarted, NodeReturned, NodeCompleted, NodeFailed, NodeBroken, Moved, Working
<1>2. InLevel /\ t \in levels[current] /\ record[t] = "none"
    BY <1>1 DEF WorkInLevel, StageRecord
<1>3. UNCHANGED <<plan, current, results, run, pools, shutdown, cancels>>
    BY DEF NodeStep, NodeStarted, NodeReturned, NodeCompleted, NodeFailed, NodeBroken, Moved
<1>4. row' \in [Tasks -> {"pending", "running", "completed", "failed"}] /\ lost' \in 0..MaxLost
    <2>1. ASSUME NEW s \in {"running", "completed", "failed"}, RowWritten(t, s)
          PROVE  row' \in [Tasks -> {"pending", "running", "completed", "failed"}]
                 /\ lost' \in 0..MaxLost
        BY <2>1, EngineAssumption DEF RowWritten, TypeOK
    <2> QED
        BY <2>1 DEF NodeStep, NodeStarted, NodeReturned, NodeCompleted, NodeFailed, NodeBroken, TypeOK
<1>0. broken' \subseteq Tasks /\ broken \subseteq broken' /\ broken' \subseteq broken \cup {t}
    BY DEF NodeStep, NodeStarted, NodeReturned, NodeCompleted, NodeFailed, NodeBroken, TypeOK
<1>5. CASE NodeStarted(t)
    BY <1>1, <1>2, <1>3, <1>4, <1>5 DEF NodeStarted, Moved, Working, TypeOK
<1>6. CASE NodeReturned(t)
    BY <1>1, <1>2, <1>3, <1>4, <1>6 DEF NodeReturned, Moved, Working, TypeOK
<1>7. CASE NodeCompleted(t)
    BY <1>1, <1>2, <1>3, <1>4, <1>7 DEF NodeCompleted, Moved, Working, TypeOK
<1>8. CASE NodeFailed(t)
    BY <1>1, <1>2, <1>3, <1>4, <1>8 DEF NodeFailed, Moved, Working, TypeOK, Came
<1>9. CASE NodeBroken(t)
    BY <1>1, <1>2, <1>3, <1>4, <1>9 DEF NodeBroken, Moved, Working, TypeOK
<1> QED
    BY <1>0, <1>5, <1>6, <1>7, <1>8, <1>9 DEF NodeStep

LEMMA NodeInv ==
    ASSUME EngineInv, NEW t \in Tasks, NodeStep(t)
    PROVE  EngineInv'
<1> USE DEF EngineInv
<1>1. /\ InLevel /\ t \in levels[current] /\ stage[t] \in Working /\ stage[t] # "created"
      /\ record[t] = "none"
      /\ UNCHANGED <<plan, current, results, run, pools, shutdown, cancels>>
    BY NodeEffect
<1>2. /\ \/ stage'[t] \in Working \ {"created"} /\ record'[t] = "none"
         \/ stage'[t] = "done" /\ record'[t] \in {"completed", "degraded", "failed"}
      /\ \A u \in Tasks : u # t => stage'[u] = stage[u] /\ record'[u] = record[u]
    BY NodeEffect DEF TypeOK
<1>3. UNCHANGED <<upstream, category, levels>> /\ run = "running" /\ InLevel' /\ t \notin results
    BY <1>1 DEF plan, InLevel, StageRecord, Working
<1>4. TypeOK'
    <2>1. stage' \in [Tasks -> {"waiting", "created", "starting", "executing",
                                "completing", "failing", "done", "gone"}]
          /\ record' \in [Tasks -> {"none", "completed", "degraded", "failed", "skipped"}]
        BY <1>2, NodeEffect DEF TypeOK, Working
    <2>2. row' \in [Tasks -> {"pending", "running", "completed", "failed"}] /\ lost' \in 0..MaxLost
          /\ broken' \subseteq Tasks
        BY NodeEffect
    <2> QED
        BY <1>1, <1>3, <2>1, <2>2 DEF TypeOK
<1>5. Layered' /\ Depth' = Depth
    BY <1>1, <1>3, LayeredStable
<1>6. WorkInLevel'
    BY <1>1, <1>2, <1>3 DEF WorkInLevel
<1>7. BehindFine'
    <2> SUFFICES ASSUME NEW m \in 1..(current - 1), NEW u \in levels[m]
                 PROVE  record'[u] \in Fine /\ u \in results
        BY <1>1, <1>3 DEF BehindFine
    <2>1. record[u] \in Fine /\ u \in results
        BY <1>1 DEF BehindFine
    <2>2. u # t /\ u \in Tasks
        BY <1>3, <2>1 DEF TypeOK
    <2> QED
        BY <1>2, <2>1, <2>2
<1>8. AheadWaits'
    <2> SUFFICES ASSUME NEW m \in 1..Depth, m > current, NEW u \in levels[m]
                 PROVE  stage'[u] = "waiting"
        BY <1>1, <1>3, <1>5 DEF AheadWaits
    <2>1. stage[u] = "waiting" /\ u \in Tasks
        BY <1>3 DEF AheadWaits, Layered
    <2>2. u # t
        BY <1>1, <2>1 DEF Working
    <2> QED
        BY <1>2, <2>1, <2>2
<1>9. StageRecord'
    BY <1>1, <1>2, <1>3 DEF StageRecord, Working
<1>10. OneStart'
    <2>1. levels[current] \subseteq Tasks
        BY <1>1 DEF Layered, TypeOK, Depth, InLevel
    <2>2. \A u \in levels[current] : stage[u] # "created" /\ record[u] # "skipped"
        BY <1>1 DEF OneStart
    <2> QED
        BY <1>1, <1>2, <1>3, <2>1, <2>2 DEF OneStart, Working
<1>11. SkippedByShutdown' /\ ClosingTrue'
    BY <1>1, <1>2, <1>3 DEF SkippedByShutdown, ClosingTrue
<1> QED
    BY <1>4, <1>5, <1>6, <1>7, <1>8, <1>9, <1>10, <1>11

-----------------------------------------------------------------------------
(* The steps of the loop over the levels.                                  *)

LEMMA StartInv == ASSUME EngineInv, StartNodes PROVE EngineInv'
<1> USE DEF EngineInv
<1>1. /\ InLevel /\ run = "running"
      /\ UNCHANGED <<upstream, category, levels>>
      /\ UNCHANGED <<plan, current, results, row, run, pools, shutdown, broken, lost, cancels>>
    BY DEF StartNodes, InLevel, plan
<1>2. levels[current] \subseteq Tasks /\ InLevel'
    BY <1>1 DEF Layered, TypeOK, Depth, InLevel
<1>3. \A t \in levels[current] : stage[t] = "created" /\ record[t] = "none" /\ t \notin results
    <2>1. PICK u \in levels[current] : stage[u] = "created"
        BY DEF StartNodes
    <2> QED
        BY <1>1, <1>2, <2>1 DEF OneStart, StageRecord, Working
<1>4. \A t \in Tasks :
          /\ t \in levels[current] =>
                 \/ shutdown /\ stage'[t] = "done" /\ record'[t] = "skipped"
                 \/ ~shutdown /\ stage'[t] = "starting" /\ record'[t] = "none"
          /\ t \notin levels[current] => stage'[t] = stage[t] /\ record'[t] = record[t]
    BY <1>3 DEF StartNodes, TypeOK
<1>5. TypeOK'
    <2>1. stage' \in [Tasks -> {"waiting", "created", "starting", "executing",
                                "completing", "failing", "done", "gone"}]
          /\ record' \in [Tasks -> {"none", "completed", "degraded", "failed", "skipped"}]
        BY DEF StartNodes, TypeOK
    <2> QED
        BY <1>1, <2>1 DEF TypeOK
<1>6. Layered' /\ Depth' = Depth
    BY <1>1, LayeredStable
<1>7. WorkInLevel'
    BY <1>1, <1>2, <1>4 DEF WorkInLevel, Working
<1>8. BehindFine'
    <2> SUFFICES ASSUME NEW m \in 1..(current - 1), NEW u \in levels[m]
                 PROVE  record'[u] \in Fine /\ u \in results
        BY <1>1 DEF BehindFine
    <2>1. record[u] \in Fine /\ u \in results
        BY <1>1 DEF BehindFine
    <2>2. u \notin levels[current] /\ u \in Tasks
        BY <1>3, <2>1 DEF TypeOK
    <2> QED
        BY <1>4, <2>1, <2>2
<1>9. AheadWaits'
    <2> SUFFICES ASSUME NEW m \in 1..Depth, m > current, NEW u \in levels[m]
                 PROVE  stage'[u] = "waiting"
        BY <1>1, <1>6 DEF AheadWaits
    <2>1. stage[u] = "waiting" /\ u \in Tasks
        BY <1>1 DEF AheadWaits, Layered
    <2>2. u \notin levels[current]
        BY <1>3, <2>1
    <2> QED
        BY <1>4, <2>1, <2>2
<1>10. StageRecord'
    BY <1>1, <1>3, <1>4 DEF StageRecord, Working
<1>11. OneStart'
    BY <1>1, <1>2, <1>4 DEF OneStart
<1>12. SkippedByShutdown' /\ ClosingTrue'
    BY <1>1, <1>4 DEF SkippedByShutdown, ClosingTrue
<1> QED
    BY <1>5, <1>6, <1>7, <1>8, <1>9, <1>10, <1>11, <1>12

\* Level n is next: all before it is fine and has a result, the rest waits.
Ready(n) ==
    /\ run = "running" /\ n \in 1..Depth /\ n >= current
    /\ \A m \in 1..(n - 1) : \A t \in levels[m] : record[t] \in Fine /\ t \in results'
    /\ \A t \in Tasks : t \in results' => stage[t] = "done" /\ record[t] \in Fine
    /\ \A m \in 1..Depth : m >= n => \A t \in levels[m] : stage[t] = "waiting"
    /\ \A t \in Tasks : stage[t] \in {"waiting", "done"}

\* The end of a run, with what its verdict will need.
LEMMA ClosingInv ==
    ASSUME EngineInv, run = "running", NEW verdict, NEW recorded, Closing(verdict, recorded),
           verdict \in {"completing", "failing", "cancelling"},
           recorded \in [Tasks -> {"none", "completed", "degraded", "failed", "skipped"}],
           \A t \in Tasks : stage[t] \in {"waiting", "done"},
           \A t \in Tasks : recorded[t] = record[t] \/ (recorded[t] = "skipped" /\ shutdown),
           \A t \in Tasks : t \in results' => stage[t] = "done" /\ recorded[t] \in Fine,
           results' \subseteq Tasks,
           verdict = "completing" => \A t \in Tasks : recorded[t] \in Fine /\ t \in results',
           verdict = "failing" => \E t \in Tasks : recorded[t] = "failed",
           verdict = "cancelling" => shutdown /\ \A t \in Tasks : recorded[t] # "failed",
           UNCHANGED <<plan, row, shutdown, broken, lost, cancels>>
    PROVE  EngineInv'
<1> USE DEF EngineInv
<1>1. /\ run' = verdict /\ record' = recorded /\ pools' = "closing"
      /\ UNCHANGED <<upstream, category, levels, current, stage, plan>>
    BY DEF Closing, plan
<1>2. TypeOK'
    BY <1>1 DEF TypeOK
<1>3. Layered'
    BY <1>1, LayeredStable
<1>4. WorkInLevel' /\ BehindFine' /\ AheadWaits' /\ OneStart'
    BY <1>1 DEF WorkInLevel, BehindFine, AheadWaits, OneStart, InLevel, Working
<1>5. StageRecord'
    BY <1>1 DEF StageRecord, Working
<1>6. SkippedByShutdown'
    BY <1>1 DEF SkippedByShutdown
<1>7. ClosingTrue'
    BY <1>1 DEF ClosingTrue
<1> QED
    BY <1>2, <1>3, <1>4, <1>5, <1>6, <1>7

LEMMA EnterInv ==
    ASSUME EngineInv, NEW n, Ready(n), EnterLevel(n, results'), results' \subseteq Tasks,
           UNCHANGED <<plan, row, shutdown, broken, lost, cancels>>
    PROVE  EngineInv'
<1> USE DEF EngineInv
<1>1. CASE shutdown
    <2> DEFINE recorded == [t \in Tasks |-> IF t \in results' THEN record[t] ELSE "skipped"]
    <2>1. Closing("cancelling", recorded)
        BY <1>1 DEF EnterLevel
    <2>2. recorded \in [Tasks -> {"none", "completed", "degraded", "failed", "skipped"}]
        BY DEF TypeOK
    <2>3. \A t \in Tasks : /\ recorded[t] = record[t] \/ recorded[t] = "skipped"
                           /\ t \in results' => recorded[t] \in Fine
                           /\ recorded[t] # "failed"
        BY DEF Ready, Fine
    <2> HIDE DEF recorded
    <2> QED
        BY <1>1, <2>1, <2>2, <2>3, ClosingInv DEF Ready
<1>2. CASE ~shutdown
    <2>1. /\ current' = n /\ n \in 1..Depth
          /\ stage' = [t \in Tasks |-> IF t \in levels[n] THEN "created" ELSE stage[t]]
          /\ UNCHANGED <<record, run, pools, upstream, category, levels, plan>>
          /\ run = "running"
        BY <1>2 DEF EnterLevel, Ready, plan
    <2>2. InLevel' /\ levels[n] \subseteq Tasks /\ Depth \in Nat /\ Depth' = Depth /\ n \in Nat
        BY <2>1 DEF InLevel, Layered, Depth
    <2>3. \A t \in levels[n] : stage[t] = "waiting" /\ record[t] = "none" /\ t \notin results'
        <3>1. \A t \in levels[n] : stage[t] = "waiting"
            BY <2>1, <2>2 DEF Ready
        <3> QED
            BY <2>1, <2>2, <3>1 DEF Ready, StageRecord
    <2>4. TypeOK'
        BY <2>1, <2>2 DEF TypeOK, Depth
    <2>5. Layered'
        BY <2>1, LayeredStable
    <2>6. WorkInLevel'
        BY <2>1, <2>2 DEF Ready, WorkInLevel, Working
    <2>7. BehindFine'
        BY <2>1 DEF Ready, BehindFine
    <2>8. AheadWaits'
        <3> SUFFICES ASSUME NEW m \in 1..Depth, m > n, NEW u \in levels[m]
                     PROVE  stage'[u] = "waiting"
            BY <2>1, <2>2 DEF AheadWaits
        <3>1. u \in Tasks /\ u \notin levels[n]
            BY <2>1 DEF Layered
        <3>2. stage[u] = "waiting"
            BY <2>2 DEF Ready
        <3> QED
            BY <2>1, <3>1, <3>2
    <2>9. StageRecord'
        <3> SUFFICES ASSUME NEW t \in Tasks
                     PROVE  /\ stage'[t] \in Working => record[t] = "none"
                            /\ stage'[t] = "waiting" => record[t] = "none"
                            /\ stage'[t] = "done" => record[t] # "none"
                            /\ stage'[t] # "gone"
                            /\ t \in results' => stage'[t] = "done" /\ record[t] \in Fine
            BY <2>1 DEF StageRecord
        <3>1. CASE t \in levels[n]
            BY <2>1, <2>3, <3>1 DEF Working
        <3>2. CASE t \notin levels[n]
            BY <2>1, <3>2 DEF Ready, StageRecord, Working
        <3> QED
            BY <3>1, <3>2
    <2>10. OneStart'
        BY <2>1, <2>2, <2>3 DEF OneStart
    <2>11. SkippedByShutdown' /\ ClosingTrue'
        BY <2>1 DEF SkippedByShutdown, ClosingTrue
    <2> QED
        BY <2>4, <2>5, <2>6, <2>7, <2>8, <2>9, <2>10, <2>11
<1> QED
    BY <1>1, <1>2

LEMMA BeginInv == ASSUME EngineInv, Begin PROVE EngineInv'
<1> USE DEF EngineInv
<1>1. run = "running" /\ current = 0 /\ UNCHANGED <<plan, results, row, shutdown, broken, lost, cancels>>
    BY DEF Begin
<1>2. Depth \in Nat /\ 1 \in 1..Depth
    BY <1>1, SomeDepth
<1>3. \A t \in Tasks : stage[t] = "waiting"
    BY <1>1, Placed DEF AheadWaits, InLevel
<1>4. results = {}
    BY <1>3 DEF StageRecord, TypeOK
<1>5. Ready(1)
    <2>1. \A m \in 1..Depth : levels[m] \subseteq Tasks
        BY DEF Layered
    <2> QED
        BY <1>1, <1>2, <1>3, <1>4, <2>1 DEF Ready
<1>6. EnterLevel(1, results')
    BY <1>1, <1>4 DEF Begin
<1> QED
    BY <1>1, <1>4, <1>5, <1>6, EnterInv

LEMMA LevelDoneInv == ASSUME EngineInv, LevelDone PROVE EngineInv'
<1> USE DEF EngineInv
<1>1. /\ InLevel /\ run = "running" /\ \A t \in levels[current] : stage[t] = "done"
      /\ results' = results \cup {t \in levels[current] : record[t] \in Fine}
      /\ UNCHANGED <<plan, row, shutdown, broken, lost, cancels>>
    BY DEF LevelDone, LevelOver, InLevel
<1>2. current \in 1..Depth /\ Depth \in Nat /\ levels[current] \subseteq Tasks
    BY <1>1 DEF InLevel, TypeOK, Layered, Depth
<1>3. \A t \in Tasks : stage[t] \in {"waiting", "done"}
    BY <1>1 DEF StageRecord, WorkInLevel, Working, TypeOK
<1>4. results' \subseteq Tasks /\ \A t \in Tasks : t \in results' => stage[t] = "done" /\ record[t] \in Fine
    BY <1>1, <1>2 DEF StageRecord, TypeOK
<1>5. \A t \in Tasks : t \in levels[current] \/ record[t] \in Fine \/ record[t] = "none"
    BY <1>1, Placed DEF BehindFine, AheadWaits, StageRecord
<1>6. CASE Some("skipped") /\ Closing("cancelling", record)
    <2>1. \A t \in levels[current] : record[t] = "skipped"
        BY <1>1, <1>6 DEF Some, OneStart
    <2>2. shutdown
        BY <1>2, <1>6 DEF Some, SkippedByShutdown
    <2>3. \A t \in Tasks : record[t] # "failed"
        BY <1>5, <2>1 DEF Fine
    <2> QED
        BY <1>1, <1>3, <1>4, <1>6, <2>2, <2>3, ClosingInv DEF TypeOK
<1>7. CASE Some("failed") /\ Closing("failing", record)
    <2>1. \E t \in Tasks : record[t] = "failed"
        BY <1>2, <1>7 DEF Some
    <2>2. record \in [Tasks -> {"none", "completed", "degraded", "failed", "skipped"}]
        BY DEF TypeOK
    <2> QED
        BY <1>1, <1>3, <1>4, <1>7, <2>1, <2>2, ClosingInv
<1>8. CASE ~Some("skipped") /\ ~Some("failed") /\ GoOn
    <2>1. \A t \in levels[current] : record[t] \in Fine /\ t \in results'
        <3>1. \A t \in levels[current] : record[t] # "none"
            BY <1>1, <1>2 DEF StageRecord
        <3> QED
            BY <1>1, <1>2, <1>8, <3>1 DEF Some, Fine, TypeOK
    <2>2. CASE current < Cardinality(DOMAIN levels) /\ EnterLevel(current + 1, results')
        <3>1. current + 1 \in 1..Depth /\ current + 1 >= current
            BY <1>2, <2>2 DEF Depth
        <3>2. \A m \in 1..((current + 1) - 1) : \A t \in levels[m] : record[t] \in Fine /\ t \in results'
            <4> SUFFICES ASSUME NEW m \in 1..((current + 1) - 1), NEW t \in levels[m]
                         PROVE  record[t] \in Fine /\ t \in results'
                OBVIOUS
            <4>1. m = current \/ m \in 1..(current - 1)
                BY <1>2
            <4> QED
                BY <1>1, <2>1, <4>1 DEF BehindFine
        <3>3. \A m \in 1..Depth : m >= current + 1 => \A t \in levels[m] : stage[t] = "waiting"
            BY <1>1, <1>2 DEF AheadWaits
        <3>4. Ready(current + 1)
            BY <1>1, <1>3, <1>4, <3>1, <3>2, <3>3 DEF Ready
        <3> QED
            BY <1>1, <1>4, <2>2, <3>4, EnterInv
    <2>3. CASE current = Cardinality(DOMAIN levels) /\ Closing("completing", record)
        <3>1. \A t \in Tasks : record[t] \in Fine /\ t \in results'
            <4> SUFFICES ASSUME NEW t \in Tasks PROVE record[t] \in Fine /\ t \in results'
                OBVIOUS
            <4>1. \A m \in 1..Depth : ~(m > current)
                BY <1>2, <2>3 DEF Depth
            <4> QED
                BY <1>1, <2>1, <4>1, Placed DEF BehindFine
        <3>2. record \in [Tasks -> {"none", "completed", "degraded", "failed", "skipped"}]
            BY DEF TypeOK
        <3> QED
            BY <1>1, <1>3, <1>4, <2>3, <3>1, <3>2, ClosingInv
    <2> QED
        BY <1>8, <2>2, <2>3 DEF GoOn
<1> QED
    BY <1>6, <1>7, <1>8 DEF LevelDone

-----------------------------------------------------------------------------
(* The end of a run.                                                       *)

\* A run that is being closed has no node at work and no level to come.
LEMMA EndedInv ==
    ASSUME EngineInv, run # "running", run # "refused", run' \notin {"running", "refused"},
           run' \in Ended \cup {"completing", "failing", "cancelling", "crashing"},
           pools' \in {"open", "closing", "closed"},
           run \in {"crashing", "crashed"} => run' \in {"crashing", "crashed"},
           cancels' \in 0..MaxCancels, shutdown' \in BOOLEAN, shutdown => shutdown',
           UNCHANGED <<plan, current, stage, record, results, row, broken, lost>>,
           ClosingTrue'
    PROVE  EngineInv'
<1> USE DEF EngineInv
<1>1. UNCHANGED <<upstream, category, levels, plan>>
    BY DEF plan
<1>2. TypeOK'
    BY <1>1 DEF TypeOK
<1>3. Layered'
    BY <1>1, LayeredStable
<1>4. WorkInLevel' /\ BehindFine' /\ AheadWaits' /\ OneStart'
    BY DEF WorkInLevel, BehindFine, AheadWaits, OneStart, InLevel
<1>5. StageRecord'
    BY DEF StageRecord
<1>6. SkippedByShutdown'
    BY DEF SkippedByShutdown
<1> QED
    BY <1>2, <1>3, <1>4, <1>5, <1>6

Closings == {"completing", "failing", "cancelling", "crashing"}

LEMMA PoolsInv == ASSUME EngineInv, PoolsClosed PROVE EngineInv'
<1> USE DEF EngineInv
<1>1. /\ pools' = "closed"
      /\ UNCHANGED <<plan, current, stage, record, results, row, run, shutdown, broken, lost, cancels>>
      /\ UNCHANGED <<upstream, category, levels>>
    BY DEF PoolsClosed, plan
<1>2. TypeOK'
    BY <1>1 DEF TypeOK
<1>3. Layered'
    BY <1>1 DEF Layered, Depth, Below
<1>4. WorkInLevel' /\ BehindFine' /\ OneStart'
    BY <1>1 DEF WorkInLevel, BehindFine, OneStart, InLevel
<1>5. AheadWaits'
    BY <1>1 DEF AheadWaits, Depth
<1>6. StageRecord' /\ SkippedByShutdown'
    BY <1>1 DEF StageRecord, SkippedByShutdown
<1>7. ClosingTrue'
    BY <1>1 DEF ClosingTrue
<1> QED
    BY <1>2, <1>3, <1>4, <1>5, <1>6, <1>7

LEMMA FinishInv == ASSUME EngineInv, Finish PROVE EngineInv'
<1> USE DEF EngineInv
<1>1. /\ run \in Closings /\ run' = Verdict
      /\ UNCHANGED <<plan, current, stage, record, results, row, pools, shutdown, broken, lost, cancels>>
      /\ UNCHANGED <<upstream, category, levels>>
    BY DEF Finish, Closings, plan
<1>2. \/ run = "completing" /\ run' = "completed" /\ \E t \in Tasks : category[t] = "destination"
      \/ run = "completing" /\ run' = "failed" /\ \A t \in Tasks : category[t] # "destination"
      \/ run = "failing" /\ run' = "failed"
      \/ run = "cancelling" /\ run' = "cancelled"
      \/ run = "crashing" /\ run' = "crashed"
    <2>1. CASE run = "completing" /\ \E t \in Tasks : category[t] = "destination"
        BY <1>1, <2>1 DEF Verdict
    <2>2. CASE run = "completing" /\ \A t \in Tasks : category[t] # "destination"
        BY <1>1, <2>2 DEF Verdict
    <2>3. CASE run = "failing"
        BY <1>1, <2>3 DEF Verdict
    <2>4. CASE run = "cancelling"
        BY <1>1, <2>4 DEF Verdict
    <2>5. CASE run = "crashing"
        BY <1>1, <2>5 DEF Verdict
    <2> QED
        BY <1>1, <2>1, <2>2, <2>3, <2>4, <2>5 DEF Closings
<1>3. ClosingTrue'
    BY <1>1, <1>2 DEF ClosingTrue
<1> QED
    BY <1>1, <1>2, <1>3, EndedInv DEF TypeOK, Ended

LEMMA CancelInv == ASSUME EngineInv, Cancel PROVE EngineInv'
<1> USE DEF EngineInv
<1>1. /\ cancels' \in 0..MaxCancels /\ cancels' > 0
      /\ UNCHANGED <<plan, results, shutdown, broken, lost>>
      /\ UNCHANGED <<upstream, category, levels>>
    BY EngineAssumption DEF Cancel, TypeOK, plan
<1>2. CASE CancelClose
    <2>1. /\ run \in Closings /\ run' = "crashed"
          /\ UNCHANGED <<current, stage, record, row, pools>>
        BY <1>2 DEF CancelClose, Closings
    <2>2. ClosingTrue'
        BY <1>1, <2>1 DEF ClosingTrue
    <2> QED
        BY <1>1, <2>1, <2>2, EndedInv DEF TypeOK, Ended, Closings
<1>3. CASE CancelLevel
    <2>1. /\ run = "running" /\ run' = "crashing" /\ pools' = "closing"
          /\ stage' = [t \in Tasks |-> IF stage[t] \in {"waiting", "done"} THEN stage[t] ELSE "gone"]
          /\ row' \in [Tasks -> {"pending", "running", "completed", "failed"}]
          /\ UNCHANGED <<current, record>>
        BY <1>3 DEF CancelLevel
    <2>2. TypeOK'
        BY <1>1, <2>1 DEF TypeOK
    <2>3. Layered'
        BY <1>1, <2>1, LayeredStable
    <2>4. WorkInLevel' /\ BehindFine' /\ AheadWaits' /\ OneStart'
        BY <2>1 DEF WorkInLevel, BehindFine, AheadWaits, OneStart, InLevel, Working
    <2>5. StageRecord'
        BY <1>1, <2>1 DEF StageRecord, Working
    <2>6. SkippedByShutdown' /\ ClosingTrue'
        BY <1>1, <2>1 DEF SkippedByShutdown, ClosingTrue
    <2> QED
        BY <2>2, <2>3, <2>4, <2>5, <2>6
<1> QED
    BY <1>2, <1>3 DEF Cancel

LEMMA ShutdownInv == ASSUME EngineInv, Shutdown PROVE EngineInv'
<1> USE DEF EngineInv
<1>1. /\ shutdown' = TRUE
      /\ UNCHANGED <<plan, current, stage, record, results, row, run, pools, broken, lost, cancels>>
      /\ UNCHANGED <<upstream, category, levels>>
    BY DEF Shutdown, plan
<1>2. TypeOK'
    BY <1>1 DEF TypeOK
<1>3. Layered'
    BY <1>1 DEF Layered, Depth, Below
<1>4. WorkInLevel' /\ BehindFine' /\ OneStart'
    BY <1>1 DEF WorkInLevel, BehindFine, OneStart, InLevel
<1>5. AheadWaits'
    BY <1>1 DEF AheadWaits, Depth
<1>6. StageRecord' /\ SkippedByShutdown' /\ ClosingTrue'
    BY <1>1 DEF StageRecord, SkippedByShutdown, ClosingTrue
<1> QED
    BY <1>2, <1>3, <1>4, <1>5, <1>6

LEMMA EngineStep == EngineInv /\ [Next]_vars => EngineInv'
<1> SUFFICES ASSUME EngineInv, [Next]_vars PROVE EngineInv'
    OBVIOUS
<1>1. ASSUME UNCHANGED vars PROVE EngineInv'
    <2>1. /\ UNCHANGED <<current, stage, record, results, row, run, pools, shutdown, broken, lost, cancels>>
          /\ UNCHANGED <<upstream, category, levels>>
        BY <1>1 DEF vars, plan
    <2> QED
        BY <2>1
        DEF EngineInv, TypeOK, Layered, Depth, Below, WorkInLevel, BehindFine, AheadWaits,
            StageRecord, OneStart, SkippedByShutdown, ClosingTrue, InLevel
<1> QED
    BY <1>1, BeginInv, StartInv, LevelDoneInv, PoolsInv, FinishInv, NodeInv, CancelInv, ShutdownInv
    DEF Next, RunStep

-----------------------------------------------------------------------------
(* The rows.                                                               *)

LEMMA RowsStep == EngineInv /\ RowsFollow /\ [Next]_vars => RowsFollow'
<1> SUFFICES ASSUME EngineInv, RowsFollow, [Next]_vars, lost' = 0, NEW u \in Tasks
             PROVE  RowTold(u)'
    BY DEF RowsFollow
<1> USE DEF EngineInv
<1>1. ASSUME NEW t \in Tasks, NodeStep(t) PROVE RowTold(u)'
    <2>1. /\ stage' = [stage EXCEPT ![t] = stage'[t]] /\ record' = [record EXCEPT ![t] = record'[t]]
          /\ record[t] = "none"
          /\ broken \subseteq broken' /\ broken' \subseteq broken \cup {t}
        BY <1>1, NodeEffect
    <2>2. ASSUME NEW s, RowWritten(t, s)
          PROVE  lost = 0 /\ row' = [row EXCEPT ![t] = s]
        BY <2>2, EngineAssumption DEF RowWritten, TypeOK
    <2>3. lost = 0 /\ \A v \in Tasks : v # t => row'[v] = row[v]
        BY <1>1, <2>2
        DEF NodeStep, NodeStarted, NodeReturned, NodeCompleted, NodeFailed, NodeBroken, TypeOK
    <2>4. RowTold(u) /\ RowTold(t)
        BY <2>1, <2>3 DEF RowsFollow
    <2>5. CASE u # t
        BY <2>1, <2>3, <2>4, <2>5 DEF RowTold, TypeOK
    <2>6. CASE u = t
        <3>1. CASE NodeStarted(t)
            <4>1. stage'[t] = "executing" /\ row'[t] = "running" /\ broken' = broken
                   /\ stage[t] = "starting"
                BY <2>2, <3>1 DEF NodeStarted, Moved, TypeOK
            <4> QED
                BY <2>4, <2>6, <4>1 DEF RowTold
        <3>2. CASE NodeReturned(t)
            <4>1. stage[t] = "executing" /\ stage'[t] \in {"completing", "failing"} /\ row' = row
                   /\ broken' = broken
                BY <3>2 DEF NodeReturned, Moved, TypeOK
            <4> QED
                BY <2>4, <2>6, <4>1 DEF RowTold
        <3>3. CASE NodeCompleted(t)
            <4>1. stage'[t] = "done" /\ row'[t] = "completed" /\ record'[t] = "completed"
                   /\ broken' = broken /\ stage[t] = "completing"
                BY <2>2, <3>3 DEF NodeCompleted, Moved, TypeOK
            <4> QED
                BY <2>4, <2>6, <4>1 DEF RowTold
        <3>4. CASE NodeFailed(t)
            <4>1. stage'[t] = "done" /\ row'[t] = "failed" /\ record'[t] \in {"degraded", "failed"}
                   /\ broken' = broken /\ stage[t] = "failing"
                BY <2>2, <3>4 DEF NodeFailed, Moved, TypeOK, Came
            <4> QED
                BY <2>4, <2>6, <4>1 DEF RowTold
        <3>5. CASE NodeBroken(t)
            <4>1. stage[t] = "executing" /\ stage'[t] = "done" /\ row' = row /\ record'[t] = "failed"
                   /\ t \in broken'
                BY <3>5 DEF NodeBroken, Moved, TypeOK
            <4> QED
                BY <2>4, <2>6, <4>1 DEF RowTold
        <3> QED
            BY <1>1, <3>1, <3>2, <3>3, <3>4, <3>5 DEF NodeStep
    <2> QED
        BY <2>5, <2>6
<1>2. ASSUME UNCHANGED <<row, broken, lost>>, StartNodes PROVE RowTold(u)'
    <2>1. RowTold(u)
        BY <1>2 DEF RowsFollow
    <2>2. levels[current] \subseteq Tasks
        BY <1>2 DEF StartNodes, Layered, TypeOK, Depth
    <2>3. u \in levels[current] => stage[u] = "created"
        BY <1>2, <2>2 DEF StartNodes, OneStart, InLevel
    <2>4. \/ stage'[u] = stage[u] /\ record'[u] = record[u]
          \/ stage[u] = "created" /\ stage'[u] = "starting"
          \/ stage[u] = "created" /\ stage'[u] = "done" /\ record'[u] = "skipped"
        BY <1>2, <2>3 DEF StartNodes
    <2> QED
        BY <1>2, <2>1, <2>4 DEF RowTold
<1>3. ASSUME NEW n, NEW known, EnterLevel(n, known), UNCHANGED <<row, broken, lost>>, run = "running",
             \A t \in Tasks : stage[t] = "done" => t \in known,
             n \in 1..Depth, n > current
      PROVE RowTold(u)'
    <2>1. RowTold(u)
        BY <1>3 DEF RowsFollow
    <2>2. CASE shutdown
        <3>1. stage' = stage /\ (u \in known => record'[u] = record[u])
            BY <1>3, <2>2 DEF EnterLevel, Closing
        <3> QED
            BY <1>3, <2>1, <3>1 DEF RowTold
    <2>3. CASE ~shutdown
        <3>1. record' = record /\ stage'[u] = IF u \in levels[n] THEN "created" ELSE stage[u]
            BY <1>3, <2>3 DEF EnterLevel
        <3>2. u \in levels[n] => stage[u] = "waiting"
            BY <1>3 DEF AheadWaits
        <3> QED
            BY <1>3, <2>1, <3>1, <3>2 DEF RowTold
    <2> QED
        BY <2>2, <2>3
<1>4. ASSUME UNCHANGED <<stage, record, row, broken, lost>> PROVE RowTold(u)'
    BY <1>4 DEF RowsFollow, RowTold
<1>5. CASE Begin
    <2>1. run = "running" /\ current = 0 /\ EnterLevel(1, {}) /\ UNCHANGED <<row, broken, lost>>
        BY <1>5 DEF Begin
    <2>2. \A t \in Tasks : stage[t] = "waiting"
        BY <2>1, Placed DEF AheadWaits, InLevel
    <2>3. 1 \in 1..Depth /\ 1 > current
        BY <2>1, SomeDepth
    <2> QED
        BY <1>3, <2>1, <2>2, <2>3
<1>6. CASE LevelDone
    <2>1. LevelOver /\ run = "running" /\ UNCHANGED <<row, broken, lost>>
        BY <1>6 DEF LevelDone, LevelOver
    <2>2. ASSUME NEW verdict, Closing(verdict, record) PROVE RowTold(u)'
        BY <1>4, <2>1, <2>2 DEF Closing
    <2>3. ASSUME ~Some("skipped"), ~Some("failed"), current < Cardinality(DOMAIN levels),
                 EnterLevel(current + 1, results')
          PROVE  RowTold(u)'
        <3>1. current + 1 \in 1..Depth /\ current + 1 > current
            BY <2>3 DEF TypeOK, Layered, Depth
        <3>2. \A t \in Tasks : stage[t] = "done" => t \in results'
            <4> SUFFICES ASSUME NEW t \in Tasks, stage[t] = "done" PROVE t \in results'
                OBVIOUS
            <4>1. record[t] # "none" /\ stage[t] # "waiting"
                BY DEF StageRecord
            <4>2. CASE t \in levels[current]
                BY <2>1, <2>3, <4>1, <4>2 DEF LevelOver, Some, Fine, TypeOK
            <4>3. CASE t \notin levels[current]
                BY <2>1, <4>1, <4>3, Placed DEF LevelOver, BehindFine, AheadWaits
            <4> QED
                BY <4>2, <4>3
        <3> QED
            BY <1>3, <2>1, <2>3, <3>1, <3>2
    <2> QED
        BY <1>6, <2>2, <2>3 DEF LevelDone, GoOn
<1>7. CASE StartNodes
    BY <1>2, <1>7 DEF StartNodes
<1>8. CASE PoolsClosed \/ Finish \/ Shutdown \/ UNCHANGED vars
    BY <1>4, <1>8 DEF PoolsClosed, Finish, Shutdown, vars
<1>9. CASE Cancel /\ CancelClose
    BY <1>4, <1>9 DEF Cancel, CancelClose
<1>10. CASE Cancel /\ CancelLevel
    <2>1. RowTold(u) /\ UNCHANGED <<record, broken>>
        BY <1>10 DEF RowsFollow, Cancel, CancelLevel
    <2>2. stage'[u] = IF stage[u] \in {"waiting", "done"} THEN stage[u] ELSE "gone"
        BY <1>10 DEF CancelLevel
    <2>3. stage[u] \in {"waiting", "done"} => row'[u] = row[u]
        BY <1>10 DEF CancelLevel, Underway
    <2> QED
        BY <2>1, <2>2, <2>3 DEF RowTold
<1> QED
    BY <1>1, <1>5, <1>6, <1>7, <1>8, <1>9, <1>10 DEF Next, RunStep, Cancel

-----------------------------------------------------------------------------
(* The initial states, and the theorems.                                   *)

LEMMA EngineInit == Init => EngineInv /\ RowsFollow
<1> SUFFICES ASSUME Init PROVE EngineInv /\ RowsFollow
    OBVIOUS
<1>1. Layered
    BY LayeredInit
<1>2. TypeOK
    <2>1. /\ DOMAIN levels = 1..Cardinality(DOMAIN levels)
          /\ \A n \in DOMAIN levels : levels[n] \subseteq Tasks
          /\ Cardinality(DOMAIN levels) \in Nat
        BY <1>1 DEF Layered, Depth
    <2>2. current \in 0..Cardinality(DOMAIN levels)
        BY <2>1 DEF Init
    <2>3. run \in {"running", "refused"}
        BY DEF Init
    <2>4. /\ upstream \in [Tasks -> SUBSET Tasks]
          /\ category \in [Tasks -> {"enricher", "destination", "other"}]
          /\ stage \in [Tasks -> {"waiting", "created", "starting", "executing",
                                  "completing", "failing", "done", "gone"}]
          /\ record \in [Tasks -> {"none", "completed", "degraded", "failed", "skipped"}]
          /\ row \in [Tasks -> {"pending", "running", "completed", "failed"}]
        BY DEF Init
    <2>5. /\ results \subseteq Tasks /\ pools \in {"open", "closing", "closed"}
          /\ shutdown \in BOOLEAN /\ broken \subseteq Tasks
        BY DEF Init
    <2>6. lost \in 0..MaxLost /\ cancels \in 0..MaxCancels
        BY EngineAssumption DEF Init
    <2> QED
        BY <2>1, <2>2, <2>3, <2>4, <2>5, <2>6 DEF TypeOK, Ended
<1>3. WorkInLevel /\ BehindFine /\ AheadWaits /\ StageRecord /\ OneStart
    <2>1. \A n \in 1..Depth : levels[n] \subseteq Tasks
        BY <1>1 DEF Layered
    <2> QED
        BY <2>1 DEF Init, WorkInLevel, BehindFine, AheadWaits, StageRecord, OneStart, InLevel, Working
<1>4. SkippedByShutdown /\ ClosingTrue
    BY DEF Init, SkippedByShutdown, ClosingTrue
<1>5. RowsFollow
    BY DEF Init, RowsFollow, RowTold
<1> QED
    BY <1>1, <1>2, <1>3, <1>4, <1>5 DEF EngineInv

LEMMA AlwaysEngineInv == Spec => [](EngineInv /\ RowsFollow)
BY EngineInit, EngineStep, RowsStep, PTL DEF Spec

\* Every variable has its type.
THEOREM EngineTypeCorrect == Spec => []TypeOK
<1>1. EngineInv => TypeOK
    BY DEF EngineInv
<1> QED
    BY <1>1, AlwaysEngineInv, PTL

\* A graph that is refused takes no step, and another is never refused.
LEMMA RefusedStays ==
    ASSUME EngineInv, [Next]_vars
    PROVE  UNCHANGED <<upstream, category, levels>> /\ (run' = "refused" <=> run = "refused")
<1>1. CASE UNCHANGED vars
    BY <1>1 DEF vars, plan
<1>2. CASE \E t \in Tasks : NodeStep(t)
    BY <1>2, NodeEffect DEF plan
<1>3. CASE Begin \/ StartNodes
    BY <1>3 DEF Begin, StartNodes, EnterLevel, Closing, plan
<1>4. CASE LevelDone
    BY <1>4 DEF LevelDone, LevelOver, GoOn, EnterLevel, Closing, plan
<1>5. CASE PoolsClosed \/ Shutdown \/ Cancel
    BY <1>5 DEF PoolsClosed, Shutdown, Cancel, CancelLevel, CancelClose, plan
<1>6. CASE Finish
    <2>1. run' \in {"completed", "failed", "cancelled", "crashed"}
        <3>1. CASE run = "completing" /\ \E t \in Tasks : category[t] = "destination"
            BY <1>6, <3>1 DEF Finish, Verdict
        <3>2. CASE run = "completing" /\ \A t \in Tasks : category[t] # "destination"
            BY <1>6, <3>2 DEF Finish, Verdict
        <3>3. CASE run \in {"failing", "cancelling", "crashing"}
            BY <1>6, <3>3 DEF Finish, Verdict
        <3> QED
            BY <1>6, <3>1, <3>2, <3>3 DEF Finish
    <2> QED
        BY <1>6, <2>1 DEF Finish, plan
<1> QED
    BY <1>1, <1>2, <1>3, <1>4, <1>5, <1>6 DEF Next, RunStep

\* For every graph: it is refused just when it has a circle, and otherwise every
\* task has one level, directly above the highest of its parents.
THEOREM LevelsAlwaysSound == Spec => []LevelsSound
<1>1. LevelsSound /\ EngineInv /\ [Next]_vars => LevelsSound'
    <2> SUFFICES ASSUME LevelsSound, EngineInv, [Next]_vars PROVE LevelsSound'
        OBVIOUS
    <2>1. upstream' = upstream /\ levels' = levels
        BY RefusedStays
    <2>2. (run' = "refused") = (run = "refused")
        BY RefusedStays
    <2>3. (run = "refused") =
              \E S \in (SUBSET Tasks) \ {{}} : \A t \in S : upstream[t] \cap S # {}
        BY DEF LevelsSound
    <2>4. (run' = "refused") =
              \E S \in (SUBSET Tasks) \ {{}} : \A t \in S : upstream'[t] \cap S # {}
        BY <2>1, <2>2, <2>3
    <2>5. run' # "refused" =>
              \A t \in Tasks, n \in DOMAIN levels' :
                  t \in levels'[n] <=>
                      /\ upstream'[t] \subseteq UNION {levels'[m] : m \in 1..(n - 1)}
                      /\ n > 1 => upstream'[t] \cap levels'[n - 1] # {}
        BY <2>1, <2>2 DEF LevelsSound
    <2> QED
        BY <2>4, <2>5 DEF LevelsSound
<1> QED
    BY <1>1, SoundInit, AlwaysEngineInv, PTL DEF Spec

\* A node executes on the results of all its parents, with every ancestor done
\* and none of them failed or skipped.
THEOREM InputsAlwaysSound == Spec => []SoundInputs
<1>1. EngineInv => SoundInputs
    <2> SUFFICES ASSUME EngineInv, NEW t \in Tasks, stage[t] = "executing"
                 PROVE  /\ upstream[t] \subseteq results
                        /\ \E S \in SUBSET Tasks :
                              /\ upstream[t] \subseteq S
                              /\ \A a \in S : record[a] \in Fine /\ upstream[a] \subseteq S
        BY DEF SoundInputs
    <2>1. InLevel /\ t \in levels[current] /\ current \in 1..Depth /\ Depth \in Nat
        BY DEF EngineInv, WorkInLevel, Working, TypeOK, Depth, InLevel, Layered
    <2> DEFINE S == Below(current)
    <2>2. upstream[t] \subseteq S
        BY <2>1 DEF EngineInv, Layered
    <2>3. \A a \in S : record[a] \in Fine /\ a \in results
        BY <2>1 DEF EngineInv, BehindFine, Below
    <2>4. S \subseteq Tasks
        BY <2>3 DEF EngineInv, TypeOK
    <2>5. \A a \in S : upstream[a] \subseteq S
        <3> SUFFICES ASSUME NEW m \in 1..(current - 1), NEW a \in levels[m]
                     PROVE  upstream[a] \subseteq S
            BY DEF Below
        <3>1. m \in 1..Depth
            BY <2>1
        <3>2. upstream[a] \subseteq Below(m)
            BY <3>1 DEF EngineInv, Layered
        <3>3. 1..(m - 1) \subseteq 1..(current - 1)
            BY <2>1
        <3> QED
            BY <3>2, <3>3 DEF Below
    <2> QED
        BY <2>2, <2>3, <2>4, <2>5
<1> QED
    BY <1>1, AlwaysEngineInv, PTL

\* What a run is recorded as is what happened, whatever fails and whenever the
\* run is stopped or cancelled.
THEOREM VerdictAlwaysTrue == Spec => []VerdictTrue
<1>1. EngineInv => VerdictTrue
    <2> SUFFICES ASSUME EngineInv PROVE VerdictTrue
        OBVIOUS
    <2>1. ASSUME run = "completed"
          PROVE  (\A t \in Tasks : record[t] \in Fine) /\ \E t \in results : category[t] = "destination"
        BY <2>1 DEF EngineInv, ClosingTrue
    <2>2. /\ run = "failed" => \/ \E t \in Tasks : record[t] = "failed"
                               \/ \A t \in Tasks : category[t] # "destination"
          /\ run = "cancelled" => shutdown /\ \A t \in Tasks : record[t] # "failed"
          /\ run = "crashed" => cancels > 0
        BY DEF EngineInv, ClosingTrue
    <2> QED
        BY <2>1, <2>2 DEF VerdictTrue
<1> QED
    BY <1>1, AlwaysEngineInv, PTL

\* Whichever way a run ends, if no row write failed its rows tell what became of
\* its nodes: a broken one reads running for good, and only the rows of nodes that
\* a cancellation cut off are left open.
THEOREM HistoryAlwaysTrue == Spec => []HistoryTrue
<1>1. EngineInv /\ RowsFollow => HistoryTrue
    <2> SUFFICES ASSUME EngineInv, RowsFollow, run \in Ended, lost = 0,
                        NEW t \in Tasks, stage[t] # "gone"
                 PROVE  Told(t)
        BY DEF HistoryTrue
    <2>1. RowTold(t)
        BY DEF RowsFollow
    <2>2. stage[t] \in {"waiting", "done"}
        BY DEF Ended, EngineInv, TypeOK, WorkInLevel, StageRecord, Working, InLevel
    <2>3. CASE stage[t] = "waiting"
        BY <2>1, <2>3 DEF Told, RowTold, EngineInv, StageRecord
    <2>4. CASE stage[t] = "done"
        BY <2>1, <2>4 DEF Told, RowTold, EngineInv, StageRecord
    <2> QED
        BY <2>2, <2>3, <2>4
<1> QED
    BY <1>1, AlwaysEngineInv, PTL
=============================================================================
