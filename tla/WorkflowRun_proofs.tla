------------------------- MODULE WorkflowRun_proofs -------------------------
(***************************************************************************)
(* Proofs about WorkflowRun, for any number of runs and processes and any   *)
(* length of behaviour:                                                     *)
(*   - type correctness;                                                    *)
(*   - TerminalIsFinal, whatever the heartbeat does;                        *)
(*   - ExclusiveExecution and ImplementsLease, when a live ticker never     *)
(*     falls behind by more than the stale threshold.                       *)
(***************************************************************************)
EXTENDS WorkflowRun, TLAPS

-----------------------------------------------------------------------------
(* The inductive invariants.                                               *)

\* The rows uq_workflow_runs_active lets through.
OneActiveRow == \A r, q \in Runs :
    row[r].status \in Active /\ row[q].status \in Active => r = q

\* The RUNNING write, which no guard protects, only ever finds a pending row.
StartsPending == \A r \in Runs :
    task[r] \in {"accepted", "starting"} => row[r].status = "pending"

TaskHasRow == \A r \in Runs : Live(r) => row[r].status # "absent"

\* A run the sweeper has listed was running.
ListedHasRun == \A p \in Processes, r \in Runs :
    r \in sweeper[p].listed => row[r].status \in {"running"} \cup Terminal

RowInv ==
    /\ TypeOK
    /\ OneActiveRow /\ StartsPending /\ TaskHasRow /\ ListedHasRun

\* The condition under which no live run looks stale.
LagCovered == HeartbeatLag <= StaleThreshold

\* A live run that is running gave a sign of life within HeartbeatLag.
SignIsFresh == \A r \in Runs :
    Live(r) /\ row[r].status = "running" => clock <= LastSign(r) + HeartbeatLag

\* The coroutine of a listed run is gone.
ListedIsDead == \A p \in Processes, r \in Runs :
    r \in sweeper[p].listed => task[r] = "none"

ExecutingIsRunning == \A r \in Runs :
    task[r] = "executing" => row[r].status = "running"

OwnInv == LagCovered /\ RowInv /\ SignIsFresh /\ ListedIsDead /\ ExecutingIsRunning

-----------------------------------------------------------------------------
(* What the operators the actions are built from do.                       *)

LEMMA Times == clock \in Time => clock \in Int /\ Never \in Int /\ Time \subseteq Int
BY BoundsAssumption DEF Time, Never

\* The fields of a row after each kind of write.
LEMMA PendingFields ==
    /\ Pending \in Row /\ Pending.status = "pending"
    /\ Absent \in Row /\ Absent.status = "absent"
<1>1. Absent \in Row /\ Absent.status = "absent"
    BY DEF Absent, Row, Active, Terminal
<1> QED
    BY <1>1 DEF Pending, Row, Active, Terminal

LEMMA RunningFields ==
    ASSUME NEW w \in Row, NEW t \in Time
    PROVE  /\ Running(w, t) \in Row
           /\ Running(w, t).status = "running"
           /\ Running(w, t).started = t
           /\ Running(w, t).beat = w.beat
<1> DEFINE v == [w EXCEPT !.status = "running"]
           u == [v EXCEPT !.started = t]
<1>1. v \in Row /\ v.status = "running" /\ v.beat = w.beat
    BY DEF Row, Active
<1> HIDE DEF v
<1>2. u \in Row /\ u.status = "running" /\ u.started = t /\ u.beat = w.beat
    BY <1>1 DEF Row
<1> QED
    BY <1>2 DEF v, Running

LEMMA BeatenFields ==
    ASSUME NEW w \in Row, NEW t \in Time
    PROVE  /\ Beaten(w, t) \in Row
           /\ Beaten(w, t).status = w.status
           /\ Beaten(w, t).started = w.started
           /\ Beaten(w, t).beat = t
BY DEF Beaten, Row

LEMMA FinishedFields ==
    ASSUME NEW w \in Row, NEW status \in Terminal
    PROVE  /\ Finished(w, status) \in Row
           /\ Finished(w, status).status \in Terminal
           /\ w.status \in Terminal => Finished(w, status) = w
BY DEF Finished, Row

\* The sweeper is idle after its first tick, a wake-up and a finished tick.
LEMMA SweeperFields ==
    ASSUME TypeOK, NEW p \in Processes, NEW woken \in BOOLEAN
    PROVE  /\ FirstTick \in Sweeper /\ FirstTick.listed = {}
           /\ Asleep(p, woken) \in Sweeper /\ Asleep(p, woken).listed = {}
           /\ Woken(sweeper[p]) \in Sweeper
           /\ Woken(sweeper[p]).listed = sweeper[p].listed
<1>1. Delay(p) \in Nat
    BY SettingsAssumption DEF Delay
<1>2. Capped(clock + Delay(p)) \in Time
    <2>1. PICK t \in Nat : t = clock + Delay(p)
        BY <1>1, BoundsAssumption DEF TypeOK, Time
    <2> QED
        BY <2>1, BoundsAssumption DEF Capped, Time
<1>3. FirstTick \in Sweeper /\ FirstTick.listed = {}
    BY BoundsAssumption DEF FirstTick, Sweeper, Time
<1>4. Asleep(p, woken) \in Sweeper /\ Asleep(p, woken).listed = {}
    <2> DEFINE t == Capped(clock + Delay(p))
    <2>1. Asleep(p, woken) = [at |-> t, woken |-> woken, listed |-> {}]
        BY DEF Asleep
    <2>2. t \in Time
        BY <1>2
    <2> HIDE DEF t
    <2> QED
        BY <2>1, <2>2 DEF Sweeper
<1>5. Woken(sweeper[p]) \in Sweeper /\ Woken(sweeper[p]).listed = sweeper[p].listed
    BY DEF TypeOK, Woken, Sweeper
<1> QED
    BY <1>3, <1>4, <1>5

\* One step of one task changes that task only.
LEMMA SetTaskEffect ==
    ASSUME TypeOK, NEW r \in Runs, NEW state \in Task, SetTask(r, state)
    PROVE  /\ task' \in [Runs -> Task]
           /\ task'[r] = state
           /\ \A q \in Runs : q # r => task'[q] = task[q]
BY DEF TypeOK, SetTask

\* The write a task has in flight touches its own row.
LEMMA WrittenEffect ==
    ASSUME TypeOK, NEW r \in Runs, row' = Written(r)
    PROVE  /\ row' \in [Runs -> Row]
           /\ task[r] = "starting" => row'[r] = Running(row[r], clock)
           /\ task[r] \in Terminal => row'[r] = Finished(row[r], task[r])
           /\ task[r] \notin {"starting"} \cup Terminal => row'[r] = row[r]
           /\ \A q \in Runs : q # r => row'[q] = row[q]
<1> DEFINE w == IF task[r] = "starting" THEN Running(row[r], clock)
                ELSE IF task[r] \in Terminal THEN Finished(row[r], task[r])
                ELSE row[r]
<1>1. row' = [row EXCEPT ![r] = w]
    BY DEF Written
<1>2. w \in Row
    BY RunningFields, FinishedFields DEF TypeOK
<1>3. /\ task[r] = "starting" => w = Running(row[r], clock)
      /\ task[r] \in Terminal => w = Finished(row[r], task[r])
      /\ task[r] \notin {"starting"} \cup Terminal => w = row[r]
    BY DEF Terminal
<1> HIDE DEF w
<1> QED
    BY <1>1, <1>2, <1>3 DEF TypeOK

-----------------------------------------------------------------------------
(* Type correctness.                                                       *)

LEMMA TypeInit == Init => TypeOK
<1> SUFFICES ASSUME Init PROVE TypeOK
    OBVIOUS
<1>1. row \in [Runs -> Row] /\ FirstTick \in Sweeper
    BY PendingFields, BoundsAssumption DEF Init, FirstTick, Sweeper, Time
<1> QED
    BY <1>1, BoundsAssumption DEF Init, TypeOK, Task, Time

LEMMA TypeStep == TypeOK /\ [Next]_vars => TypeOK'
<1> SUFFICES ASSUME TypeOK, [Next]_vars PROVE TypeOK'
    OBVIOUS
<1> USE DEF TypeOK
<1>s. TRUE \in BOOLEAN /\ FALSE \in BOOLEAN
    OBVIOUS
<1>1. ASSUME NEW p \in Processes, NEW r \in Runs, CreateRun(p, r) PROVE TypeOK'
    BY <1>1, PendingFields, SetTaskEffect DEF CreateRun, Task
<1>2. ASSUME NEW p \in Processes, NEW r \in Runs, Begin(p, r) PROVE TypeOK'
    BY <1>2, SweeperFields, SetTaskEffect, <1>s DEF Begin, Task
<1>3. ASSUME NEW r \in Runs, StartWrite(r) PROVE TypeOK'
    BY <1>3, WrittenEffect, SetTaskEffect DEF StartWrite, Task
<1>4. ASSUME NEW r \in Runs, Bump(r) PROVE TypeOK'
    BY <1>4, BeatenFields DEF Bump
<1>5. ASSUME NEW r \in Runs, NEW status \in {"completed", "failed", "cancelled"},
             BodyEnds(r, status)
      PROVE TypeOK'
    BY <1>5, SetTaskEffect DEF BodyEnds, Task, Terminal
<1>6. ASSUME NEW r \in Runs, TerminalWrite(r) PROVE TypeOK'
    BY <1>6, WrittenEffect, SetTaskEffect DEF TerminalWrite, Task
<1>7. ASSUME NEW r \in Runs, NEW status \in Terminal, Raise(r, status)
      PROVE row' \in [Runs -> Row] /\ task' \in [Runs -> Task]
    BY <1>7, WrittenEffect, SetTaskEffect DEF Raise, Task
<1>8. ASSUME NEW r \in Runs, WriteFails(r) PROVE TypeOK'
    BY <1>7, <1>8 DEF WriteFails, Terminal
<1>9. ASSUME NEW r \in Runs, Cancel(r) PROVE TypeOK'
    BY <1>7, <1>9, BoundsAssumption DEF Cancel, Terminal
<1>10. ASSUME NEW p \in Processes, SweepList(p) PROVE TypeOK'
    <2> DEFINE listed == {r \in Runs : Stalled(r)}
               loop == [at |-> clock, woken |-> FALSE, listed |-> listed]
    <2>1. loop \in Sweeper
        BY <1>s DEF Sweeper
    <2>2. sweeper' = [sweeper EXCEPT ![p] = IF listed = {} THEN Asleep(p, FALSE) ELSE loop]
        BY <1>10 DEF SweepList
    <2> HIDE DEF listed, loop
    <2> QED
        BY <1>10, <2>1, <2>2, SweeperFields, <1>s DEF SweepList
<1>11. ASSUME NEW p \in Processes, SweepWrite(p) PROVE TypeOK'
    <2>1. row' \in [Runs -> Row]
        BY <1>11, FinishedFields DEF SweepWrite, Terminal
    <2>2. sweeper[p].woken \in BOOLEAN
        BY DEF Sweeper
    <2> QED
        BY <1>11, <2>1, <2>2, SweeperFields DEF SweepWrite
<1>12. ASSUME NEW p \in Processes, SweepFails(p) PROVE TypeOK'
    <2>1. sweeper[p].woken \in BOOLEAN
        BY DEF Sweeper
    <2> QED
        BY <1>12, <2>1, SweeperFields DEF SweepFails
<1>13. ASSUME NEW p \in Processes, Crash(p) PROVE TypeOK'
    <2>1. task' \in [Runs -> Task]
        BY <1>13 DEF Crash, Task
    <2>2. sweeper' \in [Processes -> Sweeper]
        BY <1>13, SweeperFields, <1>s DEF Crash
    <2>3. faults' \in 0..MaxFaults
        BY <1>13, BoundsAssumption DEF Crash
    <2>4. crew' \in [Processes -> SUBSET Runs]
        BY <1>13 DEF Crash
    <2> QED
        BY <1>13, <2>1, <2>2, <2>3, <2>4 DEF Crash
<1>14. ASSUME NEW p \in Processes, Start(p) PROVE TypeOK'
    BY <1>14 DEF Start
<1>15. ASSUME Advance PROVE TypeOK'
    BY <1>15, BoundsAssumption DEF Advance, Time
<1>16. CASE UNCHANGED vars
    BY <1>16 DEF vars
<1> QED
    BY <1>1, <1>2, <1>3, <1>4, <1>5, <1>6, <1>8, <1>9, <1>10, <1>11, <1>12, <1>13,
       <1>14, <1>15, <1>16 DEF Next, RunStep, ProcessStep

\* Every reachable state is well typed.
THEOREM RunTypeCorrect == Spec => []TypeOK
<1> QED
    BY TypeInit, TypeStep, PTL DEF Spec

-----------------------------------------------------------------------------
(* What a step other than CreateRun does to one run, and what it lists.     *)

\* The row keeps its status, and at most gains a heartbeat.
Keeps(r) ==
    /\ row'[r].status = row[r].status
    /\ row'[r].started = row[r].started
    /\ row'[r].beat \in {row[r].beat, clock}

\* A pending row is started by its own task, which moves on.
Starts(r) ==
    /\ row[r].status = "pending" /\ row'[r].status = "running"
    /\ row'[r].started = clock /\ row'[r].beat = row[r].beat
    /\ task[r] = "starting" /\ task'[r] \notin {"accepted", "starting"}

\* An active row is finished, by a task that moves on or by a sweeper.
Finishes(r) ==
    /\ row[r].status \in Active /\ row'[r].status \in Terminal
    /\ \/ task[r] \in Terminal /\ task'[r] \notin {"accepted", "starting", "executing"}
       \/ \E p \in Processes : r \in sweeper[p].listed

TaskMoves(r) ==
    \/ task'[r] = task[r]
    \/ task'[r] = "none"
    \/ task[r] = "accepted" /\ task'[r] = "starting"
    \/ task[r] = "starting" /\ task'[r] = "executing" /\ row'[r].status = "running"
    \/ Ticking(r) /\ task'[r] \in Terminal

Lists(p, r) ==
    r \in sweeper'[p].listed =>
        \/ r \in sweeper[p].listed
        \/ Stalled(r) /\ row'[r] = row[r] /\ task'[r] = task[r]

RunMoves(r) == (Keeps(r) \/ Starts(r) \/ Finishes(r)) /\ TaskMoves(r)

\* A step that changes neither rows nor tasks.
LEMMA Untouched ==
    ASSUME NEW r \in Runs, row' = row, task' = task
    PROVE  RunMoves(r)
BY DEF RunMoves, Keeps, TaskMoves

\* A status write of a task that may have landed before it raised.
LEMMA RaiseMoves ==
    ASSUME RowInv, NEW r \in Runs, NEW status \in Terminal, Raise(r, status), NEW q \in Runs
    PROVE  RunMoves(q)
<1> USE DEF RowInv
<1>t. status \in Task /\ "none" \in Task
    BY DEF Task
<1>1. /\ task'[r] = IF Ticking(r) THEN status ELSE "none"
      /\ \A z \in Runs : z # r => task'[z] = task[z]
    BY <1>t, SetTaskEffect DEF Raise
<1>2. TaskMoves(q)
    BY <1>1 DEF TaskMoves
<1>3. CASE row' = row
    BY <1>2, <1>3 DEF RunMoves, Keeps
<1>4. CASE row' = Written(r)
    <2>1. CASE q # r
        BY <1>2, <1>4, <2>1, WrittenEffect DEF RunMoves, Keeps
    <2>2. CASE q = r /\ task[r] = "starting"
        <3>1. row'[r] = Running(row[r], clock) /\ row[r].status = "pending"
            BY <1>4, <2>2, WrittenEffect DEF StartsPending
        <3>2. task'[r] \notin {"accepted", "starting"}
            BY <1>1 DEF Terminal
        <3>3. Starts(r)
            BY <2>2, <3>1, <3>2, RunningFields DEF Starts, TypeOK
        <3> QED
            BY <1>2, <2>2, <3>3 DEF RunMoves
    <2>3. CASE q = r /\ task[r] \in Terminal
        <3>1. row'[r] = Finished(row[r], task[r]) /\ row[r].status # "absent"
            BY <1>4, <2>3, WrittenEffect DEF TaskHasRow, Live, Terminal
        <3>2. task'[r] \notin {"accepted", "starting", "executing"}
            BY <1>1 DEF Terminal
        <3>3. CASE row[r].status \in Terminal
            BY <1>2, <2>3, <3>1, <3>3, FinishedFields DEF RunMoves, Keeps, TypeOK
        <3>4. CASE row[r].status \in Active
            BY <1>2, <2>3, <3>1, <3>2, <3>4, FinishedFields DEF RunMoves, Finishes, TypeOK
        <3> QED
            BY <3>1, <3>3, <3>4 DEF TypeOK, Row
    <2>4. CASE q = r /\ task[r] \notin {"starting"} \cup Terminal
        BY <1>2, <1>4, <2>4, WrittenEffect DEF RunMoves, Keeps
    <2> QED
        BY <2>1, <2>2, <2>3, <2>4
<1> QED
    BY <1>3, <1>4 DEF Raise

\* A sweep that writes: the listed rows are finished, no task moves.
LEMMA SweepMoves ==
    ASSUME RowInv, NEW p \in Processes, SweepWrite(p), NEW r \in Runs
    PROVE  RunMoves(r)
<1>1. TaskMoves(r)
    BY DEF SweepWrite, TaskMoves
<1>2. CASE r \notin sweeper[p].listed
    BY <1>1, <1>2 DEF SweepWrite, RunMoves, Keeps
<1>3. CASE r \in sweeper[p].listed
    <2>1. /\ row'[r] = Finished(row[r], "crashed")
          /\ row[r].status \in {"running"} \cup Terminal
          /\ row[r] \in Row
        BY <1>3 DEF SweepWrite, RowInv, ListedHasRun, TypeOK
    <2>2. CASE row[r].status \in Terminal
        BY <1>1, <2>1, <2>2, FinishedFields DEF RunMoves, Keeps, Terminal
    <2>3. CASE row[r].status = "running"
        BY <1>1, <1>3, <2>1, <2>3, FinishedFields DEF RunMoves, Finishes, Terminal, Active
    <2> QED
        BY <2>1, <2>2, <2>3
<1> QED
    BY <1>2, <1>3

\* Every step but CreateRun moves every run as above.
LEMMA StepMoves ==
    ASSUME RowInv, [Next]_vars, NEW q \in Runs
    PROVE  RunMoves(q) \/ \E p \in Processes, r \in Runs : CreateRun(p, r)
<1> USE DEF RowInv
<1>1. ASSUME NEW p \in Processes, NEW r \in Runs, Begin(p, r) PROVE RunMoves(q)
    BY <1>1, SetTaskEffect DEF Begin, RunMoves, Keeps, TaskMoves, Task
<1>2. ASSUME NEW r \in Runs, StartWrite(r) PROVE RunMoves(q)
    <2>1. /\ task'[r] = "executing"
          /\ \A z \in Runs : z # r => task'[z] = task[z]
        BY <1>2, SetTaskEffect DEF StartWrite, Task
    <2>2. /\ row'[r] = Running(row[r], clock) /\ row[r].status = "pending"
          /\ \A z \in Runs : z # r => row'[z] = row[z]
        BY <1>2, WrittenEffect DEF StartWrite, StartsPending
    <2>3. Running(row[r], clock).status = "running"
        BY RunningFields DEF TypeOK
    <2>4. TaskMoves(q)
        BY <1>2, <2>1, <2>2, <2>3 DEF StartWrite, TaskMoves
    <2>5. CASE q # r
        BY <2>2, <2>4, <2>5 DEF RunMoves, Keeps
    <2>6. CASE q = r
        BY <1>2, <2>1, <2>2, <2>4, <2>6, RunningFields DEF RunMoves, Starts, StartWrite, TypeOK
    <2> QED
        BY <2>5, <2>6
<1>3. ASSUME NEW r \in Runs, Bump(r) PROVE RunMoves(q)
    <2>1. row'[q] = row[q] \/ row'[q] = Beaten(row[q], clock)
        BY <1>3 DEF Bump, TypeOK
    <2> QED
        BY <1>3, <2>1, BeatenFields DEF Bump, RunMoves, Keeps, TaskMoves, TypeOK
<1>4. ASSUME NEW r \in Runs, NEW status \in {"completed", "failed", "cancelled"},
             BodyEnds(r, status)
      PROVE RunMoves(q)
    BY <1>4, SetTaskEffect DEF BodyEnds, RunMoves, Keeps, TaskMoves, Ticking, Task, Terminal
<1>5. ASSUME NEW r \in Runs, TerminalWrite(r) PROVE RunMoves(q)
    <2>1. /\ task'[r] = "none"
          /\ \A z \in Runs : z # r => task'[z] = task[z]
        BY <1>5, SetTaskEffect DEF TerminalWrite, Task
    <2>2. /\ row'[r] = Finished(row[r], task[r]) /\ row[r].status # "absent"
          /\ \A z \in Runs : z # r => row'[z] = row[z]
        BY <1>5, WrittenEffect DEF TerminalWrite, TaskHasRow, Live, Terminal
    <2>3. TaskMoves(q)
        BY <2>1 DEF TaskMoves
    <2>4. CASE q # r
        BY <2>2, <2>3, <2>4 DEF RunMoves, Keeps
    <2>5. CASE q = r /\ row[r].status \in Terminal
        BY <1>5, <2>2, <2>3, <2>5, FinishedFields DEF RunMoves, Keeps, TerminalWrite, TypeOK
    <2>6. CASE q = r /\ row[r].status \in Active
        BY <1>5, <2>1, <2>2, <2>3, <2>6, FinishedFields
           DEF RunMoves, Finishes, TerminalWrite, TypeOK
    <2> QED
        BY <2>2, <2>4, <2>5, <2>6 DEF TypeOK, Row
<1>6. ASSUME NEW r \in Runs, WriteFails(r) PROVE RunMoves(q)
    BY <1>6, RaiseMoves DEF WriteFails, Terminal
<1>7. ASSUME NEW r \in Runs, Cancel(r) PROVE RunMoves(q)
    BY <1>7, RaiseMoves DEF Cancel, Terminal
<1>8. ASSUME NEW p \in Processes, SweepWrite(p) PROVE RunMoves(q)
    BY <1>8, SweepMoves
<1>9. ASSUME NEW p \in Processes, SweepList(p) \/ SweepFails(p) \/ Start(p)
      PROVE RunMoves(q)
    BY <1>9, Untouched DEF SweepList, SweepFails, Start
<1>10. ASSUME NEW p \in Processes, Crash(p) PROVE RunMoves(q)
    BY <1>10 DEF Crash, RunMoves, Keeps, TaskMoves
<1>11. CASE Advance \/ UNCHANGED vars
    BY <1>11, Untouched DEF Advance, vars
<1> QED
    BY <1>1, <1>2, <1>3, <1>4, <1>5, <1>6, <1>7, <1>8, <1>9, <1>10, <1>11
       DEF Next, RunStep, ProcessStep

\* Only SweepList lists a run, and only a stalled one.
LEMMA StepLists ==
    ASSUME TypeOK, [Next]_vars, NEW p \in Processes, NEW r \in Runs
    PROVE  Lists(p, r)
<1> USE DEF TypeOK
<1>b. FALSE \in BOOLEAN /\ TRUE \in BOOLEAN /\ \A q \in Processes : sweeper[q].woken \in BOOLEAN
    BY DEF Sweeper
<1>1. ASSUME NEW q \in Processes, NEW z \in Runs, Begin(q, z) PROVE Lists(p, r)
    BY <1>1, <1>b, SweeperFields DEF Begin, Lists
<1>2. ASSUME NEW q \in Processes, SweepList(q) PROVE Lists(p, r)
    <2> DEFINE listed == {z \in Runs : Stalled(z)}
               loop == [at |-> clock, woken |-> FALSE, listed |-> listed]
    <2>1. sweeper' = [sweeper EXCEPT ![q] = IF listed = {} THEN Asleep(q, FALSE) ELSE loop]
        BY <1>2 DEF SweepList
    <2>2. loop.listed = listed
        OBVIOUS
    <2>3. r \in listed => Stalled(r)
        OBVIOUS
    <2> HIDE DEF listed, loop
    <2>4. r \in sweeper'[p].listed => r \in sweeper[p].listed \/ r \in listed
        BY <2>1, <2>2, <1>b, SweeperFields
    <2> QED
        BY <1>2, <2>3, <2>4 DEF SweepList, Lists
<1>3. ASSUME NEW q \in Processes, SweepWrite(q) \/ SweepFails(q) PROVE Lists(p, r)
    <2>1. sweeper' = [sweeper EXCEPT ![q] = Asleep(q, sweeper[q].woken)]
        BY <1>3 DEF SweepWrite, SweepFails
    <2> QED
        BY <2>1, <1>b, SweeperFields DEF Lists
<1>4. ASSUME NEW q \in Processes, Crash(q) PROVE Lists(p, r)
    BY <1>4, <1>b, SweeperFields DEF Crash, Lists
<1>5. ASSUME UNCHANGED sweeper PROVE Lists(p, r)
    BY <1>5 DEF Lists
<1>6. ASSUME NEW z \in Runs, RunStep(z) PROVE UNCHANGED sweeper
    BY <1>6 DEF RunStep, StartWrite, Bump, BodyEnds, TerminalWrite, WriteFails, Cancel
<1>7. ASSUME NEW q \in Processes, NEW z \in Runs, CreateRun(q, z) PROVE UNCHANGED sweeper
    BY <1>7 DEF CreateRun
<1>8. ASSUME NEW q \in Processes, Start(q) PROVE UNCHANGED sweeper
    BY <1>8 DEF Start
<1>9. CASE Advance \/ UNCHANGED vars
    BY <1>9, <1>5 DEF Advance, vars
<1> QED
    BY <1>1, <1>2, <1>3, <1>4, <1>5, <1>6, <1>7, <1>8, <1>9 DEF Next, ProcessStep

\* What CreateRun does: one absent row becomes the only active one.
LEMMA CreateEffect ==
    ASSUME TypeOK, NEW p \in Processes, NEW r \in Runs, CreateRun(p, r)
    PROVE  /\ row[r].status = "absent" /\ row'[r] = Pending /\ task'[r] = "accepted"
           /\ \A q \in Runs : row[q].status \notin Active
           /\ \A q \in Runs : q # r => row'[q] = row[q] /\ task'[q] = task[q]
           /\ clock' = clock /\ sweeper' = sweeper
BY SetTaskEffect DEF CreateRun, TypeOK, Task

-----------------------------------------------------------------------------
(* The rows: RowInv is inductive, and a terminal status is final.           *)

LEMMA RowInvInit == Init => RowInv
<1> SUFFICES ASSUME Init PROVE RowInv
    OBVIOUS
<1>1. \A r \in Runs : row[r].status = "absent" /\ task[r] = "none"
    BY PendingFields DEF Init
<1>2. \A p \in Processes : sweeper[p].listed = {}
    BY DEF Init, FirstTick
<1> QED
    BY <1>1, <1>2, TypeInit
       DEF RowInv, OneActiveRow, StartsPending, TaskHasRow, ListedHasRun, Active, Live

LEMMA RowInvStep == RowInv /\ [Next]_vars => RowInv'
<1> SUFFICES ASSUME RowInv, [Next]_vars PROVE RowInv'
    OBVIOUS
<1>t. TypeOK /\ TypeOK'
    BY TypeStep DEF RowInv
<1>l. \A p \in Processes, r \in Runs : Lists(p, r)
    BY <1>t, StepLists
<1>1. CASE \E p \in Processes, r \in Runs : CreateRun(p, r)
    <2>1. PICK p \in Processes, r \in Runs : CreateRun(p, r)
        BY <1>1
    <2>2. /\ row[r].status = "absent" /\ row'[r].status = "pending"
          /\ task'[r] = "accepted"
          /\ \A q \in Runs : row[q].status \notin Active
          /\ \A q \in Runs : q # r => row'[q] = row[q] /\ task'[q] = task[q]
          /\ sweeper' = sweeper
        BY <1>t, <2>1, CreateEffect, PendingFields
    <2>3. OneActiveRow'
        BY <2>2 DEF OneActiveRow
    <2>4. StartsPending'
        BY <2>2 DEF RowInv, StartsPending
    <2>5. TaskHasRow'
        BY <2>2 DEF RowInv, TaskHasRow, Live
    <2>6. ListedHasRun'
        BY <2>2 DEF RowInv, ListedHasRun, Terminal
    <2> QED
        BY <1>t, <2>3, <2>4, <2>5, <2>6 DEF RowInv
<1>2. CASE ~\E p \in Processes, r \in Runs : CreateRun(p, r)
    <2>1. \A r \in Runs : RunMoves(r)
        BY <1>2, StepMoves
    <2>2. \A r \in Runs : row'[r].status \in Active => row[r].status \in Active
        BY <2>1 DEF RunMoves, Keeps, Starts, Finishes, Active, Terminal
    <2>3. OneActiveRow'
        BY <2>2 DEF RowInv, OneActiveRow
    <2>4. StartsPending'
        <3> SUFFICES ASSUME NEW r \in Runs, task'[r] \in {"accepted", "starting"}
                     PROVE  row'[r].status = "pending"
            BY DEF StartsPending
        <3>1. task[r] \in {"accepted", "starting"}
            BY <2>1 DEF RunMoves, TaskMoves, Terminal
        <3>2. row[r].status = "pending"
            BY <3>1 DEF RowInv, StartsPending
        <3>3. \A p \in Processes : r \notin sweeper[p].listed
            BY <3>2 DEF RowInv, ListedHasRun, Terminal
        <3> QED
            BY <2>1, <3>1, <3>2, <3>3 DEF RunMoves, Keeps, Starts, Finishes, Terminal
    <2>5. TaskHasRow'
        BY <2>1 DEF RowInv, TaskHasRow, Live, RunMoves, TaskMoves, Ticking, Keeps, Starts,
                    Finishes, Terminal
    <2>6. ListedHasRun'
        <3> SUFFICES ASSUME NEW p \in Processes, NEW r \in Runs, r \in sweeper'[p].listed
                     PROVE  row'[r].status \in {"running"} \cup Terminal
            BY DEF ListedHasRun
        <3>1. row[r].status \in {"running"} \cup Terminal
            BY <1>l DEF Lists, Stalled, RowInv, ListedHasRun
        <3> QED
            BY <2>1, <3>1 DEF RunMoves, Keeps, Starts, Finishes, Terminal, Active
    <2> QED
        BY <1>t, <2>3, <2>4, <2>5, <2>6 DEF RowInv
<1> QED
    BY <1>1, <1>2

\* No step changes a terminal status: the terminal writes are guarded, and the
\* unguarded RUNNING write only ever finds a pending row.
THEOREM TerminalStatusFinal == Spec => TerminalIsFinal
<1>1. RowInv /\ [Next]_vars =>
        [\A r \in Runs : row[r].status \in Terminal => row'[r].status = row[r].status]_vars
    <2> SUFFICES ASSUME RowInv, [Next]_vars, NEW r \in Runs, row[r].status \in Terminal
                 PROVE  row'[r].status = row[r].status
        OBVIOUS
    <2>1. CASE RunMoves(r)
        BY <2>1 DEF RunMoves, Keeps, Starts, Finishes, Terminal, Active
    <2>2. CASE \E p \in Processes, q \in Runs : CreateRun(p, q)
        BY <2>2, CreateEffect DEF RowInv, Terminal
    <2> QED
        BY <2>1, <2>2, StepMoves
<1> QED
    BY <1>1, RowInvInit, RowInvStep, PTL DEF Spec, TerminalIsFinal

-----------------------------------------------------------------------------
(* The owner: while a coroutine lives its row is its own.                   *)

LEMMA OwnInvInit == LagCovered /\ Init => OwnInv
<1> SUFFICES ASSUME LagCovered, Init PROVE OwnInv
    OBVIOUS
<1>1. \A r \in Runs : task[r] = "none"
    BY DEF Init
<1>2. \A p \in Processes : sweeper[p].listed = {}
    BY DEF Init, FirstTick
<1> QED
    BY <1>1, <1>2, RowInvInit
       DEF OwnInv, SignIsFresh, ListedIsDead, ExecutingIsRunning, Live

\* A live run is never stale.
LEMMA LiveNotStalled ==
    ASSUME OwnInv, NEW r \in Runs, Stalled(r)
    PROVE  task[r] = "none"
<1>1. LastSign(r) \in Int /\ clock \in Int
    BY BoundsAssumption DEF OwnInv, RowInv, TypeOK, LastSign, Row, Time, Never
<1>2. HeartbeatLag <= StaleThreshold /\ HeartbeatLag \in Int /\ StaleThreshold \in Int
    BY SettingsAssumption DEF OwnInv, LagCovered
<1> QED
    BY <1>1, <1>2 DEF OwnInv, SignIsFresh, Stalled, Live

LEMMA OwnInvStep == OwnInv /\ [Next]_vars => OwnInv'
<1> SUFFICES ASSUME OwnInv, [Next]_vars PROVE OwnInv'
    OBVIOUS
<1>t. /\ LagCovered /\ RowInv /\ RowInv' /\ TypeOK /\ TypeOK'
    BY RowInvStep DEF OwnInv, RowInv
<1>l. \A p \in Processes, r \in Runs : Lists(p, r)
    BY <1>t, StepLists
<1>i. /\ HeartbeatLag \in Nat
      /\ \A r \in Runs : row[r].started \in Int /\ row[r].beat \in Int
      /\ \A r \in Runs : row'[r].started \in Int /\ row'[r].beat \in Int
      /\ clock \in Int
    BY <1>t, SettingsAssumption, BoundsAssumption DEF TypeOK, Row, Time, Never
<1>1. CASE \E p \in Processes, r \in Runs : CreateRun(p, r)
    <2>1. PICK p \in Processes, r \in Runs : CreateRun(p, r)
        BY <1>1
    <2>2. /\ row[r].status = "absent" /\ row'[r].status = "pending"
          /\ task'[r] = "accepted"
          /\ \A q \in Runs : q # r => row'[q] = row[q] /\ task'[q] = task[q]
          /\ clock' = clock /\ sweeper' = sweeper
        BY <1>t, <2>1, CreateEffect, PendingFields
    <2>3. SignIsFresh'
        BY <2>2 DEF OwnInv, SignIsFresh, LastSign, Live
    <2>4. ListedIsDead'
        BY <1>t, <2>2 DEF OwnInv, ListedIsDead, RowInv, ListedHasRun, Terminal
    <2>5. ExecutingIsRunning'
        BY <2>2 DEF OwnInv, ExecutingIsRunning
    <2> QED
        BY <1>t, <2>3, <2>4, <2>5 DEF OwnInv, LagCovered
<1>2. CASE ~\E p \in Processes, r \in Runs : CreateRun(p, r)
    <2>1. \A r \in Runs : RunMoves(r)
        BY <1>t, <1>2, StepMoves
    <2>2. SignIsFresh'
        <3> SUFFICES ASSUME NEW r \in Runs, task'[r] # "none", row'[r].status = "running"
                     PROVE  (clock <= LastSign(r) + HeartbeatLag)'
            BY DEF SignIsFresh, Live
        <3>1. task[r] # "none"
            BY <2>1 DEF RunMoves, TaskMoves, Ticking
        <3>2. CASE Advance
            <4>1. row' = row /\ task' = task /\ clock' = clock + 1
                BY <3>2 DEF Advance
            <4>2. task[r] = "executing"
                <5>1. ~InTransaction(r) /\ task[r] # "accepted"
                    BY <3>2 DEF Advance
                <5> QED
                    BY <1>t, <3>1, <5>1 DEF InTransaction, TypeOK, Task
            <4>3. clock < LastSign(r) + HeartbeatLag
                BY <3>2, <4>2 DEF Advance
            <4>4. LastSign(r) \in Int /\ LastSign(r)' = LastSign(r)
                BY <1>i, <4>1 DEF LastSign
            <4> QED
                BY <1>i, <4>1, <4>3, <4>4
        <3>3. CASE clock' = clock
            <4>1. CASE Keeps(r)
                <5>1. clock <= LastSign(r) + HeartbeatLag
                    BY <3>1, <3>2, <4>1 DEF Keeps, OwnInv, SignIsFresh, Live
                <5> QED
                    BY <1>i, <3>3, <4>1, <5>1 DEF Keeps, LastSign
            <4>2. CASE Starts(r)
                BY <1>i, <3>3, <4>2 DEF Starts, LastSign
            <4>3. CASE Finishes(r)
                BY <4>3 DEF Finishes, Terminal
            <4> QED
                BY <2>1, <4>1, <4>2, <4>3 DEF RunMoves
        <3>4. Advance \/ clock' = clock
            BY DEF Next, RunStep, ProcessStep, CreateRun, Begin, StartWrite, Bump, BodyEnds,
                   TerminalWrite, WriteFails, Cancel, SweepList, SweepWrite, SweepFails,
                   Crash, Start, vars
        <3> QED
            BY <3>2, <3>3, <3>4
    <2>3. ListedIsDead'
        <3> SUFFICES ASSUME NEW p \in Processes, NEW r \in Runs, r \in sweeper'[p].listed
                     PROVE  task'[r] = "none"
            BY DEF ListedIsDead
        <3>1. CASE r \in sweeper[p].listed
            BY <2>1, <3>1 DEF OwnInv, ListedIsDead, RunMoves, TaskMoves, Ticking
        <3>2. CASE Stalled(r) /\ task'[r] = task[r]
            BY <3>2, LiveNotStalled
        <3> QED
            BY <1>l, <3>1, <3>2 DEF Lists
    <2>4. ExecutingIsRunning'
        <3> SUFFICES ASSUME NEW r \in Runs, task'[r] = "executing"
                     PROVE  row'[r].status = "running"
            BY DEF ExecutingIsRunning
        <3>1. CASE task[r] = "executing"
            <4>1. row[r].status = "running" /\ \A p \in Processes : r \notin sweeper[p].listed
                BY <3>1 DEF OwnInv, ExecutingIsRunning, ListedIsDead
            <4> QED
                BY <2>1, <3>1, <4>1 DEF RunMoves, Keeps, Starts, Finishes, Terminal
        <3>2. CASE task[r] = "starting" /\ row'[r].status = "running"
            BY <3>2
        <3> QED
            BY <2>1, <3>1, <3>2 DEF RunMoves, TaskMoves, Terminal
    <2> QED
        BY <1>t, <2>2, <2>3, <2>4 DEF OwnInv, LagCovered
<1> QED
    BY <1>1, <1>2

\* Two bodies of the workflow never execute at once, as long as no live
\* ticker falls behind by more than the stale threshold.
THEOREM ExecutionExclusive == LagCovered /\ Spec => []ExclusiveExecution
<1>1. OwnInv => ExclusiveExecution
    BY DEF OwnInv, ExecutingIsRunning, RowInv, OneActiveRow, ExclusiveExecution, Active
<1>2. LagCovered /\ Spec => []OwnInv
    BY OwnInvInit, OwnInvStep, PTL DEF Spec
<1> QED
    BY <1>1, <1>2, PTL

-----------------------------------------------------------------------------
(* The active row is a lease.                                              *)

Taken == IF \E r \in Runs : row[r].status \in Active THEN {Workflow} ELSE {}
Holders == [w \in {Workflow} |-> {r \in Runs : Working(r)}]

\* A working coroutine has an active row.
LEMMA WorkingHasRow ==
    ASSUME OwnInv, NEW r \in Runs, Working(r)
    PROVE  row[r].status \in Active
BY DEF OwnInv, RowInv, StartsPending, ExecutingIsRunning, Working, Active

\* A step other than CreateRun puts nobody to work and activates no row.
LEMMA OnlyRelease ==
    ASSUME OwnInv, [Next]_vars, NEW q \in Runs,
           ~\E p \in Processes, r \in Runs : CreateRun(p, r)
    PROVE  /\ row'[q].status \in Active => row[q].status \in Active
           /\ Working(q)' => Working(q)
<1>1. RunMoves(q) /\ TypeOK
    BY StepMoves DEF OwnInv, RowInv
<1>2. row'[q].status \in Active => row[q].status \in Active
    BY <1>1 DEF RunMoves, Keeps, Starts, Finishes, Active, Terminal
<1>3. ASSUME Working(q)' PROVE Working(q)
    <2>2. CASE task'[q] \in {"accepted", "starting", "executing"}
        BY <1>1, <2>2 DEF RunMoves, TaskMoves, Working, Terminal
    <2>3. CASE task'[q] \in Terminal /\ row'[q].status \in Active
        BY <1>1, <1>2, <2>3 DEF RunMoves, TaskMoves, Working, Ticking, Terminal
    <2> QED
        BY <1>3, <2>2, <2>3 DEF Working
<1> QED
    BY <1>2, <1>3

LEMMA LeaseInit == Init => Lease!Init
<1> SUFFICES ASSUME Init PROVE Lease!Init
    OBVIOUS
<1>1. \A r \in Runs : row[r].status = "absent" /\ task[r] = "none"
    BY PendingFields DEF Init
<1>2. ~\E r \in Runs : row[r].status \in Active
    BY <1>1 DEF Active
<1>3. {r \in Runs : Working(r)} = {}
    BY <1>1 DEF Working, Terminal
<1> QED
    BY <1>2, <1>3 DEF Lease!Init

LEMMA LeaseStep == OwnInv /\ OwnInv' /\ [Next]_vars => [Lease!Next]_(Lease!lease)
<1> SUFFICES ASSUME OwnInv, OwnInv', [Next]_vars
             PROVE  Lease!Next \/ (Taken' = Taken /\ Holders' = Holders)
    BY DEF Lease!lease, Taken, Holders
<1> DEFINE working == {r \in Runs : Working(r)}
<1>a. /\ Holders = [w \in {Workflow} |-> working]
      /\ Holders' = [w \in {Workflow} |-> working']
    BY DEF Holders
<1>1. CASE \E p \in Processes, r \in Runs : CreateRun(p, r)
    <2>1. PICK p \in Processes, r \in Runs : CreateRun(p, r)
        BY <1>1
    <2>2. /\ row'[r].status = "pending" /\ task'[r] = "accepted"
          /\ \A q \in Runs : row[q].status \notin Active
          /\ \A q \in Runs : q # r => row'[q] = row[q] /\ task'[q] = task[q]
        BY <2>1, CreateEffect, PendingFields DEF OwnInv, RowInv
    <2>3. Taken = {} /\ Taken' = {Workflow}
        BY <2>2 DEF Taken, Active
    <2>4. working = {}
        BY <2>2, WorkingHasRow
    <2>5. working' = {r}
        BY <2>2, <2>4 DEF Working
    <2>6. Lease!Take(r, Workflow)
        BY <1>a, <2>3, <2>4, <2>5 DEF Lease!Take, Taken, Holders
    <2> QED
        BY <2>6 DEF Lease!Next
<1>2. CASE ~\E p \in Processes, r \in Runs : CreateRun(p, r)
    <2>1. working' \subseteq working /\ (Taken = {} => Taken' = {})
        BY <1>2, OnlyRelease DEF Taken
    <2>2. /\ Taken = {} \/ Taken = {Workflow}
          /\ Taken' = {} \/ Taken' = {Workflow}
        BY DEF Taken
    <2>3. \A r \in working : working = {r} /\ Taken = {Workflow}
        BY WorkingHasRow DEF OwnInv, RowInv, OneActiveRow, Taken
    <2>4. Taken' = {} => working' = {}
        <3>1. ASSUME NEW r \in Runs, Working(r)' PROVE (row[r].status \in Active)'
            BY <1>2, <3>1 DEF OwnInv, RowInv, StartsPending, ExecutingIsRunning, Working, Active
        <3> QED
            BY <3>1 DEF Taken
    <2>5. CASE working' = working /\ Taken' = Taken
        BY <1>a, <2>5
    <2>6. CASE working' = working /\ Taken' # Taken
        <3>1. Taken = {Workflow} /\ Taken' = {} /\ working = {}
            BY <2>1, <2>2, <2>4, <2>6
        <3>2. Lease!Reclaim({Workflow})
            BY <1>a, <2>6, <3>1 DEF Lease!Reclaim, Taken, Holders
        <3> QED
            BY <3>2 DEF Lease!Next
    <2>7. CASE working' # working
        <3>1. PICK r \in working : r \notin working'
            BY <2>1, <2>7
        <3>2. r \in Runs /\ working = {r} /\ working' = {} /\ Taken = {Workflow}
            BY <2>1, <2>3, <3>1
        <3>3. CASE Taken' = {}
            <4>1. Lease!GiveBack(r, Workflow)
                BY <1>a, <3>2, <3>3 DEF Lease!GiveBack, Taken, Holders
            <4> QED
                BY <3>2, <4>1 DEF Lease!Next
        <3>4. CASE Taken' = {Workflow}
            <4>1. Lease!Abandon(r, {Workflow})
                BY <1>a, <3>2, <3>4 DEF Lease!Abandon, Taken, Holders
            <4> QED
                BY <3>2, <4>1 DEF Lease!Next
        <3> QED
            BY <2>2, <3>3, <3>4
    <2> QED
        BY <2>5, <2>6, <2>7
<1> QED
    BY <1>1, <1>2

\* Under the same condition the active row is a lease on the workflow: every
\* behaviour of the rows, coroutines and sweepers is one of DispatchLease.
THEOREM RunIsLease == LagCovered /\ Spec => ImplementsLease
<1>1. LagCovered /\ Spec => []OwnInv
    BY OwnInvInit, OwnInvStep, PTL DEF Spec
<1> QED
    BY <1>1, LeaseInit, LeaseStep, PTL DEF Spec, ImplementsLease, Lease!Spec

=============================================================================
