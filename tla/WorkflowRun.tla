---------------------------- MODULE WorkflowRun ----------------------------
(***************************************************************************)
(* The lifecycle of the runs of one workflow: the `workflow_runs` rows, the *)
(* coroutines that execute them, their heartbeats, and the sweeper of every *)
(* API process that crashes the rows whose heartbeat went silent.           *)
(*                                                                         *)
(* Rows of different workflows meet only in the sweeper's batch, so one     *)
(* workflow is enough: uq_workflow_runs_active is keyed on its id.  The     *)
(* body of a run (run_workflow) is a span of time that ends in one of three *)
(* ways.  The rows' other columns, the node records, the SSE events and     *)
(* SWEEP_MAX_BATCH are left out: no status write depends on them.           *)
(*                                                                         *)
(* The clock stands still while a transaction is in flight; between its     *)
(* statements every other process may run.                                  *)
(***************************************************************************)
EXTENDS Integers

CONSTANTS
    Runs,               \* run ids
    Processes,          \* API processes: background tasks, scheduler, sweeper
    HeartbeatLag,       \* the longest a live ticker goes without a bump landing
    StaleThreshold,     \* STALE_THRESHOLD_SECONDS
    SweepInterval,      \* SWEEP_INTERVAL_SECONDS
    IdleSweepInterval,  \* IDLE_SWEEP_INTERVAL_SECONDS
    MaxTime,            \* bound: last value of the clock
    MaxFaults           \* bound: crashes and cancellations in a behaviour

ASSUME SettingsAssumption ==
    /\ HeartbeatLag \in Nat
    /\ StaleThreshold \in Nat
    /\ SweepInterval \in Nat \ {0}
    /\ IdleSweepInterval \in Nat
    /\ SweepInterval <= IdleSweepInterval

ASSUME BoundsAssumption == MaxTime \in Nat /\ MaxFaults \in Nat

VARIABLES
    clock,      \* wall clock, shared by processes and database
    row,        \* the workflow_runs rows
    task,       \* the coroutine driving each run
    crew,       \* the runs each process was asked to execute since it started
    up,         \* the processes that are alive
    sweeper,    \* the sweeper loop of each process
    faults      \* crashes and cancellations so far

vars == <<clock, row, task, crew, up, sweeper, faults>>

Never == -1                             \* a NULL timestamp
Active == {"pending", "running"}        \* RUN_STATUSES_ACTIVE
Terminal == {"completed", "failed", "cancelled", "crashed"}

Absent == [status |-> "absent", started |-> Never, beat |-> Never]
Pending == [Absent EXCEPT !.status = "pending"]

\* The writes to a row.  Mutants of Finished: the first-writer-wins guard is
\* dropped from the terminal write, and a status no other part knows is written.
Running(w, t) == [w EXCEPT !.status = "running", !.started = t]
Beaten(w, t) == [w EXCEPT !.beat = t]
FinishedUnguarded(w, status) == [w EXCEPT !.status = status]
FinishedAsStalled(w, status) ==
    IF w.status \in Terminal THEN w ELSE [w EXCEPT !.status = "stalled"]
Finished(w, status) ==
    IF w.status \in Terminal THEN w ELSE [w EXCEPT !.status = status]

\* A task is "accepted" (its row is committed, its coroutine has not begun),
\* "starting" (writing RUNNING), "executing", or writing a terminal status,
\* which is then its own state; "none" before and after.
Live(r) == task[r] # "none"
InTransaction(r) == task[r] = "starting" \/ task[r] \in Terminal

\* The block under `_heartbeat`, which the COMPLETED write is still inside of.
Ticking(r) == task[r] \in {"starting", "executing", "completed"}

\* The last sign of life the sweeper has of a run.
LastSign(r) == IF row[r].beat > row[r].started THEN row[r].beat ELSE row[r].started

\* The loop of a sweeper: when its next tick is due, whether activity_event()
\* is set, and the runs its open tick has listed.
FirstTick == [at |-> 0, woken |-> FALSE, listed |-> {}]
Woken(loop) == [loop EXCEPT !.woken = TRUE]

SetTask(r, state) == task' = [task EXCEPT ![r] = state]

Capped(t) == IF t > MaxTime THEN MaxTime ELSE t
-----------------------------------------------------------------------------
Init ==
    /\ clock = 0
    /\ row = [r \in Runs |-> Absent]
    /\ task = [r \in Runs |-> "none"]
    /\ crew = [p \in Processes |-> {}]
    /\ up = Processes
    /\ sweeper = [p \in Processes |-> FirstTick]
    /\ faults = 0

-----------------------------------------------------------------------------
(* One run.                                                                *)

\* Mutant of CreateRun: the active-run index covers `running` rows only.
CreateRunUnlessRunning(p, r) ==
    /\ p \in up
    /\ row[r].status = "absent"
    /\ \A q \in Runs : row[q].status # "running"
    /\ row' = [row EXCEPT ![r] = Pending]
    /\ SetTask(r, "accepted")
    /\ crew' = [crew EXCEPT ![p] = @ \cup {r}]
    /\ UNCHANGED <<clock, up, sweeper, faults>>

\* RunWorkflowUseCase: the pending row is inserted, unless the active-run
\* index refuses it (a 409, or a skipped schedule, which changes nothing).
CreateRun(p, r) ==
    /\ p \in up
    /\ row[r].status = "absent"
    /\ \A q \in Runs : row[q].status \notin Active
    /\ row' = [row EXCEPT ![r] = Pending]
    /\ SetTask(r, "accepted")
    /\ crew' = [crew EXCEPT ![p] = @ \cup {r}]
    /\ UNCHANGED <<clock, up, sweeper, faults>>

\* The coroutine begins: track_run wakes the sweeper, the ticker is started
\* and the RUNNING write is sent.
Begin(p, r) ==
    /\ task[r] = "accepted"
    /\ r \in crew[p]
    /\ SetTask(r, "starting")
    /\ sweeper' = [sweeper EXCEPT ![p] = Woken(sweeper[p])]
    /\ UNCHANGED <<clock, row, crew, up, faults>>

\* What the write a task has in flight makes of the row.
Written(r) ==
    [row EXCEPT ![r] = IF task[r] = "starting" THEN Running(row[r], clock)
                       ELSE IF task[r] \in Terminal THEN Finished(row[r], task[r])
                       ELSE row[r]]

\* The RUNNING write lands and the body starts.
StartWrite(r) ==
    /\ task[r] = "starting"
    /\ row' = Written(r)
    /\ SetTask(r, "executing")
    /\ UNCHANGED <<clock, crew, up, sweeper, faults>>

\* A heartbeat lands; one that fails is logged and changes nothing.
Bump(r) ==
    /\ Ticking(r)
    /\ row[r].beat # clock
    /\ row' = [row EXCEPT ![r] = Beaten(row[r], clock)]
    /\ UNCHANGED <<clock, task, crew, up, sweeper, faults>>

\* The body returns, raises, or sees the shutdown flag between two nodes.
BodyEnds(r, status) ==
    /\ task[r] = "executing"
    /\ SetTask(r, status)
    /\ UNCHANGED <<clock, row, crew, up, sweeper, faults>>

\* The terminal write lands and the coroutine ends.
TerminalWrite(r) ==
    /\ task[r] \in Terminal
    /\ row' = Written(r)
    /\ SetTask(r, "none")
    /\ UNCHANGED <<clock, crew, up, sweeper, faults>>

\* An exception leaves the `try` of ExecuteWorkflowRunUseCase.execute, whose
\* handler writes `status`; out of a handler it ends the task.  A write that
\* was in flight may have been committed all the same.
Raise(r, status) ==
    /\ row' \in {row, Written(r)}
    /\ SetTask(r, IF Ticking(r) THEN status ELSE "none")

\* A status write raises.
WriteFails(r) ==
    /\ InTransaction(r)
    /\ Raise(r, "failed")
    /\ UNCHANGED <<clock, crew, up, sweeper, faults>>

\* CancelledError, from the scheduler's dispatch timeout or the drain of a
\* shutdown.  A coroutine that has not begun just never runs.
Cancel(r) ==
    /\ faults < MaxFaults
    /\ Live(r)
    /\ Raise(r, "crashed")
    /\ faults' = faults + 1
    /\ UNCHANGED <<clock, crew, up, sweeper>>

-----------------------------------------------------------------------------
(* The sweeper.                                                            *)

\* Mutants of Stalled: rows that never ticked are not listed, and rows are
\* listed whatever their age.
StalledTickedOnly(r) ==
    /\ row[r].status = "running"
    /\ row[r].beat # Never
    /\ LastSign(r) + StaleThreshold < clock

StalledAtOnce(r) == row[r].status = "running"

\* list_stalled_runs.
Stalled(r) ==
    /\ row[r].status = "running"
    /\ LastSign(r) + StaleThreshold < clock

Sweeping(p) == sweeper[p].listed # {}

\* Runs under track_run in this process.
RunsInFlight(p) == {r \in crew[p] : Live(r) /\ task[r] # "accepted"}

Delay(p) == IF RunsInFlight(p) # {} THEN SweepInterval ELSE IdleSweepInterval

\* The loop after a tick that succeeded: it sleeps, for long if it is idle.
Asleep(p, woken) ==
    [at |-> Capped(clock + Delay(p)), woken |-> woken, listed |-> {}]

\* A tick: the event is cleared and the stalled runs are listed.  With none
\* the tick is over.
SweepList(p) ==
    /\ p \in up
    /\ ~Sweeping(p)
    /\ clock >= sweeper[p].at \/ sweeper[p].woken
    /\ LET listed == {r \in Runs : Stalled(r)}
       IN  sweeper' = [sweeper EXCEPT ![p] =
                IF listed = {} THEN Asleep(p, FALSE)
                ELSE [at |-> clock, woken |-> FALSE, listed |-> listed]]
    /\ UNCHANGED <<clock, row, task, crew, up, faults>>

\* The listed runs are crashed, under the guard of every terminal write.
SweepWrite(p) ==
    /\ Sweeping(p)
    /\ row' = [r \in Runs |-> IF r \in sweeper[p].listed
                              THEN Finished(row[r], "crashed") ELSE row[r]]
    /\ sweeper' = [sweeper EXCEPT ![p] = Asleep(p, sweeper[p].woken)]
    /\ UNCHANGED <<clock, task, crew, up, faults>>

\* The tick raises and the loop backs off; or its writes fail, which is only
\* logged, and the loop sleeps as after a success.
SweepFails(p) ==
    /\ Sweeping(p)
    /\ sweeper' = [sweeper EXCEPT ![p] = Asleep(p, sweeper[p].woken)]
    /\ UNCHANGED <<clock, row, task, crew, up, faults>>

-----------------------------------------------------------------------------
(* Processes and time.                                                     *)

\* The process dies, or exits once the drain of a shutdown is over.
Crash(p) ==
    /\ faults < MaxFaults
    /\ p \in up
    /\ up' = up \ {p}
    /\ task' = [r \in Runs |-> IF r \in crew[p] THEN "none" ELSE task[r]]
    /\ crew' = [crew EXCEPT ![p] = {}]
    /\ sweeper' = [sweeper EXCEPT ![p] = FirstTick]
    /\ faults' = faults + 1
    /\ UNCHANGED <<clock, row>>

\* It starts again, and its sweeper's first tick is due at once.
Start(p) ==
    /\ p \notin up
    /\ up' = up \cup {p}
    /\ UNCHANGED <<clock, row, task, crew, sweeper, faults>>

\* Time passes between transactions, while no coroutine is still to begin, no
\* sweep is due and every live ticker has bumped within HeartbeatLag.
Advance ==
    /\ clock < MaxTime
    /\ \A r \in Runs :
        /\ ~InTransaction(r) /\ task[r] # "accepted"
        /\ task[r] = "executing" => clock < LastSign(r) + HeartbeatLag
    /\ \A p \in up :
        ~Sweeping(p) /\ clock < sweeper[p].at /\ ~sweeper[p].woken
    /\ clock' = clock + 1
    /\ UNCHANGED <<row, task, crew, up, sweeper, faults>>

RunStep(r) ==
    \/ StartWrite(r) \/ Bump(r) \/ TerminalWrite(r) \/ WriteFails(r) \/ Cancel(r)
    \/ \E status \in {"completed", "failed", "cancelled"} : BodyEnds(r, status)

ProcessStep(p) ==
    \/ \E r \in Runs : CreateRun(p, r) \/ Begin(p, r)
    \/ SweepList(p) \/ SweepWrite(p) \/ SweepFails(p)
    \/ Crash(p) \/ Start(p)

Next == (\E r \in Runs : RunStep(r)) \/ (\E p \in Processes : ProcessStep(p)) \/ Advance

Spec == Init /\ [][Next]_vars

\* Coroutines run and their tickers tick, sweeper loops run, a sweep does not
\* fail forever, processes are started again and time passes.  No body need
\* ever end: a run launched from the API has no timeout.
Fairness ==
    /\ \A r \in Runs : WF_vars(StartWrite(r)) /\ WF_vars(TerminalWrite(r)) /\ SF_vars(Bump(r))
    /\ \A p \in Processes :
        /\ \A r \in Runs : WF_vars(Begin(p, r))
        /\ WF_vars(SweepList(p)) /\ SF_vars(SweepWrite(p)) /\ WF_vars(Start(p))
    /\ SF_vars(Advance)

FairSpec == Spec /\ Fairness

-----------------------------------------------------------------------------
(* Properties.                                                             *)

Time == 0..MaxTime
Row == [status : {"absent"} \cup Active \cup Terminal,
        started : Time \cup {Never}, beat : Time \cup {Never}]
Task == {"none", "accepted", "starting", "executing"} \cup Terminal
Sweeper == [at : Time, woken : BOOLEAN, listed : SUBSET Runs]

\* The type of every variable.
TypeOK ==
    /\ clock \in Time
    /\ row \in [Runs -> Row]
    /\ task \in [Runs -> Task]
    /\ crew \in [Processes -> SUBSET Runs]
    /\ up \in SUBSET Processes
    /\ sweeper \in [Processes -> Sweeper]
    /\ faults \in 0..MaxFaults

\* At most one body of the workflow executes at any time.  The index bounds
\* rows, not coroutines: this also needs that no row is swept from under a
\* coroutine that still runs.
ExclusiveExecution ==
    \A r, q \in Runs : task[r] = "executing" /\ task[q] = "executing" => r = q

\* A terminal status is final, whichever of the run, its handlers, a second
\* attempt after an ambiguous commit and the sweepers wrote it.
TerminalIsFinal ==
    [][\A r \in Runs : row[r].status \in Terminal => row'[r].status = row[r].status]_vars

\* A coroutine that still owes its row a terminal status.
Working(r) ==
    \/ task[r] \in {"accepted", "starting", "executing"}
    \/ task[r] \in Terminal /\ row[r].status \in Active

\* The active row is a lease on the workflow: taken by one run at a time,
\* given back by its terminal write, and taken away by a sweeper only after
\* its coroutine is gone.
Workflow == "workflow"

Lease == INSTANCE DispatchLease WITH
    Schedules <- {Workflow},
    Replicas <- Runs,
    taken <- IF \E r \in Runs : row[r].status \in Active THEN {Workflow} ELSE {},
    holders <- [w \in {Workflow} |-> {r \in Runs : Working(r)}]

ImplementsLease == Lease!Spec

\* A run left `running` by a coroutine that is gone is terminal in the end.
\* (Runs too young to be stale before the end of the clock are left out.)
RunningOrphanSwept ==
    \A r \in Runs :
        (row[r].status = "running" /\ ~Live(r) /\ LastSign(r) + StaleThreshold < MaxTime)
            ~> row[r].status \in Terminal

\* The same for every active run, `pending` ones included: the workflow can
\* be run again.
OrphanSwept ==
    \A r \in Runs :
        (row[r].status \in Active /\ ~Live(r) /\ LastSign(r) + StaleThreshold < MaxTime)
            ~> row[r].status \in Terminal

=============================================================================
