--------------------------- MODULE ScheduleClaim ---------------------------
(***************************************************************************)
(* The claim/release cycle of the workflow scheduler: one `schedules` row   *)
(* per schedule in Postgres, and any number of replicas that each run       *)
(* run_scheduler_loop over it (application/services/scheduler.py on top of  *)
(* infrastructure/persistence/repositories/schedule/repository.py).         *)
(*                                                                         *)
(* A tick is a poll transaction (reap stuck claims, list due rows) followed *)
(* by one `_guarded` coroutine per due row: wait for a semaphore slot,      *)
(* claim the row, dispatch, release the claim.  A database statement is one *)
(* step; a transaction that reads and later writes is two.  Between any two *)
(* steps every other replica, and the user editing the schedule, may run.   *)
(*                                                                         *)
(* Time is a clock that only advances while no transaction is in flight: a  *)
(* transaction is short against the clock's unit (a minute), but not        *)
(* atomic.  The counters and status strings of the row (run_count,          *)
(* consecutive_failures, last_run_status, ...) are left out: no step of the *)
(* cycle reads them, so a release is the same step for every disposition.   *)
(***************************************************************************)
EXTENDS Integers, FiniteSets

CONSTANTS
    Schedules,          \* the schedule rows
    Replicas,           \* processes running the scheduler loop
    Cadences,           \* hour/minute/weekday/timezone or interval of a row
    NextRun(_, _),      \* compute_next_run(cadence, now)
    MaxConcurrent,      \* settings.scheduler.max_concurrent_scheduled_runs
    DispatchTimeout,    \* settings.scheduler.dispatch_timeout_seconds
    StuckTimeout,       \* settings.scheduler.stuck_start_timeout_seconds
    Graces,             \* SCHEDULE_GRACE_SECONDS + the last sleep of the loop
    GracefulStop,       \* whether replicas are also stopped by SIGTERM
    MaxTime,            \* bound: last value of the clock
    MaxFaults,          \* bound: crashes and stops in a behaviour
    MaxEdits            \* bound: writes by users and demand polls

ASSUME CadenceAssumption == Cadences # {}

ASSUME NextRunAssumption ==
    \A c \in Cadences, t \in 0..MaxTime : NextRun(c, t) \in Nat /\ NextRun(c, t) > t

ASSUME SettingsAssumption ==
    /\ IsFiniteSet(Schedules)
    /\ MaxConcurrent \in Nat \ {0}
    /\ DispatchTimeout \in Nat \ {0}
    /\ StuckTimeout \in Nat
    /\ DispatchTimeout < StuckTimeout       \* SchedulerConfig's own validator
    /\ Graces \subseteq Nat
    /\ GracefulStop \in BOOLEAN

ASSUME BoundsAssumption == MaxTime \in Nat /\ MaxFaults \in Nat /\ MaxEdits \in Nat

VARIABLES
    clock,      \* wall clock, shared: replicas are assumed synchronised
    row,        \* the schedules table
    loop,       \* where each replica's loop is
    now,        \* the reference time of each replica's current tick
    job,        \* the `_guarded` coroutine of each replica for each schedule
    edit,       \* the open transaction of the user editing a schedule
    fired,      \* history: the last fire window claimed
    exposed,    \* history: schedules whose claim the code has left unprotected
    faults,     \* crashes and stops so far
    edits       \* edits so far

vars == <<clock, row, loop, now, job, edit, fired, exposed, faults, edits>>
environment == <<edit, faults, edits>>

Unclaimed == -1         \* started_at IS NULL
AnyCadence == CHOOSE c \in Cadences : TRUE

Row == [enabled : BOOLEAN, cadence : Cadences, next : Nat, started : Int]

\* `won` is history: whether this coroutine has won its claim.
NoJob == [pc |-> "none", expected |-> 0, deadline |-> 0, at |-> 0,
          cadence |-> AnyCadence, handler |-> FALSE, won |-> FALSE]

NoEdit == [open |-> FALSE, enabled |-> FALSE, cadence |-> AnyCadence, next |-> 0]

\* The writes to a row: claim released and fire time advanced; claim released
\* and row disabled; cadence and fire time set; all user-owned columns set.
Released(w, next) == [w EXCEPT !.started = Unclaimed, !.next = next]
Disabled(w) == [w EXCEPT !.started = Unclaimed, !.enabled = FALSE]
Retimed(w, c, next) == [w EXCEPT !.cadence = c, !.next = next]
Edited(w, e) == [Retimed(w, e.cadence, e.next) EXCEPT !.enabled = e.enabled]

\* What happens to a coroutine: it enters a slot, it wins its claim, its
\* dispatch is over at t, it has read the cadence it advances by, it is
\* interrupted at t.
Entered(j, deadline) == [j EXCEPT !.pc = "claiming", !.deadline = deadline]
Winning(j) == [j EXCEPT !.pc = "dispatch", !.won = TRUE]
Settled(j, t) == [j EXCEPT !.pc = "settled", !.at = t]
Advancing(j, c) == [j EXCEPT !.pc = "advancing", !.cadence = c]
Interrupted(j, t) == [Settled(j, t) EXCEPT !.handler = TRUE]

\* A coroutine that holds a semaphore slot: inside `async with semaphore`.
InSlot == {"claiming", "dispatch", "settled", "advancing", "disabling"}

\* One of its transactions is in flight.
InTransaction == {"claiming", "settled", "advancing", "disabling"}

SlotsTaken(r) == {s \in Schedules : job[r][s].pc \in InSlot}
SlotFree(r) == Cardinality(SlotsTaken(r)) < MaxConcurrent

\* Past winning the claim and not yet through with the release.
Holding(r, s) ==
    job[r][s].won /\ job[r][s].pc \in {"dispatch", "settled", "advancing", "disabling"}

-----------------------------------------------------------------------------
Init ==
    /\ clock = 0
    /\ \E c \in [Schedules -> Cadences] :
        row = [s \in Schedules |-> [enabled |-> TRUE, cadence |-> c[s],
                                    next |-> NextRun(c[s], 0), started |-> Unclaimed]]
    /\ loop = [r \in Replicas |-> "sleeping"]
    /\ now = [r \in Replicas |-> 0]
    /\ job = [r \in Replicas |-> [s \in Schedules |-> NoJob]]
    /\ edit = [s \in Schedules |-> NoEdit]
    /\ fired = [s \in Schedules |-> -1]
    /\ exposed = {}
    /\ faults = 0
    /\ edits = 0

-----------------------------------------------------------------------------
(* The poll transaction.                                                   *)

\* Mutants of Stuck: the two timeouts swapped, and a reaper that filters on
\* status like the poll does.
StuckAfterDispatchTimeout(s, t) ==
    row[s].started # Unclaimed /\ row[s].started + DispatchTimeout < t

StuckIfEnabled(s, t) ==
    row[s].enabled /\ row[s].started # Unclaimed /\ row[s].started + StuckTimeout < t

\* list_stuck_started: claimed longer ago than the stuck timeout.
Stuck(s, t) == row[s].started # Unclaimed /\ row[s].started + StuckTimeout < t

\* The entity the scan returned, which the reaper and the claim work from.
ListedStuck(s) == [NoJob EXCEPT !.pc = "stuck", !.cadence = row[s].cadence]
ListedDue(next) == [NoJob EXCEPT !.pc = "queued", !.expected = next]

\* A tick starts: the advisory lock is won (a replica that loses it returns
\* without a scan, which changes nothing) and the stuck claims are listed.
PollBegin(r) ==
    /\ loop[r] = "sleeping"
    /\ \A q \in Replicas : loop[q] # "polling"
    /\ loop' = [loop EXCEPT ![r] = "polling"]
    /\ now' = [now EXCEPT ![r] = clock]
    /\ job' = [job EXCEPT ![r] = [s \in Schedules |->
                IF Stuck(s, clock)
                THEN ListedStuck(s)
                ELSE NoJob]]
    /\ UNCHANGED <<clock, row, fired, exposed, environment>>

\* Mutant of Reaped: the fire time is nulled with the claim.
ReapedNulled(r, s) ==
    IF job[r][s].pc = "stuck" /\ row[s].started # Unclaimed
    THEN Released(row[s], Unclaimed)
    ELSE row[s]

\* mark_schedule_skipped("reaped") on every listed row that is still claimed.
Reaped(r, s) ==
    IF job[r][s].pc = "stuck" /\ row[s].started # Unclaimed
    THEN Released(row[s], NextRun(job[r][s].cadence, now[r]))
    ELSE row[s]

\* Mutant of Due: windows older than the grace are filtered out of the poll.
DueWithinGrace(r, s) ==
    /\ Reaped(r, s).enabled
    /\ Reaped(r, s).started = Unclaimed
    /\ Reaped(r, s).next <= now[r]
    /\ \E grace \in Graces : now[r] - Reaped(r, s).next <= grace

\* find_due_schedules, which sees the reaper's writes of its own transaction.
Due(r, s) ==
    /\ Reaped(r, s).enabled
    /\ Reaped(r, s).started = Unclaimed
    /\ Reaped(r, s).next <= now[r]

\* The poll transaction commits and a `_guarded` coroutine starts per due row.
PollEnd(r) ==
    /\ loop[r] = "polling"
    /\ row' = [s \in Schedules |-> Reaped(r, s)]
    /\ job' = [job EXCEPT ![r] = [s \in Schedules |->
                IF Due(r, s)
                THEN ListedDue(Reaped(r, s).next)
                ELSE NoJob]]
    /\ IF \E s \in Schedules : Due(r, s)
       THEN loop' = [loop EXCEPT ![r] = "dispatching"] /\ UNCHANGED now
       ELSE loop' = [loop EXCEPT ![r] = "sleeping"] /\ now' = [now EXCEPT ![r] = 0]
    /\ UNCHANGED <<clock, fired, exposed, environment>>

\* The poll transaction fails: the loop logs, backs off and sleeps.
PollFails(r) ==
    /\ loop[r] = "polling"
    /\ loop' = [loop EXCEPT ![r] = "sleeping"]
    /\ now' = [now EXCEPT ![r] = 0]
    /\ job' = [job EXCEPT ![r] = [s \in Schedules |-> NoJob]]
    /\ UNCHANGED <<clock, row, fired, exposed, environment>>

\* The TaskGroup has drained: the tick ends and the loop sleeps again.
TickEnd(r) ==
    /\ loop[r] = "dispatching"
    /\ \A s \in Schedules : job[r][s] = NoJob
    /\ loop' = [loop EXCEPT ![r] = "sleeping"]
    /\ now' = [now EXCEPT ![r] = 0]
    /\ UNCHANGED <<clock, row, job, fired, exposed, environment>>

-----------------------------------------------------------------------------
(* One `_guarded` coroutine.                                               *)

SetJob(r, s, j) == job' = [job EXCEPT ![r][s] = j]

\* A semaphore slot is acquired and the dispatch timeout starts to run.  The
\* claim will be stamped with the tick's reference time all the same: after a
\* long wait it is reapable before the dispatch can time out.
EnterSlot(r, s) ==
    /\ job[r][s].pc = "queued"
    /\ SlotFree(r)
    /\ SetJob(r, s, Entered(job[r][s], clock + DispatchTimeout))
    /\ exposed' = IF clock + DispatchTimeout > now[r] + StuckTimeout
                  THEN exposed \cup {s} ELSE exposed
    /\ UNCHANGED <<clock, row, loop, now, fired, environment>>

\* Mutant of Claimable: started_at IS NULL dropped from the WHERE clause.
ClaimableWhileHeld(s, expected) ==
    /\ row[s].enabled
    /\ row[s].next = expected

\* The WHERE clause of mark_schedule_started.
Claimable(s, expected) ==
    /\ row[s].enabled
    /\ row[s].next = expected
    /\ row[s].started = Unclaimed

\* The claim is won.  The stamp is the tick's reference time, as is the
\* instant a missed window is advanced from.
ClaimWon(r, s) ==
    /\ job[r][s].pc = "claiming"
    /\ Claimable(s, job[r][s].expected)
    /\ row' = [row EXCEPT ![s].started = now[r]]
    /\ fired' = [fired EXCEPT ![s] = job[r][s].expected]
    /\ \E grace \in Graces :
        SetJob(r, s, IF now[r] - job[r][s].expected > grace
                     THEN Settled(Winning(job[r][s]), now[r])
                     ELSE Winning(job[r][s]))
    /\ UNCHANGED <<clock, loop, now, exposed, environment>>

ClaimLost(r, s) ==
    /\ job[r][s].pc = "claiming"
    /\ ~Claimable(s, job[r][s].expected)
    /\ SetJob(r, s, NoJob)
    /\ UNCHANGED <<clock, row, loop, now, fired, exposed, environment>>

\* The dispatch returns or raises: success, failure, skip, already running.
DispatchEnds(r, s) ==
    /\ job[r][s].pc = "dispatch"
    /\ SetJob(r, s, Settled(job[r][s], clock))
    /\ UNCHANGED <<clock, row, loop, now, fired, exposed, environment>>

\* The dispatch raises UnschedulableSyncTargetError.
Unschedulable(r, s) ==
    /\ job[r][s].pc = "dispatch"
    /\ SetJob(r, s, [job[r][s] EXCEPT !.pc = "disabling"])
    /\ UNCHANGED <<clock, row, loop, now, fired, exposed, environment>>

\* First half of `_release`: the row's current cadence is read.  A coroutine
\* that was interrupted before its claim was won gets here too, and will
\* release whatever claim it then finds.
ReleaseRead(r, s) ==
    /\ job[r][s].pc = "settled"
    /\ SetJob(r, s, Advancing(job[r][s], row[s].cadence))
    /\ exposed' = IF job[r][s].won THEN exposed ELSE exposed \cup {s}
    /\ UNCHANGED <<clock, row, loop, now, fired, environment>>

\* Mutant of ReleaseWrite: the claim is cleared but the fire time kept.
ReleaseWithoutAdvance(r, s) ==
    /\ job[r][s].pc = "advancing"
    /\ row' = [row EXCEPT ![s].started = Unclaimed]
    /\ SetJob(r, s, NoJob)
    /\ UNCHANGED <<clock, loop, now, fired, exposed, environment>>

\* Second half: `_release_and_advance`, guarded only by started_at IS NOT NULL.
ReleaseWrite(r, s) ==
    /\ job[r][s].pc = "advancing"
    /\ row' = IF row[s].started = Unclaimed THEN row
              ELSE [row EXCEPT ![s] =
                    Released(row[s], NextRun(job[r][s].cadence, job[r][s].at))]
    /\ SetJob(r, s, NoJob)
    /\ UNCHANGED <<clock, loop, now, fired, exposed, environment>>

\* `_disable`: mark_schedule_disabled, under the same guard.
DisableWrite(r, s) ==
    /\ job[r][s].pc = "disabling"
    /\ row' = IF row[s].started = Unclaimed THEN row
              ELSE [row EXCEPT ![s] = Disabled(row[s])]
    /\ SetJob(r, s, NoJob)
    /\ UNCHANGED <<clock, loop, now, fired, exposed, environment>>

\* A claim or release statement fails; the exception is logged or suppressed
\* and the row keeps whatever claim it has.
WriteFails(r, s) ==
    /\ job[r][s].pc \in InTransaction
    /\ SetJob(r, s, NoJob)
    /\ UNCHANGED <<clock, row, loop, now, fired, exposed, environment>>

\* asyncio.timeout: whatever the coroutine is doing is cancelled and the
\* TimeoutError handler releases the claim.
DispatchTimesOut(r, s) ==
    /\ job[r][s].pc \in InSlot
    /\ ~job[r][s].handler
    /\ clock >= job[r][s].deadline
    /\ SetJob(r, s, Interrupted(job[r][s], clock))
    /\ UNCHANGED <<clock, row, loop, now, fired, exposed, environment>>

-----------------------------------------------------------------------------
(* Processes stop, die and start.                                          *)

\* What CancelledError does to one coroutine: waiting for the semaphore it is
\* outside the `try`; inside, the handler releases; a handler just ends.
Cancelled(j) ==
    IF j.pc \in InSlot /\ ~j.handler
    THEN Interrupted(j, clock)
    ELSE NoJob

\* SIGTERM: the lifespan cancels the scheduler task.
Stop(r) ==
    /\ GracefulStop
    /\ faults < MaxFaults
    /\ loop[r] \in {"sleeping", "polling", "dispatching"}
    /\ loop' = [loop EXCEPT ![r] = "stopping"]
    /\ job' = [job EXCEPT ![r] = [s \in Schedules |-> Cancelled(job[r][s])]]
    /\ faults' = faults + 1
    /\ UNCHANGED <<clock, row, now, fired, exposed, edit, edits>>

\* The cancelled TaskGroup has drained and the process exits.
Exit(r) ==
    /\ loop[r] = "stopping"
    /\ \A s \in Schedules : job[r][s] = NoJob
    /\ loop' = [loop EXCEPT ![r] = "down"]
    /\ now' = [now EXCEPT ![r] = 0]
    /\ UNCHANGED <<clock, row, job, fired, exposed, environment>>

\* SIGKILL, out of memory, machine lost: open transactions roll back.
Crash(r) ==
    /\ faults < MaxFaults
    /\ loop[r] # "down"
    /\ loop' = [loop EXCEPT ![r] = "down"]
    /\ now' = [now EXCEPT ![r] = 0]
    /\ job' = [job EXCEPT ![r] = [s \in Schedules |-> NoJob]]
    /\ faults' = faults + 1
    /\ UNCHANGED <<clock, row, fired, exposed, edit, edits>>

Start(r) ==
    /\ loop[r] = "down"
    /\ loop' = [loop EXCEPT ![r] = "sleeping"]
    /\ UNCHANGED <<clock, row, now, job, fired, exposed, environment>>

-----------------------------------------------------------------------------
(* Other writers of the row: users and demand polls.                       *)

OpenEdit(s, e) ==
    /\ ~edit[s].open
    /\ edits < MaxEdits
    /\ edit' = [edit EXCEPT ![s] = e]
    /\ edits' = edits + 1
    /\ UNCHANGED <<clock, row, loop, now, job, fired, exposed, faults>>

\* UpsertScheduleUseCase on an existing row: a new cadence, the status it read.
UpsertRead(s, c) ==
    OpenEdit(s, [open |-> TRUE, enabled |-> row[s].enabled, cadence |-> c,
                 next |-> NextRun(c, clock)])

\* ToggleScheduleUseCase(enabled=True): re-time forward from now.
EnableRead(s) ==
    OpenEdit(s, [open |-> TRUE, enabled |-> TRUE, cadence |-> row[s].cadence,
                 next |-> NextRun(row[s].cadence, clock)])

\* ToggleScheduleUseCase(enabled=False): next_run_at is written back as read.
DisableRead(s) ==
    OpenEdit(s, [open |-> TRUE, enabled |-> FALSE, cadence |-> row[s].cadence,
                 next |-> row[s].next])

\* update_schedule: the user-owned columns, never the claim.
EditWrite(s) ==
    /\ edit[s].open
    /\ row' = [row EXCEPT ![s] = Edited(row[s], edit[s])]
    /\ edit' = [edit EXCEPT ![s] = NoEdit]
    /\ UNCHANGED <<clock, loop, now, job, fired, exposed, faults, edits>>

\* finish_poll after a demand poll: set_poll_interval, then set_next_run_at.
DemandRetimes(s, c) ==
    /\ edits < MaxEdits
    /\ row' = [row EXCEPT ![s] = Retimed(row[s], c, NextRun(c, clock))]
    /\ edits' = edits + 1
    /\ UNCHANGED <<clock, loop, now, job, edit, fired, exposed, faults>>

-----------------------------------------------------------------------------
\* Time passes only between transactions, never past a coroutine's deadline,
\* and never while a waiting coroutine could take a free slot.
Advance ==
    /\ clock < MaxTime
    /\ \A r \in Replicas :
        /\ loop[r] # "polling"
        /\ \A s \in Schedules :
            /\ job[r][s].pc \notin InTransaction
            /\ job[r][s].pc = "dispatch" => clock < job[r][s].deadline
            /\ job[r][s].pc = "queued" => ~SlotFree(r)
    /\ \A s \in Schedules : ~edit[s].open
    /\ clock' = clock + 1
    /\ UNCHANGED <<row, loop, now, job, fired, exposed, environment>>

Poll(r) == PollEnd(r) \/ TickEnd(r) \/ Exit(r)

JobStep(r, s) ==
    \/ EnterSlot(r, s) \/ ClaimWon(r, s) \/ ClaimLost(r, s)
    \/ ReleaseRead(r, s) \/ ReleaseWrite(r, s) \/ DisableWrite(r, s)
    \/ DispatchTimesOut(r, s)

Scheduler ==
    \E r \in Replicas :
        \/ PollBegin(r) \/ Poll(r) \/ PollFails(r)
        \/ \E s \in Schedules :
            JobStep(r, s) \/ DispatchEnds(r, s) \/ Unschedulable(r, s) \/ WriteFails(r, s)

Environment ==
    \/ \E r \in Replicas : Stop(r) \/ Crash(r) \/ Start(r)
    \/ \E s \in Schedules :
        \/ EnableRead(s) \/ DisableRead(s) \/ EditWrite(s)
        \/ \E c \in Cadences : UpsertRead(s, c) \/ DemandRetimes(s, c)

Next == Scheduler \/ Environment \/ Advance

Spec == Init /\ [][Next]_vars

\* Every replica that is up keeps polling (its loop sleeps for a bounded time
\* and a lost advisory lock means another one is polling), coroutines run,
\* stopped processes are started again, statements do not fail forever, and
\* the clock advances.  A dispatch need not ever end by itself.
Fairness ==
    /\ WF_vars(\E r \in Replicas : PollBegin(r))
    /\ \A r \in Replicas : SF_vars(Poll(r)) /\ WF_vars(Start(r))
    /\ \A r \in Replicas, s \in Schedules :
        /\ WF_vars(JobStep(r, s))
        /\ SF_vars(ClaimWon(r, s))
    /\ \A s \in Schedules : WF_vars(EditWrite(s))
    /\ SF_vars(Advance)

FairSpec == Spec /\ Fairness

-----------------------------------------------------------------------------
(* Properties.                                                             *)

Job == [pc : {"none", "stuck", "queued"} \cup InSlot, expected : Nat, deadline : Nat,
        at : 0..MaxTime, cadence : Cadences, handler : BOOLEAN, won : BOOLEAN]

Edit == [open : BOOLEAN, enabled : BOOLEAN, cadence : Cadences, next : Nat]

\* The type of every variable.
TypeOK ==
    /\ clock \in 0..MaxTime
    /\ row \in [Schedules -> Row]
    /\ loop \in [Replicas -> {"down", "sleeping", "polling", "dispatching", "stopping"}]
    /\ now \in [Replicas -> 0..MaxTime]
    /\ job \in [Replicas -> [Schedules -> Job]]
    /\ edit \in [Schedules -> Edit]
    /\ fired \in [Schedules -> Int]
    /\ exposed \subseteq Schedules
    /\ faults \in 0..MaxFaults
    /\ edits \in 0..MaxEdits

\* While a replica is dispatching a schedule the row carries that replica's
\* claim: neither the reaper nor another replica has released it.  This is
\* what the 900s dispatch bound below the 1800s reap bound is for.  The code
\* does not promise it of a schedule once a coroutine of it has
\*   - waited for its slot for longer than the two bounds are apart, so that
\*     its claim is reapable while it works; or
\*   - been stopped inside its claim statement, so that its handler releases
\*     a claim it never won, whosever that is.
\* Those schedules are `exposed`, and nothing is said of them from then on.
LiveClaimKept ==
    \A r \in Replicas, s \in Schedules \ exposed :
        job[r][s].pc = "dispatch" => row[s].started = now[r]

\* The claim column implements a lease: one dispatcher at a time, from the
\* claim to the release, and only claims nobody is working on are reaped.
\* It does so for each schedule up to the step that exposes it.
Lease == INSTANCE DispatchLease WITH
    taken <- {s \in Schedules \ exposed : row[s].started # Unclaimed},
    holders <- [s \in Schedules |->
                    IF s \in exposed THEN {} ELSE {r \in Replicas : Holding(r, s)}]

ImplementsLease == Lease!Spec

\* A fire window is never claimed twice, whatever crashes, reaps, late
\* releases and edits come between: a claimable row always points past the
\* last window that was claimed.
WindowOnce ==
    \A s \in Schedules :
        row[s].enabled /\ row[s].started = Unclaimed => fired[s] < row[s].next

\* A claim never outlives the reap bound: whoever held it dies, hangs or
\* fails to write, the row is claimable again.  (Claims too close to the
\* bound on the clock to be reaped before it are left out.)
ClaimReleased ==
    \A s \in Schedules :
        (row[s].started # Unclaimed /\ row[s].started + StuckTimeout < MaxTime)
            ~> row[s].started = Unclaimed

\* A row that is due does not stay due: it is claimed, disabled or re-timed.
DueIsServed ==
    \A s \in Schedules, t \in 0..MaxTime :
        LET waiting == row[s].enabled /\ row[s].started = Unclaimed /\ row[s].next = t
        IN  waiting ~> ~waiting

=============================================================================
