------------------------------ MODULE PlayPoll ------------------------------
(***************************************************************************)
(* Adaptive polling of the recently-played channel, for one user: demand    *)
(* triggers (play surfaces being read, in any process) and the coverage     *)
(* heartbeat (the user's interval schedule) poll under one lease in the     *)
(* sync checkpoint, and fold every outcome into the next interval           *)
(* (application/services/play_poll_policy.py and sync_target_runner.py,     *)
(* domain/services/play_poll_decision.py, repositories/sync.py).            *)
(*                                                                         *)
(* A poll is: one transaction that reads the checkpoint, decides and claims *)
(* the lease (two statements, so two steps), the audit row, the import      *)
(* itself, and one transaction that releases the lease, persists the        *)
(* interval and re-times the heartbeat's schedule.  Time passes only while  *)
(* every poller is idle or importing.  The scheduler's own claim/release    *)
(* cycle is ScheduleClaim; here it is the one claim the heartbeat runs      *)
(* under, without missed windows.  Plays themselves are left out: a poll    *)
(* ends in one of the cases that apply_poll_result tells apart.             *)
(***************************************************************************)
EXTENDS Integers

CONSTANTS
    Demands,        \* processes whose demand refresh may poll
    Heartbeat,      \* the scheduled poll
    MinInterval,    \* MIN_INTERVAL_SECONDS
    BaseInterval,   \* BASE_INTERVAL_SECONDS
    Caps,           \* {SOLE_OBSERVER_CAP_SECONDS, REDUNDANT_CAP_SECONDS}
    Stretch(_),     \* BackoffPolicy.next_interval for this user's jitter key
    DemandMaxAge,   \* DEMAND_MAX_AGE
    ClaimTTL,       \* CLAIM_TTL
    PollBound,      \* the longest an import takes from its trigger
    StuckTimeout,   \* settings.scheduler.stuck_start_timeout_seconds
    WakeSlack,      \* how late the scheduler loop serves a due row
    Minute,         \* clock ticks per minute
    MaxTime,        \* bound: last value of the clock
    MaxEmpty,       \* bound: consecutive empty polls
    MaxFaults,      \* bound: crashes and failed writes
    MaxEdits        \* bound: connects, disconnects and toggles

Pollers == Demands \cup {Heartbeat}

ASSUME PollersAssumption == Heartbeat \notin Demands

ASSUME CadenceAssumption ==
    /\ MinInterval \in Nat \ {0} /\ BaseInterval \in Nat /\ Minute \in Nat \ {0}
    /\ Caps # {} /\ Caps \subseteq Nat
    /\ \A cap \in Caps : MinInterval <= BaseInterval /\ BaseInterval <= cap

ASSUME StretchAssumption == \A n \in 0..MaxEmpty : Stretch(n) \in Nat

ASSUME LeaseAssumption ==
    /\ DemandMaxAge \in Nat /\ ClaimTTL \in Nat /\ PollBound \in Nat
    /\ StuckTimeout \in Nat /\ WakeSlack \in Nat \ {0}
    /\ DemandMaxAge <= MinInterval
    /\ PollBound <= StuckTimeout

ASSUME BoundsAssumption ==
    MaxTime \in Nat /\ MaxEmpty \in Nat /\ MaxFaults \in Nat /\ MaxEdits \in Nat

VARIABLES
    clock,      \* wall clock, shared by all processes
    lease,      \* sync_checkpoints.poll_claimed_at
    polled,     \* sync_checkpoints.last_polled_at
    state,      \* sync_checkpoints.poll_state
    schedule,   \* the user's `schedules` row for spotify:plays
    granted,    \* whether the stored grant includes the recently-played scope
    task,       \* the poll each poller is running
    attempted,  \* history: last won lease, or since when polling is on
    faults,     \* faults so far
    edits       \* edits so far

vars == <<clock, lease, polled, state, schedule, granted, task, attempted, faults, edits>>
checkpoint == <<lease, polled, state>>
environment == <<granted, faults, edits>>

Never == -1     \* NULL in a timestamp column
AnyCap == CHOOSE cap \in Caps : TRUE

\* Every case apply_poll_result tells apart: the import failed; a full window
\* after a stored cursor, or without one; a nearly full one; new plays; none.
Outcomes == {"failed", "gap", "adopted", "near", "productive", "empty"}

PollState == [interval : Nat, empty : 0..MaxEmpty, gap : BOOLEAN]
Unset == [interval |-> 0, empty |-> 0, gap |-> FALSE]

NoTask == [pc |-> "idle", now |-> 0, cap |-> AnyCap, state |-> Unset,
           outcome |-> "failed", interval |-> 0]

Lesser(a, b) == IF a < b THEN a ELSE b
Greater(a, b) == IF a < b THEN b ELSE a

-----------------------------------------------------------------------------
(* The control law (play_poll_decision.py).                                *)

Clamped(i, cap) == Greater(MinInterval, Lesser(i, cap))

\* effective_interval_seconds: zero means unset.
Effective(s, cap) == Clamped(IF s.interval = 0 THEN BaseInterval ELSE s.interval, cap)

\* apply_poll_result: the next interval, empty streak and gap flag.
NextInterval(s, o, cap) ==
    [failed |-> Effective(s, cap),
     gap |-> MinInterval,
     adopted |-> MinInterval,
     near |-> Greater(MinInterval, Effective(s, cap) \div 2),
     productive |-> BaseInterval,
     empty |-> Lesser(Stretch(s.empty + 1), cap)][o]

NextEmpty(s, o) ==
    IF o = "empty" THEN s.empty + 1 ELSE IF o = "failed" THEN s.empty ELSE 0

NextGap(s, o) == o = "gap" \/ (s.gap /\ o \notin {"productive", "empty"})

\* Mutant of Fold: nothing keeps a halved interval above the floor.
FoldUnclamped(s, o, cap) ==
    [interval |-> IF o = "near" THEN Effective(s, cap) \div 2 ELSE NextInterval(s, o, cap),
     empty |-> NextEmpty(s, o), gap |-> NextGap(s, o)]

Fold(s, o, cap) ==
    [interval |-> Clamped(NextInterval(s, o, cap), cap),
     empty |-> NextEmpty(s, o), gap |-> NextGap(s, o)]

\* max(1, round(interval / 60)) minutes, as ticks: Python rounds half to even.
Rounded(i) ==
    LET m == i \div Minute
        twice == 2 * (i % Minute)
        up == twice > Minute \/ (twice = Minute /\ m % 2 = 1)
    IN  Minute * Greater(1, IF up THEN m + 1 ELSE m)

\* compute_next_run of an interval row: truncated to the whole minute.
NextRun(t, i) == ((t + i) \div Minute) * Minute

\* The age a checkpoint must have for this poller to poll.
MaxAge(p, s, cap) == IF p = Heartbeat THEN Effective(s, cap) ELSE DemandMaxAge

-----------------------------------------------------------------------------
Init ==
    /\ clock = 0
    /\ lease = Never /\ polled = Never /\ state = Unset
    /\ schedule = [enabled |-> TRUE, interval |-> BaseInterval, next |-> 0, claimed |-> Never]
    /\ granted = TRUE
    /\ task = [p \in Pollers |-> NoTask]
    /\ attempted = 0
    /\ faults = 0
    /\ edits = 0

SetTask(p, t) == task' = [task EXCEPT ![p] = t]
Step(p, pc) == SetTask(p, [task[p] EXCEPT !.pc = pc])

\* run_sync_target returns or raises: a demand refresh is over, the heartbeat's
\* dispatch still has to release the schedule row.
Leave(p) == SetTask(p, IF p = Heartbeat THEN [NoTask EXCEPT !.pc = "releasing"] ELSE NoTask)

InTransaction == {"beating", "claiming", "starting", "finishing", "releasing", "advancing"}

\* Past winning the lease and not yet through with the release.
Holding(p) == task[p].pc \in {"starting", "polling", "finishing"}

-----------------------------------------------------------------------------
(* One poll.                                                               *)

Due == schedule.enabled /\ schedule.claimed = Never /\ schedule.next <= clock

\* The scheduler claims the due row and dispatches it.
BeatDue ==
    /\ Due
    /\ task[Heartbeat].pc = "idle"
    /\ schedule' = [schedule EXCEPT !.claimed = clock]
    /\ Step(Heartbeat, "beating")
    /\ UNCHANGED <<clock, checkpoint, attempted, environment>>

\* decide_poll's age veto: recently_polled on demand, not_due on schedule.
TooFresh(p, cap) == polled # Never /\ clock - polled < MaxAge(p, state, cap)

Payload(cap) == [NoTask EXCEPT !.pc = "claiming", !.now = clock, !.cap = cap, !.state = state]

\* try_begin_poll up to the claim: nothing vetoes, and what the fold will need
\* is kept.  A vetoed demand trigger changes nothing, so it is no step.
Decide(p, cap) ==
    /\ task[p].pc = IF p = Heartbeat THEN "beating" ELSE "idle"
    /\ granted
    /\ ~TooFresh(p, cap)
    /\ SetTask(p, Payload(cap))
    /\ UNCHANGED <<clock, checkpoint, schedule, attempted, environment>>

Vetoed(cap) ==
    /\ task[Heartbeat].pc = "beating"
    /\ ~granted \/ TooFresh(Heartbeat, cap)
    /\ Leave(Heartbeat)
    /\ UNCHANGED <<clock, checkpoint, schedule, attempted, environment>>

\* Mutants of Claimable: a lease of any age may be taken; the claim does not
\* look at the age again.
ClaimableWhileHeld(p) ==
    polled = Never \/ polled < task[p].now - MaxAge(p, task[p].state, task[p].cap)

ClaimableIfDecided(p) == lease = Never \/ lease < task[p].now - ClaimTTL

\* The WHERE clause of try_claim_poll.
Claimable(p) ==
    /\ lease = Never \/ lease < task[p].now - ClaimTTL
    /\ polled = Never \/ polled < task[p].now - MaxAge(p, task[p].state, task[p].cap)

ClaimWon(p) ==
    /\ task[p].pc = "claiming"
    /\ Claimable(p)
    /\ lease' = task[p].now
    /\ attempted' = task[p].now
    /\ Step(p, "starting")
    /\ UNCHANGED <<clock, polled, state, schedule, environment>>

\* claimed_elsewhere.
ClaimLost(p) ==
    /\ task[p].pc = "claiming"
    /\ ~Claimable(p)
    /\ Leave(p)
    /\ UNCHANGED <<clock, checkpoint, schedule, attempted, environment>>

\* start_run: the audit row is written and the import begins.
StartRun(p) ==
    /\ task[p].pc = "starting"
    /\ Step(p, "polling")
    /\ UNCHANGED <<clock, checkpoint, schedule, attempted, environment>>

\* The import returns, raises or is cancelled.
PollEnds(p, o) ==
    /\ task[p].pc = "polling"
    /\ o = "empty" => task[p].state.empty < MaxEmpty
    /\ SetTask(p, [task[p] EXCEPT !.pc = "finishing", !.outcome = o])
    /\ UNCHANGED <<clock, checkpoint, schedule, attempted, environment>>

\* set_poll_interval and, after a demand poll, set_next_run_at.
Retimed(p, interval) ==
    IF p = Heartbeat
    THEN [schedule EXCEPT !.interval = Rounded(interval)]
    ELSE [schedule EXCEPT !.interval = Rounded(interval), !.next = task[p].now + interval]

\* Mutant of FinishPoll: the age counts from the end of the import.
FinishPollAtItsEnd(p) ==
    /\ task[p].pc = "finishing"
    /\ state' = Fold(task[p].state, task[p].outcome, task[p].cap)
    /\ lease' = Never
    /\ polled' = IF task[p].outcome = "failed" THEN polled ELSE clock
    /\ schedule' = Retimed(p, state'.interval)
    /\ Leave(p)
    /\ UNCHANGED <<clock, attempted, environment>>

\* finish_poll: one transaction.  Only a successful poll moves last_polled_at.
FinishPoll(p) ==
    /\ task[p].pc = "finishing"
    /\ state' = Fold(task[p].state, task[p].outcome, task[p].cap)
    /\ lease' = Never
    /\ polled' = IF task[p].outcome = "failed" THEN polled ELSE task[p].now
    /\ schedule' = Retimed(p, state'.interval)
    /\ Leave(p)
    /\ UNCHANGED <<clock, attempted, environment>>

\* A statement of try_begin_poll, start_run or finish_poll fails or is
\* cancelled.  The lease, once claimed, is stranded until its TTL.
StatementFails(p) ==
    /\ task[p].pc \in {"beating", "claiming", "starting", "finishing"}
    /\ faults < MaxFaults
    /\ faults' = faults + 1
    /\ Leave(p)
    /\ UNCHANGED <<clock, checkpoint, schedule, granted, attempted, edits>>

-----------------------------------------------------------------------------
(* The scheduler's release of the heartbeat, and its reaper.               *)

\* `_release` reads the row's current interval ...
ReleaseRead ==
    /\ task[Heartbeat].pc = "releasing"
    /\ SetTask(Heartbeat, [NoTask EXCEPT !.pc = "advancing", !.interval = schedule.interval])
    /\ UNCHANGED <<clock, checkpoint, schedule, attempted, environment>>

Advanced(i) == [schedule EXCEPT !.claimed = Never, !.next = NextRun(clock, i)]

\* ... and writes the next fire time, if the row is still claimed.
ReleaseWrite ==
    /\ task[Heartbeat].pc = "advancing"
    /\ schedule' = IF schedule.claimed = Never THEN schedule
                   ELSE Advanced(task[Heartbeat].interval)
    /\ SetTask(Heartbeat, NoTask)
    /\ UNCHANGED <<clock, checkpoint, attempted, environment>>

ReleaseFails ==
    /\ task[Heartbeat].pc \in {"releasing", "advancing"}
    /\ faults < MaxFaults
    /\ faults' = faults + 1
    /\ SetTask(Heartbeat, NoTask)
    /\ UNCHANGED <<clock, checkpoint, schedule, granted, attempted, edits>>

Stuck == schedule.claimed # Never /\ schedule.claimed + StuckTimeout < clock

\* A claim held past the stuck timeout is released by some replica's tick.
Reap ==
    /\ Stuck
    /\ schedule' = Advanced(schedule.interval)
    /\ UNCHANGED <<clock, checkpoint, task, attempted, environment>>

\* The process of a poller dies: its open transaction rolls back.
Crash(p) ==
    /\ task[p].pc # "idle"
    /\ faults < MaxFaults
    /\ faults' = faults + 1
    /\ SetTask(p, NoTask)
    /\ UNCHANGED <<clock, checkpoint, schedule, granted, attempted, edits>>

-----------------------------------------------------------------------------
(* The user connects, disconnects and toggles the heartbeat.               *)

\* enable_play_polling: base cadence, due at once; the poll state is kept.
Enabled == [schedule EXCEPT !.enabled = TRUE, !.interval = BaseInterval, !.next = clock]
Disabled == [schedule EXCEPT !.enabled = FALSE]

\* The grant and the row are written apart, and after a connect or disconnect
\* the row's write may fail silently.  The history restarts when the two
\* together turn polling on.
Edit(grant, row) ==
    /\ edits < MaxEdits
    /\ edits' = edits + 1
    /\ granted' = grant
    /\ schedule' = row
    /\ attempted' = IF granted /\ schedule.enabled THEN attempted ELSE clock
    /\ UNCHANGED <<clock, checkpoint, task, faults>>

\* set_play_polling.
Toggle == Edit(granted, Enabled) \/ Edit(granted, Disabled)

\* The OAuth callback with sync_play_polling_after_auth.
Connect == Edit(TRUE, Enabled) \/ Edit(TRUE, schedule)

\* The disconnect with stop_play_polling_after_disconnect.
Disconnect == Edit(FALSE, Disabled) \/ Edit(FALSE, schedule)

-----------------------------------------------------------------------------
\* Time passes only while every poller is idle or importing, an import ends
\* within PollBound, and the scheduler serves a row that is due or stuck
\* within WakeSlack.
Advance ==
    /\ clock < MaxTime
    /\ \A p \in Pollers :
        /\ task[p].pc \notin InTransaction
        /\ task[p].pc = "polling" => clock < task[p].now + PollBound
    /\ Due => clock < schedule.next + WakeSlack
    /\ Stuck => clock < schedule.claimed + StuckTimeout + WakeSlack
    /\ clock' = clock + 1
    /\ UNCHANGED <<checkpoint, schedule, task, attempted, environment>>

Poll(p) ==
    \/ \E cap \in Caps : Decide(p, cap)
    \/ ClaimWon(p) \/ ClaimLost(p) \/ StartRun(p)
    \/ \E o \in Outcomes : PollEnds(p, o)
    \/ FinishPoll(p) \/ StatementFails(p) \/ Crash(p)

Beat ==
    \/ BeatDue \/ \E cap \in Caps : Vetoed(cap)
    \/ ReleaseRead \/ ReleaseWrite \/ ReleaseFails \/ Reap

Next ==
    \/ \E p \in Pollers : Poll(p)
    \/ Beat
    \/ Toggle \/ Connect \/ Disconnect
    \/ Advance

Spec == Init /\ [][Next]_vars

-----------------------------------------------------------------------------
(* Properties.                                                             *)

Time == 0..MaxTime
Stamp == Time \cup {Never}

Task == [pc : {"idle", "polling"} \cup InTransaction, now : Time, cap : Caps,
         state : PollState, outcome : Outcomes, interval : Nat]

Schedule == [enabled : BOOLEAN, interval : Nat, next : Nat, claimed : Stamp]

\* The type of every variable; a stored interval lies between the floor and
\* the largest cap.
TypeOK ==
    /\ clock \in Time
    /\ lease \in Stamp
    /\ polled \in Stamp
    /\ state \in PollState
    /\ state.interval = 0 \/ \E cap \in Caps : state.interval \in MinInterval..cap
    /\ schedule \in Schedule
    /\ granted \in BOOLEAN
    /\ task \in [Pollers -> Task]
    /\ attempted \in Time
    /\ faults \in 0..MaxFaults
    /\ edits \in 0..MaxEdits

\* No outcome is folded into a stale payload: the empty streak and gap flag a
\* poller read before it claimed the lease are still the persisted ones until
\* it has written their successors.  The statement that claims the lease
\* re-checks the age of the last poll for this.
NoLostFold ==
    \A p \in Pollers : Holding(p) =>
        /\ task[p].state.empty = state.empty
        /\ task[p].state.gap = state.gap

\* The poll lease is a lease: one poller at a time from the claim to
\* finish_poll, and only a lease its holder abandoned runs out.
Lease == INSTANCE DispatchLease WITH
    Schedules <- {"poll"}, Replicas <- Pollers,
    taken <- IF lease # Never /\ clock <= lease + ClaimTTL THEN {"poll"} ELSE {},
    holders <- [s \in {"poll"} |-> {p \in Pollers : Holding(p)}]

ImplementsLease == Lease!Spec

\* While polling is on, the lease is won, and so a poll attempted, within two
\* of the longest intervals of the last time (one wake may be told it is not
\* due), and one more, with the reap delay, for every fault.  An attempt the
\* provider refuses counts: it says that the service keeps asking, not that it
\* gets an answer, and so nothing about plays that age out in between.
LongestInterval == CHOOSE c \in {Rounded(cap) : cap \in Caps} :
    \A cap \in Caps : Rounded(cap) <= c

Covered ==
    granted /\ schedule.enabled =>
        clock <= attempted + 2 * LongestInterval
                 + faults * (LongestInterval + StuckTimeout + WakeSlack)
                 + (1 + faults + edits) * WakeSlack

=============================================================================
