# mixd in TLA+

mixd keeps a music library in Postgres and works on it in the background:
workflows on schedules, synchronisation with streaming services, imports,
adaptive polling of the play history. It runs as one or more replicas of one
asyncio process (FastAPI, a scheduler loop, a sweeper loop, background tasks)
over one database. The database is all that replicas share and all that
survives a restart.

These modules model the parts whose correctness depends on the order in which
coroutines, replicas, users and failures act. TLC checks them on small
instances; TLAPS proves the theorems for every value of the constants.

## Parts of the system

| Part | State | Operations | What is hard | What makes it correct |
| --- | --- | --- | --- | --- |
| Scheduler (`application/services/scheduler.py`, `repositories/schedule`) | `schedules` rows: cadence, `next_run_at`, `started_at`, status; per replica the coroutines of a tick | poll under an advisory lock, reap, claim, dispatch, release, disable; edits; demand re-timing | replicas race; timeouts, shutdown and crashes between claim and release; edits in between | one dispatcher per claim; a fire window once; no claim held forever; no due row forgotten |
| Scheduler wake-up (`schedule_signal.py`, `periodic_loop.py`) | event, sleep, last sleep | sleep until due, notify | lost wake-ups | a window is missed only if no replica was up |
| Workflow runs (`use_cases/workflow_runs.py`, `repositories/workflow/runs.py`, `workflow_run_sweeper.py`, `run_activity.py`) | `workflow_runs` rows: status, `started_at`, `heartbeat_at`; tasks; sweeper loops | create, run, beat, finish, cancel, sweep | a task, its handlers and sweepers race for the last status; death before the first write | one execution at a time; terminal statuses final; orphans recovered |
| Workflow engine (`workflows/engine/executor.py`, `compute_parallel_levels`, `observers.py`) | levels of a task graph, results, node records, `workflow_run_nodes` rows, shutdown flag | run a level, degrade or propagate a node's failure, stop between levels, close the connectors | siblings of a fatal node; a shutdown in mid-level; a cancellation in the teardown | sound inputs; an outcome that says what happened |
| Play polling (`play_poll_policy.py`, `play_poll_decision.py`, `play_freshness.py`, `repositories/sync.py`) | `sync_checkpoints`: lease, freshness, backoff; in-flight refreshes | decide, claim, poll, finish; join or start a refresh | scheduled and demand polls race; a poll outlives its lease; a release that does not run | one poll at a time; freshness only from success; intervals within bounds |
| Background operations (`sse_operations.py`, `background.py`, `operation_run_recorder.py`, `operation_run_reaper.py`) | active slots, tasks, `operation_runs` rows | admit, run, finish, announce, shut down, reap | a cancellation before, in or after the audit write; failed writes; crashes | slots given back; a row tells the truth and keeps it |
| Import queue (`import_queue.py`, `health.py`) | one queue per user, its entries, upload directories | upload, start, drain, cancel | two uploads at once; a file that never settles; shutdown | one file at a time, in order, once; the deploy gate sees all work |
| Confirmed writes (`chat/pending_actions.py`, `chat/confirmed_actions.py`) | `pending_actions` rows | propose, confirm, cancel, expire | confirmations on two machines | at most one execution |
| Token refresh (`token_refresh_lock.py`, `tidal/auth.py`, `oauth.py`, `token_storage.py`) | the stored token; per process a cached one | load, refresh, adopt, save, delete; connect, disconnect | rotating tokens, two processes, lost answers and connections | no used token presented; the row holds the token in force |
| Rate limiting (`rate_limiting.py`, `retry_policies.py`) | token bucket, pause, backoffs | acquire, pause, retry | a pause during a wait; cancelled sleepers | no call inside a pause; no more calls than promised |
| Likes, play import and projection, playlist diff, identity merging, transforms | checkpoints, staging rows, none | batch algorithms | data, not interleaving | agreement with a reference definition |
| Persistence (`unit_of_work.py`, `base_repo.py`) | sessions | one transaction per use case, READ COMMITTED | read-then-write transactions | the step granularity of every module |

`PROJECT.json` has the full list, with what is not modelled and why, and under
`hazards` each place where the code is hard to test.

How the parts meet: the scheduler dispatches workflow runs and sync targets; a
workflow run that reads the play history waits for a demand poll; a poll
rewrites the interval of its own schedule row; a dispatch counts as activity
that keeps the run sweeper awake. A workflow run hands its graph to the
engine, whose outcome is the way its body ends in WorkflowRun. Operations
and the files of an export run on the same runner and share its slots. Every
call to a service goes through the limiter of the service and the token
manager of the user.

## Modules

### DispatchLease (abstract)

A lease per resource: taken by one worker at a time, given back by it, or
abandoned by it and then reclaimed by anybody. It knows nothing of clocks,
timeouts or rows. Three detailed modules implement it: a schedule's
`started_at`, the active row of a workflow, the poll lease of a checkpoint.

### ScheduleClaim

The claim and release cycle. `row` is the `schedules` table, `started` its
`started_at`; `job[r][s]` is the `_guarded` coroutine of replica `r` for
schedule `s`; `loop` and `now` are the replica's tick and its reference time.

| Action | Code |
| --- | --- |
| `PollBegin`, `PollEnd`, `PollFails`, `TickEnd` | the poll transaction of `run_scheduler_tick` (lock and list; reap, find due and commit) and the TaskGroup |
| `EnterSlot`, `ClaimWon`, `ClaimLost` | semaphore and `asyncio.timeout`, `mark_schedule_started`, the missed-window branch |
| `DispatchEnds`, `Unschedulable`, `DispatchTimesOut` | how `_process_one` ends |
| `ReleaseRead`, `ReleaseWrite`, `DisableWrite`, `WriteFails` | `_release` and its two statements, `_disable`, a failed statement |
| `Stop`, `Exit`, `Crash`, `Start` | SIGTERM, process death, restart |
| `UpsertRead`, `EnableRead`, `DisableRead`, `EditWrite`, `DemandRetimes` | the other writers of the row |

Every database statement is a step. A transaction that reads and later writes
is two steps, because the tables run at READ COMMITTED. The clock stands still
while a transaction is in flight: statements take seconds, the timeouts are
minutes. Clocks of replicas are taken to be synchronised. `NextRun` stands for
`compute_next_run` and is only assumed to be strictly later than its argument;
TLC uses the multiples of a period. The missed-window grace is any member of
`Graces`, since the code adds the length of the last sleep to it.

Two histories the code does not have: `won` tells a coroutine that has won its
claim from one whose handler releases without it, and `exposed` holds the
schedules whose claim the code has left unprotected, see the disagreements.

### WorkflowRun

The life of the runs of one workflow. `row[r]` is the row of run `r`; `task[r]`
says where its coroutine is: accepted, writing RUNNING, executing, or writing a
terminal status; `crew[p]` are the runs process `p` was given, `sweeper[p]` its
sweeper loop.

| Action | Code |
| --- | --- |
| `CreateRun`, `Begin`, `StartWrite` | `RunWorkflowUseCase` under `uq_workflow_runs_active`; the background task begins; the RUNNING write |
| `Bump` | the ticker of `_heartbeat` |
| `BodyEnds`, `TerminalWrite`, `WriteFails`, `Cancel` | `run_workflow` ends; the status writes; the handlers of `ExecuteWorkflowRunUseCase.execute` |
| `SweepList`, `SweepWrite`, `SweepFails` | `sweep_stalled_runs` and the loop's pacing |
| `Crash`, `Start` | process death (also the end of a graceful shutdown, after its `Cancel`s) and restart |

`Raise` leaves it open whether a status write that raised was committed, so the
handler may write a second status over the first. `HeartbeatLag` is the longest
a live ticker goes without a bump that lands: the interval of five seconds, plus
missed bumps, plus a blocked event loop.

### PlayPoll

Adaptive polling of the recently-played channel for one user. `lease`,
`polled` and `state` are the checkpoint's `poll_claimed_at`, `last_polled_at`
and `poll_state`; `schedule` is the user's row for `spotify:plays`; `task[p]`
is the poll of poller `p`: its trigger instant, the cap and state it read (the
`_ClaimPayload`) and its outcome. The pollers are the processes that may run a
demand refresh, one in flight each, and the heartbeat, one because the
schedule's own claim is exclusive (ScheduleClaim).

| Action | Code |
| --- | --- |
| `BeatDue`, `Vetoed`, `Decide` | the scheduler dispatches the due row; `decide_poll` inside `try_begin_poll` |
| `ClaimWon`, `ClaimLost` | the one-statement claim of `try_claim_poll`, in the same transaction but after its own read, so an action of its own |
| `StartRun`, `PollEnds`, `FinishPoll` | `start_run`, the import, and the `finally` of `run_sync_target`: release, fold, re-timing, in one transaction |
| `StatementFails`, `Crash` | a statement that raises or is cancelled; a dead process |
| `ReleaseRead`, `ReleaseWrite`, `ReleaseFails`, `Reap` | the scheduler's release of the heartbeat's row and its reaper |
| `Toggle`, `Connect`, `Disconnect` | `enable_play_polling` and `disable_play_polling`, alone or beside the change of the grant, where they may fail silently |

`Fold` is `apply_poll_result` over the six cases it tells apart. `Stretch`
stands for `BackoffPolicy.next_interval` with the user's jitter; it is any
function to the naturals, since the fold clamps it. `Rounded` and `NextRun`
keep the two roundings of the code: the row's interval to minutes (half to
even, as Python's `round`), its fire time down to the minute. The reaper's
list and write are one step here and two in ScheduleClaim; missed windows are
left out. Ages are measured from trigger instants (`context.now`), as in the
code.

### SerialImport (abstract)

What the import of uploaded exports promises: the files of a user run one at a
time, those of an export in order, none twice, and a dropped one never.

### BackgroundOperations

The operations of the API process. `task[r]` is where the kickoff and the
coroutine of operation `r` are: an element of `Ops` (kicked off by a route), or
`<<u, i>>`, file `i` of export `u`. `slots` is `_active_operations`, `row` the
status in `operation_runs`, `queues`, `entry` and `drain` the import queue,
`dirs` the upload directories, `doomed` the tasks with a cancellation to come.

| Action | Code |
| --- | --- |
| `Admit`, `LaunchOp`, `LaunchOpFails` | the cap; `start_run`; `launch_sse_operation` |
| `Begin`, `EnterBody`, `BodyReturns`, `BodyFails`, `CancelBody` | `run_sse_operation` up to the end of its body |
| `Finalize`, `FinalizeFails`, `CancelFinalize`, `Announce`, `Settle`, `GraceEnds`, `CancelUnhandled` | its `finally`: the shielded audit write, the terminal event, slot and `on_terminal`, the grace |
| `BeginUpload`, `StartQueue`, `UploadRefused`, `CancelPending` | the upload route, both of its checks; `cancel_pending` |
| `DrainBegins`, `LaunchFile`, `LaunchFileFails`, `DrainResumes`, `DrainAnnounces`, `DrainEnds`, `CancelDrain`, `CancelDrainUnhandled` | `_run_queue` and `_drain_entries` |
| `Stop`, `Exit`, `Crash`, `Start`, `Reap` | SIGTERM and its drain, process death, restart, `reap_dead_runs` |

A step is the stretch between two awaits that suspend. A result `partial` counts
as `complete`; streams are reduced to their terminal events. A body never lives
past `REAP_AGE_BOUND` (12 hours), so a row the reaper takes belongs to a process
that died. `aged` says which rows are old enough, which is left open at restart.

### TokenRefresh

The refresh of one user's token for one rotating provider. A refresh token is a
grant and a generation of it; `stored` is the row, `cache[m]` the token of the
manager in process `m`, `honoured` what the provider accepts, `holder` the
advisory lock.

| Action | Code |
| --- | --- |
| `LoadToken`, `EnterFlight` | `get_valid_token`, `force_refresh` |
| `TakeLock`, `Adopt`, `Contended` | `single_flight_token_refresh`: lock, re-read, timeout |
| `PostAnswered`, `PostRefused`, `PostFails` | `_post_refresh`, with a rotated token or without |
| `SaveToken`, `Commit`, `SaveFails` | `guard.save`, then the commit that frees the lock |
| `CompareGrant`, `DeleteGrant` | `delete_grant_if_unchanged`, in two sessions |
| `Crash`, `ConnectionLost` | a dead process; a lost connection, and the lock with it |
| `Connect`, `Disconnect` | the user, who takes no lock |

The provider is external: it honours one generation of a grant and revokes the
grant when it sees another. Three histories name the grants that the code does
not protect, each set by the step that costs the protection and by no earlier
one: `lost`, a rotation that did not reach the row; `unguarded`, a POST that a
manager sent, or a row it deleted, after its lock had gone with its connection;
`dropped`, a grant the user replaced or disconnected. A lost connection alone
marks nothing.

### RateLimiter

The pacing of one service's calls. `credit`, `lead` and `pause` are `_tokens`,
`_updated_at` and `_paused_until`, counted in ticks relative to now, so that the
state space is finite without a bound on time. `allowance` is a history that
the code does not have: what may still be sent at once if a window of `w` ticks
is to have at most `Capacity + 1 + w / Interval` requests. It starts at
`Capacity`, grows with time up to one request more, and a pause that is sat out
empties it.

| Action | Code |
| --- | --- |
| `Call`, `BackoffOver`, `LockGranted` | a call, or its retry, queues for `acquire` |
| `PauseOver`, `TokenReady` | what `acquire` does after each of its two sleeps |
| `Answered`, `Limited`, `Failed` | the retry policy: result, 429, another failure; `apply_rate_headers` |
| `Cancel`, `Tick` | a cancelled caller; time |

### WorkflowEngine

One run of `workflow_flow`. The graph, the categories and hence the levels are
chosen in `Init`; `stage[t]` is where the coroutine of node `t` is, `record[t]`
its last node record, `row[t]` its `workflow_run_nodes` row, `run` how the run
stands. The history `broken` holds the nodes whose lifecycle itself raised.

| Action | Code |
| --- | --- |
| `Begin`, `StartNodes`, `LevelDone` | the loop over levels with its shutdown check, the TaskGroup, the reading of the outcomes |
| `NodeStarted`, `NodeReturned`, `NodeCompleted`, `NodeFailed`, `NodeBroken` | `_run_task_inner` and the safety net of `_run_node_lifecycle` |
| `PoolsClosed`, `Finish` | the shielded close; `extract_workflow_result` |
| `Cancel`, `Shutdown` | a cancelled task; a signal |

Graphs are validated ones: they have tasks, and a node without upstream is a
source. `Levels` is Kahn's peeling: `Rounds`, a recursive function, counts the
unfinished parents down round by round; `LevelsSound` compares its levels with
what levels mean, and its refusals with the graphs that have a circle. The
order of nodes within a level only chooses the message of a failed run and is
left out, as are result keys, metrics and previews.

## Runs

| Run | Instance | What it shows |
| --- | --- | --- |
| `schedule_lease` | 2 schedules sharing the 1 slot of each of 2 replicas, 2 cadences, SIGTERM, clock to 5, 1 crash, no edits | until a schedule is exposed, the reaper and the other replica leave its live dispatch alone (`LiveClaimKept`) and its `started_at` is a lease (`ImplementsLease`); exposed or not, a window is claimed once (`WindowOnce`) |
| `schedule_progress` | 1 schedule, 2 replicas, crashes, SIGTERM and edits | `ClaimReleased`, `DueIsServed` under fairness; `WindowOnce` also with edits |
| `run_lease` | 2 runs, 2 processes, clock to 5, 2 faults | `ExclusiveExecution`, `TerminalIsFinal`, `ImplementsLease` |
| `run_progress` | 1 run, 2 processes, 2 faults | `RunningOrphanSwept` under fairness |
| `run_pending` | 2 runs, 1 process | a disagreement, below |
| `poll_lease` | 2 demand processes, the heartbeat, two caps, clock to 5, 1 fault, 1 edit | `NoLostFold`: nobody folds an outcome into a stale state; the poll lease is a lease (`ImplementsLease`); intervals keep their bounds (`TypeOK`) |
| `poll_coverage` | 1 demand process, the heartbeat, clock to 17, 1 fault | `Covered`: while polling is on, leases are won often enough, whether the provider answers or refuses |
| `background_exports` | 2 uploads of a user, 2 files each, 2 slots, 1 fault | `ImplementsSerialImport`; `BusyCoversWork`: the deploy gate never reads idle over work; `CompleteIsTrue`; `DirsFollowQueues`; `DrainToldLast` |
| `background_slots` | an operation and an export of 2 files, 1 slot, 2 faults | `SlotsAccounted`, `RecordIsFinal`; under fairness `QueueDrains`, `SlotsReturned` |
| `token_flight` | 2 processes, 2 grants, 2 generations, 1 fault | `NoReplay`, `StoredIsLive`, each with the three exceptions above; under fairness `FlightEnds` |
| `rate_pacing` | 2 callers, a bucket of 2, pauses up to 3 ticks, 2 attempts, 2 pauses, 1 cancelled caller | `PauseRespected`; `Paced`: at most a bucket, one token and what accrues, in any window; under fairness `CallsServed` |
| `engine_levels` | every graph over 3 tasks, 2 cancellations, 1 lost row write | `LevelsSound`, `SoundInputs`, `VerdictTrue`, `HistoryTrue`; under fairness `RunEnds` |

**Why the bounds are enough.** Two replicas are needed for every race and a
third adds no new pair; the claim is a single cell, so schedules interact only
through the slots of a replica, for which two rows and one slot are the
smallest case. In `schedule_lease` a dispatch may take two ticks and a claim is
stuck after three, so a coroutine that waits for its slot while the other one
works for its full two ticks waits longer than the two bounds are apart: claims
that can be reaped while they work do occur, and are exposed. The clock reaches
far enough for a claim, a death, a reap and a second claim. Deadlock checking is
off: the clock is bounded, and a behaviour may stop at its end.

PlayPoll ticks in half minutes, so that both roundings can bite, and shrinks
the intervals to a few ticks, in the order of the constants. `poll_lease` lets
an import take as long as the demand age, the longest for which `NoLostFold`
holds. `Covered` promises a won lease within two of the longest intervals
(rounded to minutes), because one wake may be told it is not due; a fault costs
one interval and the stuck bound more. Without a fault the promise is due after
9 ticks, with one after 16; the clock runs to 17, so a poller that waits longer
in either case is seen. The run has no edits: one more event of that kind
outgrows a run of this length. `Covered` is a safety property with deadlines:
the scheduler is assumed to serve a due or stuck row within `WakeSlack` while a
replica is up.

Uploads of different users meet only in the slots, so `background_exports` takes
two of one user, which compete for the queue as well, and `background_slots` an
operation and an export for one slot; a file that failed and one that follows it
are all that an order of files needs. Two rotations of two grants are the
smallest case in which an old token can be presented and a newer grant met;
`ReplayNever` and `StoredAlwaysLive` cover every number of managers. A
limiter's callers queue for one lock, so two of them already are the one that
sleeps and the one that queues; three ticks of pause are longer than a token
takes. Three tasks make every shape of a cycle up to three, a diamond's half, a
level with a failing and a working node, and a level behind it. Behaviours of
these modules end when every bound is used up, so they too may stop.

**Fairness.** The scheduler loop and the sweeper loop are `while True` loops
that survive errors; coroutines that can run do (weak fairness). Strong
fairness stands where the code retries forever against something that may
fail or be taken away now and then: a claim, a heartbeat, a sweep's write, and
the clock. Nothing is assumed of a dispatch or of a workflow body: both may
hang forever. BackgroundOperations assumes that an import ends, because the
code gives it no timeout and waits for it; of users, failures and restarts it
assumes nothing. In TokenRefresh the POST, the statements and the wait for the
lock have timeouts. In RateLimiter time passes, requests have timeouts, and
`asyncio.Lock` serves its waiters in order, which strong fairness of a waiter
that gets its chance again and again stands for. WorkflowEngine assumes the
node timeouts and that a row write and the close of the connectors end.

## Disagreements of the code with its own words

`run_pending` ends with a counterexample, and `PROJECT.json` quotes the line at
issue: a `pending` row whose process died is never swept and blocks its
workflow, though "the first tick after restart also resolves runs orphaned by
prior process kills" (`workflow_run_sweeper.py:15-16`).

The others were met as counterexamples while the models were built, and the
properties of the passing runs are stated around them:

- A claim is stamped with the tick's instant even after a wait for a slot
  (`scheduler.py:376-381`), so a live dispatch can look older than the stuck
  bound, be reaped, and then run twice. The settings say that the stuck bound
  is for "a DEAD dispatch (process killed before recording an outcome)" and
  keep the dispatch bound below it so that "a hung-but-live dispatch is
  recorded as a real failure before the reaper would skip it"
  (`settings.py:656-657`, `:647-649`). A coroutine that enters its slot after a
  wait longer than the two bounds are apart makes its schedule `exposed`:
  without that exception TLC refutes `LiveClaimKept` and `ImplementsLease`,
  with neither a stop nor a crash.
- A release names no owner (`schedule/repository.py:452`), and the handler of a
  coroutine cancelled by SIGTERM releases whatever it finds
  (`scheduler.py:570`), also when it was stopped inside its claim statement and
  the other replica has won that claim; the row can then be claimed and run
  once more. The release is said to guard against a run that was "already
  failed-and-released" (`schedule/repository.py:444-446`), and a win to be
  exclusive. The schedule is `exposed` once the handler of such a coroutine
  goes to release; without the exception TLC refutes both properties with one
  schedule. `WindowOnce` needs neither exception: what is run twice is never
  the same fire window.
- `_release` reads the cadence and writes the fire time in two statements
  (`scheduler.py:305`): an edit that commits in between loses its fire time,
  though "every exit path honors the user's NEW cadence" (:295-296).
- After a restart faster than the stale threshold the sweeper's startup tick
  lists nothing, and the idle loop does not look again for six hours
  (`workflow_run_sweeper.py:223`), though "the startup tick already covers"
  orphans of other processes (:19-20).
- The heartbeat's fire time is cut to the minute (`schedule_timing.py:44`), the
  decision compares exact ages. When the last poll began off the minute, the
  wake comes too early, is vetoed as not due, and its release advances the row
  by a whole interval, though the row lets the scheduler sleep "through it
  instead of waking to be told no" (`play_poll_decision.py:27-28`). This is why
  `Covered` says two intervals.
- `enable_play_polling` resets the interval of the row "because a fresh grant
  is exactly when stored backoff state is least trustworthy"
  (`play_poll_policy.py:233-235`) but keeps `poll_state`, which is what the
  decision reads.
- A poll that lasts longer than `DEMAND_MAX_AGE` can lose its fold to the
  claim's re-check, because ages count from trigger instants.
- A cancellation during the audit write is swallowed, and the 30 seconds of
  grace follow, though a comment says that it is re-raised
  (`sse_operations.py:354-356`): the variable it is kept in stays `None`.
- The refresh lock is held across the POST so that one process at a time
  presents the token, and "commit, rollback, and connection loss all release
  it" (`token_refresh_lock.py:19-22`). But a manager whose connection is lost
  does not notice: its POST goes out all the same. If another one took the lock,
  rotated and committed meanwhile, that POST presents a used token and the
  provider revokes the grant, though the only "known loss mode" the module
  names is a rotation that is not committed (:28-31). It may also delete the
  row of the grant then. `unguarded` names the grants to which one of these
  happened; without it TLC refutes `NoReplay` and `StoredIsLive`.
- A refresh in flight upserts its token over a grant that the user connected
  meanwhile, and re-creates the row after a disconnect; the compare and the
  delete of a dead grant are two transactions. A stale flight is said never to
  destroy a newer grant (`tidal/auth.py:276-279`, `oauth.py:67-70`). `dropped`
  names the grants the user replaced or disconnected, and both properties
  except them.
- An idle bucket "absorbs a burst of `rate_per_second` calls"
  (`rate_limiting.py:46-47`). A caller that oversleeps has its booked token
  beside a bucket that refilled meanwhile (:129-142), so one call more can go
  out at once: `Paced` grants it, and with the bucket's own capacity as the
  bound TLC refutes `Paced`.
- A caller cancelled while it sleeps for its token leaves the booked token and a
  cursor that runs ahead, which the next caller sets back and accrues again, and
  one cancelled in a pause leaves the bucket full, though the pause says "resume
  from an empty bucket, not an accrued one" (`rate_limiting.py:112`). A pause
  that nobody sits out does not empty it either. `Paced` counts what each of
  them costs.
- A node whose lifecycle itself raises is recorded as failed and fails the run
  (`executor.py:556-576`), but nothing writes its row, which reads `running` for
  good. Nor does anything rewrite the rows of nodes that a cancellation cuts off
  at their work. `HistoryTrue` demands `running` of the first and leaves the
  second open; of every other node, in runs that crashed too, it demands what
  happened.
- A graph without a destination executes to its end before the run is recorded
  as failed, because the validation does not ask for one. `VerdictTrue` says so.


## Proofs

The eight modules named `*_proofs` use only the assumptions the modules declare
about their constants; a theorem that needs more of the deployment names it as
a hypothesis.

- `TypeCorrect`, `RunTypeCorrect`, `PollTypeCorrect`, `BackTypeCorrect`,
  `RefreshTypeCorrect`, `LimiterTypeCorrect`, `EngineTypeCorrect`: the type
  invariants; that of PlayPoll includes the bounds
  of every stored interval, that of RateLimiter the bounds of the credit.
- `FiresOnce`: `WindowOnce`, with every fault, stop and edit allowed. It is not
  inductive: a release writes a fire time computed from an instant remembered
  by the coroutine, so `WindowInv` says of every coroutine in flight that what
  it is about to write lies past the last window claimed.
- `LiveClaimSafe`: `LiveClaimKept`, and `ClaimIsLease`: the refinement, both
  for any number of schedules and slots, with queueing and graceful stops, and
  without a hypothesis about either. `ClaimInv` relates the row, the coroutine
  and its deadline: unless the schedule was exposed, its dispatch entered the
  slot within the slack of its tick (`SlotInTime`), so its claim is younger than
  the stuck bound for as long as its deadline lets it work (`HoldIsBounded`);
  and a coroutine that writes without having won is one that was stopped inside
  its claim, and exposed the schedule (`OwnerlessExposed`).
- `TerminalStatusFinal`: no step changes a terminal status. `RowInv` says that
  a coroutine about to write RUNNING, the one unguarded write, has a row that
  is still active.
- `ExecutionExclusive`, `RunIsLease`: under `LagCovered` (heartbeats land
  within the stale threshold). `OwnInv` adds that an executing run shows a
  recent sign of life, so no sweeper lists it and the index protects it.
- `PollIsLease`: under `PollsWithinTTL` (an import ends within `CLAIM_TTL`).
  `LeaseInv` says that a holder's instant is the one in the lease and younger
  than the TTL, hence there is one holder and nobody takes over from it.
- `FoldNeverLost`: `NoLostFold`, under the same hypothesis and
  `PollsWithinAge` (an import ends within `DEMAND_MAX_AGE`). It is not
  inductive: a poller that has decided but not claimed may hold a stale state.
  `FoldInv` says that it is then refused (`OvertakenIsRefused`): whoever wrote
  the state since also moved `last_polled_at` past the claim's cutoff, or
  failed and left streak and gap alone.
- `AlwaysCovered`: `Covered`, under `CadenceFits`: `PollsWithinTTL`, a TTL
  within the longest interval, and caps that are whole minutes and have a
  largest. The caps of the code are two hours and a day, its TTL fifteen
  minutes; without the whole minutes, rounding half to even may exceed a cap.
  `Covered` says nothing of the future, so it is not inductive: `HorizonInv`
  bounds, in every state, the next fire time, the instant of a release under
  way, and the instant at which a claim left behind is reaped, each against the
  last attempt plus what faults and edits have cost so far. A release moves the
  fire time by at most one interval and happens within one interval of the
  attempt, or of the veto that shows the attempt to be younger than an
  interval. `RowInv` and `BeatInv` bound the interval of the row and the age of
  its claim; `AttemptInv` says that no holder of the lease was triggered after
  the last attempt.
- `SlotsAlwaysAccounted`, `BusyAlwaysCovers`, `CompleteAlwaysTrue`,
  `DirsAlwaysFollow`, `DrainAlwaysLast` and, as an action property,
  `RecordAlwaysFinal`: every safety property of BackgroundOperations, for any
  number of users, exports, files, operations and slots. `BackInv` is one
  invariant for all of them, because they rest on each other. `ServingInv` ties
  what a serving process knows of an export together (the drain, the entry of
  each file, the coroutine of the file it waits for); `FileInv` says how a
  file's coroutine, verdict, entry and row may stand to each other, and that at
  most one file of a drain is under way; `RowInv` how an operation's row stands
  to its coroutine; `AgedInv` that a row old enough for the reaper has no live
  coroutine; `ProcessInv` that a process that stops has a cancellation pending
  for all that could still begin something, and one that is down has nothing.
- `ImportIsSerial`: the refinement of SerialImport. A file's abstract work
  begins with its body, is `done` with its verdict and `dropped` when its entry
  or its coroutine ends without one. A user has one queue (`OneQueue`), whose
  drain has one file running (`FileInv`), and only after the ones before it
  settled, so a body that begins is the next in order; a crash or a shutdown
  drops everything that waited in one step.
- `ReplayNever`, `StoredAlwaysLive`: `NoReplay` and `StoredIsLive`, for any
  number of processes. `Replaced` says that only the grant connected last can
  still be in order; `LockInv` that a manager past its POST has the lock, or
  the POST went out unguarded; `OrderInv` that, of a grant in order, the row
  holds the generation in force unless a flight is about to write it, a flight
  posts the generation in force, and a cache may be older only where the row
  tells so: if the row is gone, or the flight under the lock works for another
  grant, every cache of the grant is up to date (`Uniform`).
- `NoCallInPause`: `PauseRespected`. `CallsArePaced`: `Paced`, for any rate,
  capacity and number of callers. The limiter's credit and the service's bucket
  drift apart in every sleep, and `PaceInv` says by how much in each state of
  the lock: what may still be sent, plus one bucket per cancelled caller, is no
  less than what the limiter believes to have (free), nothing (in a pause), the
  booked token less the time still to sleep (before a wake-up), and that token
  plus what accrued since, over the brim of the bucket by that token (after an
  overslept one).
- `LevelsAlwaysSound`: `LevelsSound` for every finite graph. `RoundsCorrect` in
  WorkflowLevels_proofs says what round `n` holds: the tasks it releases are
  those whose parents were all released before and that were not, and a
  counter is the number of parents still to come. It is an induction over `n`,
  done by taking the least index at which the claim fails, because the library's
  induction theorems cannot be used. `LevelsShape` adds that no round after an
  empty one releases a task; `LeftWaits` that what is never released is a set of
  tasks each of which waits for another of it, hence a circle.
- `InputsAlwaysSound`: `SoundInputs`. `EngineInv` orders the levels of a run:
  those behind the current one are done and fine, those ahead have not begun,
  and only nodes of the current one work. The set that `SoundInputs` asks for is
  the union of the levels behind.
- `VerdictAlwaysTrue`, `HistoryAlwaysTrue`: `VerdictTrue` and `HistoryTrue`. For
  the first, `EngineInv` says what each way of closing a run knows of the
  records; for the second, `RowsFollow` says that a row follows its node as
  long as no write was lost, until a cancellation cuts the node off, and that
  the row of a broken one stays behind.

Every safety property of a passing run is stated by a theorem. Liveness under
fairness is out of the prover's reach and is checked by TLC only:
`ClaimReleased`, `DueIsServed`, `RunningOrphanSwept`, `QueueDrains`,
`SlotsReturned`, `FlightEnds`, `CallsServed` and `RunEnds`.

## Not modelled

The connectors' bindings and payloads, the assistant's turn loop, sign-in,
routes, command line and migrations are request and response code around the
parts above. Likes, play projection, identity merging and the transforms are
sequential: what could go wrong there is data, within reach of unit tests. In
the parts that are modelled: `DUE_BATCH_MAX`, `SWEEP_MAX_BATCH`, run history and
health views, counts, issues and progress events, the cap on simultaneous calls
(a plain semaphore), clock skew between processes, and what nodes compute.

## Plan

1. **PendingAction**: propose, confirm, cancel and expire; a confirmation is one
   conditional delete before the action runs, so it runs at most once.
2. **SchedulerWake**: the loop's sleep, its event, and the demand poll that
   moves a fire time without setting it; joining and throttling in
   `play_freshness.py`.
3. The playlist diff as an operator against a reference definition.
