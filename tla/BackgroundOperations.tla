------------------------ MODULE BackgroundOperations ------------------------
(***************************************************************************)
(* The background operations of the API process: kickoffs of single         *)
(* operations, uploaded exports drained file by file, the shared slots,     *)
(* the operation_runs rows, the upload directories, the busy gate, and      *)
(* what a shutdown, a crash and a restart do to all of them.                *)
(*                                                                         *)
(* An operation id is an element of Ops, or <<u, i>> for file i of export   *)
(* u.  Steps are the stretches between two awaits that really suspend; the  *)
(* stream registry's lock is never contended, so register() does not.       *)
(* Events other than the terminal ones, counts and issues are left out, and *)
(* `partial` counts as `complete`.  A body never lives past REAP_AGE_BOUND. *)
(***************************************************************************)
EXTENDS Integers, FiniteSets

CONSTANTS
    Ops,            \* operations kicked off on their own
    Exports,        \* uploads of an export
    Owner,          \* the user of each export
    FileCount,      \* files of every export
    MaxSlots,       \* SSEConstants.MAX_CONCURRENT_OPERATIONS
    MaxFaults       \* bound: stops, crashes and failed writes in a behaviour

Files == 1..FileCount
Runs == Ops \cup (Exports \X Files)

ASSUME BackgroundAssumption ==
    /\ FileCount \in Nat \ {0}
    /\ MaxSlots \in Nat \ {0}
    /\ MaxFaults \in Nat
    /\ Ops \cap Exports = {}
    /\ (Ops \cup Exports) \cap (Exports \X Files) = {}
    /\ Owner = [u \in Exports |-> Owner[u]]

VARIABLES
    process,    \* "up", "stopping" (the lifespan's finally) or "down"
    slots,      \* _active_operations
    task,       \* where the kickoff and the coroutine of each operation are
    verdict,    \* the `status` of run_sse_operation, once decided
    row,        \* operation_runs.status
    aged,       \* rows of dead processes that are older than REAP_AGE_BOUND
    upload,     \* the POST of each export
    queues,     \* the exports in _queues
    entry,      \* QueueEntry.status
    drain,      \* where the coroutine of _run_queue is
    dirs,       \* upload directories on disk
    doomed,     \* tasks with a cancellation to be delivered
    told,       \* operations and exports whose terminal event was pushed
    returned,   \* history: operations whose body returned a result
    faults

vars == <<process, slots, task, verdict, row, aged, upload, queues, entry,
          drain, dirs, doomed, told, returned, faults>>

Settled == {"complete", "error", "cancelled"}       \* QueueEntry.is_settled
Draining == {"spawned", "launching", "waiting"}     \* _run_queue before its finally
InSlot == {"starting", "body", "writing", "reporting", "announced"}
Live == {"spawned", "grace"} \cup InSlot

\* ImportQueue.is_drained.  Mutant: a running entry counts as settled.
DrainedButRunning(u) == \A i \in Files : entry[u][i] # "queued"
Drained(u) == \A i \in Files : entry[u][i] \in Settled

\* any_queue_undrained() or uploads_streaming() or a live running row.
Busy ==
    \/ \E u \in queues : ~Drained(u)
    \/ \E u \in Exports : upload[u] = "streaming"
    \/ \E r \in Runs : row[r] = "running" /\ r \notin aged

Fault == faults < MaxFaults /\ faults' = faults + 1

Init ==
    /\ process = "up"
    /\ slots = {}
    /\ task = [r \in Runs |-> "idle"]
    /\ verdict = [r \in Runs |-> "none"]
    /\ row = [r \in Runs |-> "absent"]
    /\ aged = {}
    /\ upload = [u \in Exports |-> "idle"]
    /\ queues = {}
    /\ entry = [u \in Exports |-> [i \in Files |-> "queued"]]
    /\ drain = [u \in Exports |-> "none"]
    /\ dirs = {}
    /\ doomed = {}
    /\ told = {}
    /\ returned = {}
    /\ faults = 0

-----------------------------------------------------------------------------
(* Kickoff of an operation on its own: launch_sse_operation.                *)

\* The capacity check, before the audit row is written.
Admit(o) ==
    /\ process = "up"
    /\ task[o] = "idle"
    /\ Cardinality(slots) < MaxSlots
    /\ task' = [task EXCEPT ![o] = "admitted"]
    /\ UNCHANGED <<process, slots, verdict, row, aged, upload, queues, entry,
                   drain, dirs, doomed, told, returned, faults>>

\* start_run commits; the task is created in the same stretch.
LaunchOp(o) ==
    /\ task[o] = "admitted"
    /\ row' = [row EXCEPT ![o] = "running"]
    /\ task' = [task EXCEPT ![o] = "spawned"]
    /\ UNCHANGED <<process, slots, verdict, aged, upload, queues, entry, drain,
                   dirs, doomed, told, returned, faults>>

\* start_run raises; its commit may have landed nevertheless.
LaunchOpFails(o) ==
    /\ task[o] = "admitted"
    /\ Fault
    /\ row' \in {row, [row EXCEPT ![o] = "running"]}
    /\ task' = [task EXCEPT ![o] = "gone"]
    /\ UNCHANGED <<process, slots, verdict, aged, upload, queues, entry, drain,
                   dirs, doomed, told, returned>>

-----------------------------------------------------------------------------
(* run_sse_operation, for operations of both kinds.                         *)

\* The first step takes the slot and suspends in safe_start_operation.
Begin(r) ==
    /\ task[r] = "spawned" /\ r \notin doomed
    /\ task' = [task EXCEPT ![r] = "starting"]
    /\ slots' = IF r \in Ops THEN slots \cup {r} ELSE slots
    /\ UNCHANGED <<process, verdict, row, aged, upload, queues, entry, drain,
                   dirs, doomed, told, returned, faults>>

EnterBody(r) ==
    /\ task[r] = "starting" /\ r \notin doomed
    /\ task' = [task EXCEPT ![r] = "body"]
    /\ UNCHANGED <<process, slots, verdict, row, aged, upload, queues, entry,
                   drain, dirs, doomed, told, returned, faults>>

BodyReturns(r) ==
    /\ task[r] = "body" /\ r \notin doomed
    /\ task' = [task EXCEPT ![r] = "writing"]
    /\ verdict' = [verdict EXCEPT ![r] = "complete"]
    /\ returned' = returned \cup {r}
    /\ UNCHANGED <<process, slots, row, aged, upload, queues, entry, drain,
                   dirs, doomed, told, faults>>

\* The body raises, or returns a soft failure.
BodyFails(r) ==
    /\ task[r] = "body" /\ r \notin doomed
    /\ task' = [task EXCEPT ![r] = "writing"]
    /\ verdict' = [verdict EXCEPT ![r] = "error"]
    /\ UNCHANGED <<process, slots, row, aged, upload, queues, entry, drain,
                   dirs, doomed, told, returned, faults>>

\* A cancellation reaches the body.  Mutants: the optimistic default stands;
\* the handler also covers the steps after the audit write.
CancelBodyOptimistic(r) ==
    /\ task[r] = "body" /\ r \in doomed
    /\ doomed' = doomed \ {r}
    /\ task' = [task EXCEPT ![r] = "writing"]
    /\ verdict' = [verdict EXCEPT ![r] = "complete"]
    /\ UNCHANGED <<process, slots, row, aged, upload, queues, entry, drain,
                   dirs, told, returned, faults>>
CancelBodyBroad(r) ==
    /\ task[r] \in {"body", "reporting", "announced"} /\ r \in doomed
    /\ doomed' = doomed \ {r}
    /\ task' = [task EXCEPT ![r] = "writing"]
    /\ verdict' = [verdict EXCEPT ![r] = "error"]
    /\ UNCHANGED <<process, slots, row, aged, upload, queues, entry, drain,
                   dirs, told, returned, faults>>
CancelBody(r) ==
    /\ task[r] = "body" /\ r \in doomed
    /\ doomed' = doomed \ {r}
    /\ task' = [task EXCEPT ![r] = "writing"]
    /\ verdict' = [verdict EXCEPT ![r] = "error"]
    /\ UNCHANGED <<process, slots, row, aged, upload, queues, entry, drain,
                   dirs, told, returned, faults>>

\* _finalize_run_shielded.
Finalize(r) ==
    /\ task[r] = "writing" /\ r \notin doomed
    /\ row' = [row EXCEPT ![r] = verdict[r]]
    /\ task' = [task EXCEPT ![r] = "reporting"]
    /\ UNCHANGED <<process, slots, verdict, aged, upload, queues, entry, drain,
                   dirs, doomed, told, returned, faults>>

FinalizeFails(r) ==
    /\ task[r] = "writing" /\ r \notin doomed
    /\ Fault
    /\ row' \in {row, [row EXCEPT ![r] = verdict[r]]}
    /\ task' = [task EXCEPT ![r] = "reporting"]
    /\ UNCHANGED <<process, slots, verdict, aged, upload, queues, entry, drain,
                   dirs, doomed, told, returned>>

\* Cancelled during the write: the shield lets it land, within a bounded wait,
\* and the cancellation is swallowed.
CancelFinalize(r) ==
    /\ task[r] = "writing" /\ r \in doomed
    /\ doomed' = doomed \ {r}
    /\ row' \in {row, [row EXCEPT ![r] = verdict[r]]}
    /\ task' = [task EXCEPT ![r] = "reporting"]
    /\ UNCHANGED <<process, slots, verdict, aged, upload, queues, entry, drain,
                   dirs, told, returned, faults>>

\* _push_terminal_event: to the operation's own stream and to the drain's.
Announce(r) ==
    /\ task[r] = "reporting" /\ r \notin doomed
    /\ told' = told \cup {r}
    /\ task' = [task EXCEPT ![r] = "announced"]
    /\ UNCHANGED <<process, slots, verdict, row, aged, upload, queues, entry,
                   drain, dirs, doomed, returned, faults>>

\* safe_complete_operation returned: the slot is released, on_terminal called.
\* Mutants: only a success settles its entry; the slot is kept.
SettleSuccess(r) ==
    /\ task[r] = "announced" /\ r \notin doomed
    /\ task' = [task EXCEPT ![r] = "grace"]
    /\ slots' = slots \ {r}
    /\ entry' = IF r \in Ops \/ verdict[r] = "error" THEN entry
                ELSE [entry EXCEPT ![r[1]][r[2]] = verdict[r]]
    /\ UNCHANGED <<process, verdict, row, aged, upload, queues, drain, dirs,
                   doomed, told, returned, faults>>
SettleUnslotted(r) ==
    /\ task[r] = "announced" /\ r \notin doomed
    /\ task' = [task EXCEPT ![r] = "grace"]
    /\ entry' = IF r \in Ops THEN entry
                ELSE [entry EXCEPT ![r[1]][r[2]] = verdict[r]]
    /\ UNCHANGED <<process, slots, verdict, row, aged, upload, queues, drain,
                   dirs, doomed, told, returned, faults>>
Settle(r) ==
    /\ task[r] = "announced" /\ r \notin doomed
    /\ task' = [task EXCEPT ![r] = "grace"]
    /\ slots' = slots \ {r}
    /\ entry' = IF r \in Ops THEN entry
                ELSE [entry EXCEPT ![r[1]][r[2]] = verdict[r]]
    /\ UNCHANGED <<process, verdict, row, aged, upload, queues, drain, dirs,
                   doomed, told, returned, faults>>

\* finalize_sse_operation after the grace period.
GraceEnds(r) ==
    /\ task[r] = "grace" /\ r \notin doomed
    /\ task' = [task EXCEPT ![r] = "gone"]
    /\ UNCHANGED <<process, slots, verdict, row, aged, upload, queues, entry,
                   drain, dirs, doomed, told, returned, faults>>

\* A cancellation where nothing handles it: before the try block, or in the
\* steps after the audit write.
CancelUnhandled(r) ==
    /\ task[r] \in {"spawned", "starting", "reporting", "announced", "grace"}
    /\ r \in doomed
    /\ doomed' = doomed \ {r}
    /\ task' = [task EXCEPT ![r] = "gone"]
    /\ UNCHANGED <<process, slots, verdict, row, aged, upload, queues, entry,
                   drain, dirs, told, returned, faults>>

-----------------------------------------------------------------------------
(* The upload of an export, and its drain.                                  *)

\* raise_if_queue_active.
QueueActive(u) == \E v \in queues : Owner[v] = Owner[u] /\ ~Drained(v)

\* The first check, mkdtemp, and the first chunk to wait for.
BeginUpload(u) ==
    /\ process = "up"
    /\ upload[u] = "idle"
    /\ ~QueueActive(u)
    /\ upload' = [upload EXCEPT ![u] = "streaming"]
    /\ dirs' = dirs \cup {u}
    /\ UNCHANGED <<process, slots, task, verdict, row, aged, queues, entry,
                   drain, doomed, told, returned, faults>>

\* start_queue: the second check, the slot, the registry and the drain task
\* in one stretch.  Mutant: the second check is left to the first.
StartQueueUnchecked(u) ==
    /\ process = "up"
    /\ upload[u] = "streaming"
    /\ Cardinality(slots) < MaxSlots
    /\ upload' = [upload EXCEPT ![u] = "started"]
    /\ slots' = slots \cup {u}
    /\ queues' = {v \in queues : Owner[v] # Owner[u]} \cup {u}
    /\ drain' = [drain EXCEPT ![u] = "spawned"]
    /\ UNCHANGED <<process, task, verdict, row, aged, entry, dirs, doomed, told,
                   returned, faults>>
StartQueue(u) ==
    /\ process = "up"
    /\ upload[u] = "streaming"
    /\ ~QueueActive(u)
    /\ Cardinality(slots) < MaxSlots
    /\ upload' = [upload EXCEPT ![u] = "started"]
    /\ slots' = slots \cup {u}
    /\ queues' = {v \in queues : Owner[v] # Owner[u]} \cup {u}
    /\ drain' = [drain EXCEPT ![u] = "spawned"]
    /\ UNCHANGED <<process, task, verdict, row, aged, entry, dirs, doomed, told,
                   returned, faults>>

\* A cap, a refused start (409, 429) or a client that went away.  Mutant: the
\* directory of a refused start stays.
UploadRefusedKept(u) ==
    /\ upload[u] = "streaming"
    /\ upload' = [upload EXCEPT ![u] = "refused"]
    /\ UNCHANGED <<process, slots, task, verdict, row, aged, queues, entry,
                   drain, dirs, doomed, told, returned, faults>>
UploadRefused(u) ==
    /\ upload[u] = "streaming"
    /\ upload' = [upload EXCEPT ![u] = "refused"]
    /\ dirs' = dirs \ {u}
    /\ UNCHANGED <<process, slots, task, verdict, row, aged, queues, entry,
                   drain, doomed, told, returned, faults>>

\* cancel_pending.
CancelPending(u) ==
    /\ process = "up" /\ u \in queues
    /\ \E i \in Files : entry[u][i] = "queued"
    /\ entry' = [entry EXCEPT ![u] =
          [i \in Files |-> IF @[i] = "queued" THEN "cancelled" ELSE @[i]]]
    /\ UNCHANGED <<process, slots, task, verdict, row, aged, upload, queues,
                   drain, dirs, doomed, told, returned, faults>>

\* The loop of _drain_entries, with the entries as its last step left them:
\* on to the first queued entry, or into the finally of _run_queue, which
\* releases the slot and removes the directory before its first await.
NextEntry(u, e) ==
    \/ \E i \in Files :
          /\ e[i] = "queued"
          /\ \A j \in 1..(i - 1) : e[j] # "queued"
          /\ entry' = [entry EXCEPT ![u] = [e EXCEPT ![i] = "running"]]
          /\ drain' = [drain EXCEPT ![u] = "launching"]
          /\ UNCHANGED <<slots, dirs>>
    \/ /\ \A i \in Files : e[i] # "queued"
       /\ entry' = [entry EXCEPT ![u] = e]
       /\ drain' = [drain EXCEPT ![u] = "closing"]
       /\ slots' = slots \ {u}
       /\ dirs' = dirs \ {u}

DrainBegins(u) ==
    /\ drain[u] = "spawned" /\ u \notin doomed
    /\ NextEntry(u, entry[u])
    /\ UNCHANGED <<process, task, verdict, row, aged, upload, queues, doomed,
                   told, returned, faults>>

\* launch_sse_operation for the entry that runs.
LaunchFile(u, i) ==
    /\ drain[u] = "launching" /\ u \notin doomed
    /\ entry[u][i] = "running"
    /\ row' = [row EXCEPT ![<<u, i>>] = "running"]
    /\ task' = [task EXCEPT ![<<u, i>>] = "spawned"]
    /\ drain' = [drain EXCEPT ![u] = "waiting"]
    /\ UNCHANGED <<process, slots, verdict, aged, upload, queues, entry, dirs,
                   doomed, told, returned, faults>>

\* It raises, its commit landed or not; the loop continues.
LaunchFileFails(u, i) ==
    /\ drain[u] = "launching" /\ u \notin doomed
    /\ entry[u][i] = "running"
    /\ Fault
    /\ row' \in {row, [row EXCEPT ![<<u, i>>] = "running"]}
    /\ NextEntry(u, [entry[u] EXCEPT ![i] = "error"])
    /\ UNCHANGED <<process, task, verdict, aged, upload, queues, doomed, told,
                   returned>>

\* `settled.wait()` returns: the entry that ran was settled by on_terminal.
\* Mutant: the drain does not wait for its file.
DrainResumesEarly(u) ==
    /\ drain[u] = "waiting" /\ u \notin doomed
    /\ NextEntry(u, entry[u])
    /\ UNCHANGED <<process, task, verdict, row, aged, upload, queues, doomed,
                   told, returned, faults>>
DrainResumes(u) ==
    /\ drain[u] = "waiting" /\ u \notin doomed
    /\ \A i \in Files : entry[u][i] # "running"
    /\ NextEntry(u, entry[u])
    /\ UNCHANGED <<process, task, verdict, row, aged, upload, queues, doomed,
                   told, returned, faults>>

\* _push_drain_terminal, after the last position event.
DrainAnnounces(u) ==
    /\ drain[u] = "closing" /\ u \notin doomed
    /\ told' = told \cup {u}
    /\ drain' = [drain EXCEPT ![u] = "grace"]
    /\ UNCHANGED <<process, slots, task, verdict, row, aged, upload, queues,
                   entry, dirs, doomed, returned, faults>>

DrainEnds(u) ==
    /\ drain[u] = "grace" /\ u \notin doomed
    /\ drain' = [drain EXCEPT ![u] = "gone"]
    /\ UNCHANGED <<process, slots, task, verdict, row, aged, upload, queues,
                   entry, dirs, doomed, told, returned, faults>>

\* A cancellation in _drain_entries enters the finally.  The audit row that
\* start_run was writing may land.
CancelDrain(u) ==
    /\ drain[u] \in {"launching", "waiting"} /\ u \in doomed
    /\ doomed' = doomed \ {u}
    /\ \/ row' = row
       \/ \E i \in Files :
            /\ drain[u] = "launching" /\ entry[u][i] = "running"
            /\ row' = [row EXCEPT ![<<u, i>>] = "running"]
    /\ drain' = [drain EXCEPT ![u] = "closing"]
    /\ slots' = slots \ {u}
    /\ dirs' = dirs \ {u}
    /\ UNCHANGED <<process, task, verdict, aged, upload, queues, entry, told,
                   returned, faults>>

CancelDrainUnhandled(u) ==
    /\ drain[u] \in {"spawned", "closing", "grace"} /\ u \in doomed
    /\ doomed' = doomed \ {u}
    /\ drain' = [drain EXCEPT ![u] = "gone"]
    /\ UNCHANGED <<process, slots, task, verdict, row, aged, upload, queues,
                   entry, dirs, told, returned, faults>>

-----------------------------------------------------------------------------
(* The process.                                                             *)

\* The statement in flight in each coroutine, and the row if it lands.  Mutant:
\* the row is created with the status of a run that has not decided one.
InFlight ==
    {r \in Runs : task[r] \in {"admitted", "writing"}} \cup
    {f \in Exports \X Files : drain[f[1]] = "launching" /\ entry[f[1]][f[2]] = "running"}
LandedUndecided(r) == verdict[r]
Landed(r) == IF task[r] = "writing" THEN verdict[r] ELSE "running"

\* cancel_all_background_tasks: requests are over by now, those that were not
\* are cancelled; every task of the snapshot gets its cancellation.
Stop ==
    /\ process = "up"
    /\ Fault
    /\ process' = "stopping"
    /\ \E L \in SUBSET {o \in Ops : task[o] = "admitted"} :
          row' = [r \in Runs |-> IF r \in L THEN "running" ELSE row[r]]
    /\ task' = [r \in Runs |-> IF task[r] = "admitted" THEN "gone" ELSE task[r]]
    /\ upload' = [u \in Exports |-> IF upload[u] = "streaming" THEN "refused" ELSE upload[u]]
    /\ dirs' = {u \in dirs : upload[u] # "streaming"}
    /\ doomed' = {r \in Runs : task[r] \in Live} \cup
                 {u \in Exports : drain[u] \in Draining \cup {"closing", "grace"}}
    /\ UNCHANGED <<slots, verdict, aged, queues, entry, drain, told, returned>>

\* The process is gone, and with it everything but rows and directories.
Dies ==
    /\ process' = "down"
    /\ \E L \in SUBSET InFlight :
          row' = [r \in Runs |-> IF r \in L THEN Landed(r) ELSE row[r]]
    /\ task' = [r \in Runs |-> IF task[r] = "idle" THEN "idle" ELSE "gone"]
    /\ upload' = [u \in Exports |-> IF upload[u] = "streaming" THEN "refused" ELSE upload[u]]
    /\ drain' = [u \in Exports |-> IF drain[u] = "none" THEN "none" ELSE "gone"]
    /\ slots' = {} /\ queues' = {} /\ doomed' = {}
    /\ UNCHANGED <<verdict, aged, entry, dirs, told, returned>>

\* The drain budget is over or used up; stragglers are abandoned.
Exit == process = "stopping" /\ Dies /\ UNCHANGED faults

Crash == process = "up" /\ Fault /\ Dies

\* A new process: upload directories are swept before it serves.  Rows that
\* still say running are old by now, or not yet.
Start ==
    /\ process = "down"
    /\ process' = "up"
    /\ dirs' = {}
    /\ aged' \in {A \in SUBSET {r \in Runs : row[r] = "running"} : aged \subseteq A}
    /\ UNCHANGED <<slots, task, verdict, row, upload, queues, entry, drain,
                   doomed, told, returned, faults>>

\* reap_dead_runs, one transaction.
Reap ==
    /\ process = "up"
    /\ aged # {}
    /\ row' = [r \in Runs |-> IF r \in aged THEN "error" ELSE row[r]]
    /\ aged' = {}
    /\ UNCHANGED <<process, slots, task, verdict, upload, queues, entry, drain,
                   dirs, doomed, told, returned, faults>>

Kickoff(o) == Admit(o) \/ LaunchOp(o) \/ LaunchOpFails(o)

RunStep(r) ==
    \/ Begin(r) \/ EnterBody(r) \/ BodyReturns(r) \/ BodyFails(r) \/ CancelBody(r)
    \/ Finalize(r) \/ FinalizeFails(r) \/ CancelFinalize(r)
    \/ Announce(r) \/ Settle(r) \/ GraceEnds(r) \/ CancelUnhandled(r)

DrainStep(u) ==
    \/ DrainBegins(u) \/ DrainResumes(u) \/ DrainAnnounces(u) \/ DrainEnds(u)
    \/ CancelDrain(u) \/ CancelDrainUnhandled(u)
    \/ \E i \in Files : LaunchFile(u, i) \/ LaunchFileFails(u, i)

Request(u) == BeginUpload(u) \/ StartQueue(u) \/ UploadRefused(u) \/ CancelPending(u)

ProcessStep == Stop \/ Exit \/ Crash \/ Start \/ Reap

Next ==
    \/ \E o \in Ops : Kickoff(o)
    \/ \E r \in Runs : RunStep(r)
    \/ \E u \in Exports : DrainStep(u) \/ Request(u)
    \/ ProcessStep

Spec == Init /\ [][Next]_vars

\* Coroutines that can run do run, a body ends, a process that stops exits.
\* Nothing is assumed of users, failures or restarts.
Fairness ==
    /\ \A r \in Runs : WF_vars(RunStep(r))
    /\ \A u \in Exports : WF_vars(DrainStep(u))
    /\ WF_vars(Exit)

FairSpec == Spec /\ Fairness

-----------------------------------------------------------------------------
Stage == {"idle", "admitted", "writing", "reporting", "gone"} \cup Live

\* The type of every variable.
TypeOK ==
    /\ process \in {"up", "stopping", "down"}
    /\ slots \subseteq Ops \cup Exports
    /\ task \in [Runs -> Stage]
    /\ verdict \in [Runs -> {"none", "complete", "error"}]
    /\ row \in [Runs -> {"absent", "running", "complete", "error"}]
    /\ aged \subseteq Runs
    /\ upload \in [Exports -> {"idle", "streaming", "started", "refused"}]
    /\ queues \subseteq Exports
    /\ entry \in [Exports -> [Files -> {"queued", "running"} \cup Settled]]
    /\ drain \in [Exports -> Draining \cup {"none", "closing", "grace", "gone"}]
    /\ dirs \subseteq Exports
    /\ doomed \subseteq Runs \cup Exports
    /\ told \subseteq Runs \cup Exports
    /\ returned \subseteq Runs
    /\ faults \in 0..MaxFaults

\* While the process serves, the slots are held by exactly the operations at
\* work and the drains at work, whatever failed on the way: none leaks, and a
\* file of an export runs under the slot of its drain.
SlotsAccounted ==
    process = "up" =>
        /\ slots = {o \in Ops : task[o] \in InSlot} \cup {u \in Exports : drain[u] \in Draining}
        /\ \A f \in Exports \X Files :
              task[f] \in {"spawned"} \cup InSlot => f[1] \in slots

\* The deploy gate never reads idle over work: an upload being received, a
\* file still to be imported, an operation whose result is not recorded.
BusyCoversWork ==
    /\ process = "up"
    /\ \/ \E r \in Runs : task[r] \in {"spawned", "starting", "body", "writing"}
       \/ \E u \in Exports : upload[u] = "streaming" \/ drain[u] = "launching"
       \/ \E u \in Exports, i \in Files : drain[u] \in Draining /\ entry[u][i] = "queued"
    => Busy

\* A row says `complete` only if its body returned: no shutdown, crash, failed
\* write or reaper makes a success of work that was cut short, and a result
\* that was recorded is never taken back.
CompleteIsTrue == \A r \in Runs : row[r] = "complete" => r \in returned
RecordIsFinal ==
    [][\A r \in Runs : row[r] \in {"complete", "error"} => row'[r] = row[r]]_vars

\* Upload directories: there while a file may still be read from them, and
\* gone otherwise, whoever refused, cancelled or killed the export.
DirsFollowQueues ==
    process = "up" =>
        dirs = {u \in Exports : upload[u] = "streaming" \/ drain[u] \in Draining}

\* The drain of a serving process closes its stream only when every file has
\* a final status and every file that ran has told its own on that stream.
DrainToldLast ==
    \A u \in Exports : process = "up" /\ drain[u] = "grace" =>
        \A i \in Files :
            /\ entry[u][i] \in Settled
            /\ task[<<u, i>>] # "idle" => <<u, i>> \in told

\* The import implements SerialImport: one file of a user at a time, in order
\* of upload, none twice, and a cancelled file never.
Work(f) ==
    IF task[f] = "body" THEN "running"
    ELSE IF verdict[f] # "none" THEN "done"
    ELSE IF task[f] = "gone" \/ entry[f[1]][f[2]] \in {"cancelled", "error"} THEN "dropped"
    ELSE "waiting"

Import == INSTANCE SerialImport WITH work <- [f \in Exports \X Files |-> Work(f)]

ImplementsSerialImport == Import!Spec

\* Every drain that was started ends, whatever its files and writes do.
QueueDrains == \A u \in Exports : drain[u] # "none" ~> drain[u] = "gone"

\* Every slot is given back.
SlotsReturned == \A t \in Ops \cup Exports : t \in slots ~> t \notin slots
=============================================================================
