--------------------- MODULE BackgroundOperations_proofs ---------------------
(***************************************************************************)
(* Proofs about BackgroundOperations, for any number of operations, exports *)
(* and files, any number of slots and any number of faults: every safety    *)
(* property that its runs check, and the refinement of SerialImport.        *)
(***************************************************************************)
EXTENDS BackgroundOperations, TLAPS

-----------------------------------------------------------------------------
(* The inductive invariant.                                                *)

ExportFiles == Exports \X Files

\* The coroutine of an operation up to its last step under a slot.
AtWork == {"spawned"} \cup InSlot

\* A cancellation is only ever pending while the process stops, and then it is
\* pending for all that could still begin something; a dead process has no
\* coroutine, slot or queue.
ProcessInv ==
    /\ process = "up" => doomed = {}
    /\ process = "stopping" =>
          /\ \A r \in Runs : task[r] # "admitted" /\ (task[r] \in {"spawned", "starting", "body"} => r \in doomed)
          /\ \A u \in Exports : upload[u] # "streaming" /\ (drain[u] \in Draining => u \in doomed)
    /\ process = "down" =>
          /\ slots = {} /\ queues = {} /\ doomed = {}
          /\ \A r \in Runs : task[r] \in {"idle", "gone"}
          /\ \A u \in Exports : upload[u] # "streaming" /\ drain[u] \in {"none", "gone"}

\* The verdict of an operation, its row and the result of its body.
RowInv == \A r \in Runs :
    /\ task[r] \in {"idle", "admitted", "spawned", "starting", "body"} => verdict[r] = "none"
    /\ task[r] \in {"writing", "reporting", "announced", "grace"} => verdict[r] # "none"
    /\ task[r] \in {"spawned", "starting", "body", "writing"} => row[r] = "running"
    /\ r \in Ops /\ task[r] \in {"idle", "admitted"} => row[r] = "absent"
    /\ verdict[r] = "complete" => r \in returned

\* A row that the reaper may take belongs to nobody who could still write it.
AgedInv == \A r \in aged :
    /\ row[r] = "running" /\ task[r] \in {"idle", "gone"}
    /\ r \in ExportFiles => drain[r[1]] = "gone"

\* The files of an export: one at a time is running, in the order of upload; it
\* is at work only as that file, and its row is written only for it.
FileOf(u) ==
    /\ drain[u] # "none" => upload[u] = "started"
    /\ drain[u] = "launching" => \E i \in Files : entry[u][i] = "running"
    /\ \A i, j \in Files : entry[u][i] = "running" =>
          (entry[u][j] = "running" => i = j) /\ (j < i => entry[u][j] # "queued")
    /\ \A i \in Files :
          /\ drain[u] \in {"none", "spawned"} => entry[u][i] \in {"queued", "cancelled"}
          /\ entry[u][i] \in {"queued", "cancelled"} \/ (drain[u] = "launching" /\ entry[u][i] = "running") =>
                task[<<u, i>>] = "idle" /\ row[<<u, i>>] = "absent"
          /\ task[<<u, i>>] # "admitted"
          /\ task[<<u, i>>] \in AtWork => entry[u][i] = "running"
          /\ entry[u][i] = "complete" => verdict[<<u, i>>] # "none"
FileInv == \A u \in Exports : FileOf(u)

\* While the process serves, nobody is at work but for a drain that waits, and a
\* drain that closes has told and settled everything.
ServingOf(u) ==
    /\ drain[u] \in Draining => u \in queues \/ Drained(u)
    /\ \A i \in Files :
          /\ task[<<u, i>>] \in AtWork => drain[u] = "waiting"
          /\ drain[u] \in {"closing", "grace"} => entry[u][i] \in Settled
          /\ drain[u] # "gone" /\ task[<<u, i>>] \in {"announced", "grace", "gone"} => <<u, i>> \in told
ServingInv == process = "up" => \A u \in Exports : ServingOf(u)

OneQueue == \A u, v \in queues : Owner[u] = Owner[v] => u = v

HeldSlots == process = "up" =>
    slots = {o \in Ops : task[o] \in InSlot} \cup {u \in Exports : drain[u] \in Draining}

BackInv ==
    /\ TypeOK /\ ProcessInv /\ RowInv /\ AgedInv /\ FileInv /\ ServingInv /\ OneQueue
    /\ HeldSlots /\ DirsFollowQueues /\ CompleteIsTrue

-----------------------------------------------------------------------------
(* Types.                                                                   *)

LEMMA Names ==
    /\ Ops \cap Exports = {} /\ Ops \cap ExportFiles = {} /\ Exports \cap ExportFiles = {}
    /\ Runs = Ops \cup ExportFiles /\ ExportFiles \subseteq Runs /\ Ops \subseteq Runs
    /\ \A f \in ExportFiles : f[1] \in Exports /\ f[2] \in Files /\ f = <<f[1], f[2]>>
    /\ \A u \in Exports, i \in Files : <<u, i>> \in ExportFiles
    /\ FileCount \in Nat /\ Files = 1..FileCount
BY BackgroundAssumption DEF Runs, ExportFiles, Files

\* Names of the types of single values.
Statuses == {"queued", "running"} \cup Settled

LEMMA NextEntryType ==
    ASSUME TypeOK, NEW u \in Exports, NEW e \in [Files -> Statuses], NextEntry(u, e)
    PROVE  /\ slots' \subseteq Ops \cup Exports /\ dirs' \subseteq Exports
           /\ entry' \in [Exports -> [Files -> Statuses]]
           /\ drain' \in [Exports -> Draining \cup {"none", "closing", "grace", "gone"}]
<1>1. CASE \E i \in Files : /\ entry' = [entry EXCEPT ![u] = [e EXCEPT ![i] = "running"]]
                            /\ drain' = [drain EXCEPT ![u] = "launching"]
                            /\ UNCHANGED <<slots, dirs>>
    BY <1>1 DEF TypeOK, Statuses, Draining
<1>2. CASE /\ entry' = [entry EXCEPT ![u] = e]
           /\ drain' = [drain EXCEPT ![u] = "closing"]
           /\ slots' = slots \ {u} /\ dirs' = dirs \ {u}
    BY <1>2 DEF TypeOK, Statuses
<1> QED
    BY <1>1, <1>2 DEF NextEntry

LEMMA FaultType == TypeOK /\ Fault => faults' \in 0..MaxFaults
BY BackgroundAssumption DEF Fault, TypeOK

LEMMA TypeStep == TypeOK /\ RowInv /\ [Next]_vars => TypeOK'
<1> SUFFICES ASSUME TypeOK, RowInv, [Next]_vars PROVE TypeOK'
    OBVIOUS
<1> USE DEF Stage, Live, InSlot
<1>1. ASSUME NEW o \in Ops, Kickoff(o) PROVE TypeOK'
    <2>0. o \in Runs
        BY Names
    <2>1. [row EXCEPT ![o] = "running"] \in [Runs -> {"absent", "running", "complete", "error"}]
        BY DEF TypeOK
    <2>2. CASE Admit(o) \/ LaunchOp(o)
        BY <2>0, <2>1, <2>2 DEF Admit, LaunchOp, TypeOK
    <2>3. CASE LaunchOpFails(o)
        BY <2>0, <2>1, <2>3, FaultType DEF LaunchOpFails, TypeOK
    <2> QED
        BY <1>1, <2>2, <2>3 DEF Kickoff
<1>2. ASSUME NEW r \in Runs, Begin(r) \/ EnterBody(r) PROVE TypeOK'
    BY <1>2 DEF Begin, EnterBody, TypeOK
<1>3. ASSUME NEW r \in Runs, BodyReturns(r) \/ BodyFails(r) \/ CancelBody(r) PROVE TypeOK'
    BY <1>3 DEF BodyReturns, BodyFails, CancelBody, TypeOK
<1>4. ASSUME NEW r \in Runs, Finalize(r) \/ FinalizeFails(r) \/ CancelFinalize(r) PROVE TypeOK'
    <2>1. task[r] = "writing" /\ verdict[r] \in {"complete", "error"}
        BY <1>4 DEF Finalize, FinalizeFails, CancelFinalize, TypeOK, RowInv
    <2>2. [row EXCEPT ![r] = verdict[r]] \in [Runs -> {"absent", "running", "complete", "error"}]
        BY <2>1 DEF TypeOK
    <2>3. row' \in [Runs -> {"absent", "running", "complete", "error"}]
        BY <1>4, <2>2 DEF Finalize, FinalizeFails, CancelFinalize, TypeOK
    <2> QED
        BY <1>4, <2>3, FaultType DEF Finalize, FinalizeFails, CancelFinalize, TypeOK
<1>5. ASSUME NEW r \in Runs, Announce(r) \/ GraceEnds(r) \/ CancelUnhandled(r) PROVE TypeOK'
    BY <1>5 DEF Announce, GraceEnds, CancelUnhandled, TypeOK
<1>6. ASSUME NEW r \in Runs, Settle(r) PROVE TypeOK'
    BY <1>6 DEF Settle, TypeOK, RowInv, Settled
<1>7. ASSUME NEW u \in Exports, BeginUpload(u) \/ StartQueue(u) \/ UploadRefused(u) PROVE TypeOK'
    BY <1>7 DEF BeginUpload, StartQueue, UploadRefused, TypeOK, Draining
<1>8. ASSUME NEW u \in Exports, CancelPending(u) PROVE TypeOK'
    BY <1>8 DEF CancelPending, TypeOK, Settled
<1>9. ASSUME NEW u \in Exports, DrainBegins(u) \/ DrainResumes(u) PROVE TypeOK'
    BY <1>9, NextEntryType DEF DrainBegins, DrainResumes, TypeOK, Statuses
<1>10. ASSUME NEW u \in Exports, NEW i \in Files, LaunchFile(u, i) PROVE TypeOK'
    BY <1>10 DEF LaunchFile, TypeOK, Draining
<1>11. ASSUME NEW u \in Exports, NEW i \in Files, LaunchFileFails(u, i) PROVE TypeOK'
    <2>1. [entry[u] EXCEPT ![i] = "error"] \in [Files -> Statuses]
        BY DEF TypeOK, Statuses, Settled
    <2>2. NextEntry(u, [entry[u] EXCEPT ![i] = "error"])
        BY <1>11 DEF LaunchFileFails
    <2>3. row' \in [Runs -> {"absent", "running", "complete", "error"}]
        BY <1>11 DEF LaunchFileFails, TypeOK
    <2>4. /\ slots' \subseteq Ops \cup Exports /\ dirs' \subseteq Exports
          /\ entry' \in [Exports -> [Files -> Statuses]]
          /\ drain' \in [Exports -> Draining \cup {"none", "closing", "grace", "gone"}]
        BY <2>1, <2>2, NextEntryType
    <2> QED
        BY <1>11, <2>3, <2>4, FaultType DEF LaunchFileFails, TypeOK, Statuses
<1>12. ASSUME NEW u \in Exports, DrainAnnounces(u) \/ DrainEnds(u) \/ CancelDrainUnhandled(u) PROVE TypeOK'
    BY <1>12 DEF DrainAnnounces, DrainEnds, CancelDrainUnhandled, TypeOK
<1>13. ASSUME NEW u \in Exports, CancelDrain(u) PROVE TypeOK'
    BY <1>13 DEF CancelDrain, TypeOK
<1>14. CASE Stop
    <2>1. /\ process' = "stopping" /\ faults' \in 0..MaxFaults
          /\ UNCHANGED <<slots, verdict, aged, queues, entry, drain, told, returned>>
          /\ dirs' \subseteq Exports /\ doomed' \subseteq Runs \cup Exports
        BY <1>14, BackgroundAssumption DEF Stop, Fault, TypeOK
    <2>2. row' \in [Runs -> {"absent", "running", "complete", "error"}]
        BY <1>14 DEF Stop, TypeOK
    <2>3. task' \in [Runs -> Stage]
        BY <1>14 DEF Stop, TypeOK
    <2>4. upload' \in [Exports -> {"idle", "streaming", "started", "refused"}]
        BY <1>14 DEF Stop, TypeOK
    <2> QED
        BY <2>1, <2>2, <2>3, <2>4 DEF TypeOK
<1>15. CASE Exit \/ Crash
    <2>1. /\ process' = "down" /\ slots' = {} /\ queues' = {} /\ doomed' = {}
          /\ UNCHANGED <<verdict, aged, entry, dirs, told, returned>>
          /\ faults' \in 0..MaxFaults
        BY <1>15, BackgroundAssumption DEF Exit, Crash, Fault, Dies, TypeOK
    <2>2. row' \in [Runs -> {"absent", "running", "complete", "error"}]
        <3>1. \A q \in InFlight : Landed(q) \in {"absent", "running", "complete", "error"}
            BY Names DEF InFlight, Landed, TypeOK, RowInv, ExportFiles
        <3>2. PICK L \in SUBSET InFlight : row' = [q \in Runs |-> IF q \in L THEN Landed(q) ELSE row[q]]
            BY <1>15 DEF Exit, Crash, Dies
        <3> QED
            BY <3>1, <3>2 DEF TypeOK
    <2>3. task' \in [Runs -> Stage]
        BY <1>15 DEF Exit, Crash, Dies, TypeOK
    <2>4. /\ upload' \in [Exports -> {"idle", "streaming", "started", "refused"}]
          /\ drain' \in [Exports -> Draining \cup {"none", "closing", "grace", "gone"}]
        BY <1>15 DEF Exit, Crash, Dies, TypeOK
    <2> QED
        BY <2>1, <2>2, <2>3, <2>4 DEF TypeOK
<1>16. CASE Start \/ Reap
    BY <1>16 DEF Start, Reap, TypeOK
<1>17. CASE UNCHANGED vars
    BY <1>17 DEF vars, TypeOK
<1> QED
    BY <1>1, <1>2, <1>3, <1>4, <1>5, <1>6, <1>7, <1>8, <1>9, <1>10, <1>11, <1>12, <1>13,
       <1>14, <1>15, <1>16, <1>17
    DEF Next, RunStep, DrainStep, Request, ProcessStep

-----------------------------------------------------------------------------
(* What the steps of an operation do, value by value.                       *)

RunFrame(r) ==
    /\ UNCHANGED <<process, aged, upload, queues, drain, dirs>>
    /\ \A q \in Runs : q # r =>
          /\ task'[q] = task[q] /\ verdict'[q] = verdict[q] /\ row'[q] = row[q]
          /\ q \in doomed' <=> q \in doomed
    /\ \A u \in Exports : u \in doomed' <=> u \in doomed
    /\ \A u \in Exports, i \in Files : r # <<u, i>> => entry'[u][i] = entry[u][i]
    /\ told \subseteq told' /\ returned \subseteq returned' /\ doomed' \subseteq doomed

RunMove(r) ==
    \/ /\ task[r] = "spawned" /\ task'[r] = "starting" /\ r \notin doomed
       /\ slots' = IF r \in Ops THEN slots \cup {r} ELSE slots
       /\ UNCHANGED <<verdict, row, entry>>
    \/ /\ task[r] = "starting" /\ task'[r] = "body" /\ r \notin doomed
       /\ UNCHANGED <<slots, verdict, row, entry>>
    \/ /\ task[r] = "body" /\ task'[r] = "writing"
       /\ verdict'[r] \in {"complete", "error"} /\ (verdict'[r] = "complete" => r \in returned')
       /\ UNCHANGED <<slots, row, entry>>
    \/ /\ task[r] = "writing" /\ task'[r] = "reporting" /\ row'[r] \in {row[r], verdict[r]}
       /\ UNCHANGED <<slots, verdict, entry>>
    \/ /\ task[r] = "reporting" /\ task'[r] = "announced" /\ r \in told'
       /\ UNCHANGED <<slots, verdict, row, entry>>
    \/ /\ task[r] = "announced" /\ task'[r] = "grace" /\ slots' = slots \ {r}
       /\ \A u \in Exports, i \in Files : r = <<u, i>> => entry'[u][i] = verdict[r]
       /\ UNCHANGED <<verdict, row>>
    \/ /\ task[r] = "grace" /\ task'[r] = "gone"
       /\ UNCHANGED <<slots, verdict, row, entry>>
    \/ /\ task[r] \in {"spawned", "starting", "reporting", "announced", "grace"}
       /\ task'[r] = "gone" /\ r \in doomed
       /\ UNCHANGED <<slots, verdict, row, entry>>

LEMMA RunEffect ==
    ASSUME TypeOK, NEW r \in Runs, RunStep(r)
    PROVE  RunFrame(r) /\ RunMove(r)
<1>1. \A u \in Exports, i \in Files : <<u, i>> \in Runs
    BY Names
<1>2. \A u \in Exports : u # r
    BY Names
<1>3. CASE Begin(r) \/ EnterBody(r)
    BY <1>1, <1>3 DEF Begin, EnterBody, RunFrame, RunMove, TypeOK
<1>4. CASE BodyReturns(r) \/ BodyFails(r) \/ CancelBody(r)
    BY <1>1, <1>2, <1>4 DEF BodyReturns, BodyFails, CancelBody, RunFrame, RunMove, TypeOK
<1>5. CASE Finalize(r) \/ FinalizeFails(r) \/ CancelFinalize(r)
    <2>1. row' \in {row, [row EXCEPT ![r] = verdict[r]]}
        BY <1>5 DEF Finalize, FinalizeFails, CancelFinalize
    <2>2. row'[r] \in {row[r], verdict[r]} /\ \A q \in Runs : q # r => row'[q] = row[q]
        BY <2>1 DEF TypeOK
    <2> QED
        BY <1>1, <1>2, <1>5, <2>2 DEF Finalize, FinalizeFails, CancelFinalize, RunFrame, RunMove, TypeOK
<1>6. CASE Announce(r) \/ GraceEnds(r) \/ CancelUnhandled(r)
    BY <1>1, <1>2, <1>6 DEF Announce, GraceEnds, CancelUnhandled, RunFrame, RunMove, TypeOK
<1>7. CASE Settle(r)
    <2>1. ASSUME NEW u \in Exports, NEW i \in Files
          PROVE  entry'[u][i] = IF r = <<u, i>> THEN verdict[r] ELSE entry[u][i]
        <3>1. CASE r \in Ops
            BY <1>7, <3>1, Names DEF Settle
        <3>2. CASE r \in ExportFiles
            <4>1. r \notin Ops /\ r[1] \in Exports /\ r[2] \in Files /\ r = <<r[1], r[2]>>
                BY <3>2, Names
            <4>2. entry' = [entry EXCEPT ![r[1]][r[2]] = verdict[r]]
                BY <1>7, <4>1 DEF Settle
            <4> QED
                BY <4>1, <4>2 DEF TypeOK
        <3> QED
            BY <3>1, <3>2, Names
    <2> QED
        BY <1>7, <2>1 DEF Settle, RunFrame, RunMove, TypeOK
<1> QED
    BY <1>3, <1>4, <1>5, <1>6, <1>7 DEF RunStep

-----------------------------------------------------------------------------
(* What the steps of a drain do, value by value.                            *)

DrainFrame(u) ==
    /\ UNCHANGED <<process, verdict, aged, upload, queues, returned>>
    /\ \A v \in Exports : v # u =>
          /\ drain'[v] = drain[v] /\ (v \in dirs' <=> v \in dirs)
          /\ (v \in doomed' <=> v \in doomed) /\ (v \in slots' <=> v \in slots)
          /\ \A i \in Files : entry'[v][i] = entry[v][i]
    /\ \A r \in Runs :
          /\ r \in doomed' <=> r \in doomed
          /\ (\A i \in Files : r # <<u, i>>) => task'[r] = task[r] /\ row'[r] = row[r]
    /\ \A o \in Ops : o \in slots' <=> o \in slots
    /\ told \subseteq told' /\ doomed' \subseteq doomed

\* NextEntry, with the entries as e has them.
NextMove(u, e) ==
    \/ \E i \in Files :
          /\ e[i] = "queued" /\ entry'[u][i] = "running"
          /\ \A j \in Files : (j < i => e[j] # "queued") /\ (j # i => entry'[u][j] = e[j])
          /\ drain'[u] = "launching"
          /\ (u \in slots' <=> u \in slots) /\ (u \in dirs' <=> u \in dirs)
    \/ /\ \A i \in Files : e[i] # "queued" /\ entry'[u][i] = e[i]
       /\ drain'[u] = "closing" /\ u \notin slots' /\ u \notin dirs'

\* The row of the file that is being launched, and no other.
MayLand(u) == \E i \in Files :
    /\ entry[u][i] = "running" /\ row'[<<u, i>>] \in {row[<<u, i>>], "running"}
    /\ \A j \in Files : j # i => row'[<<u, j>>] = row[<<u, j>>]

DrainMove(u) ==
    \/ /\ drain[u] = "spawned" \/ (drain[u] = "waiting" /\ \A i \in Files : entry[u][i] # "running")
       /\ u \notin doomed /\ NextMove(u, entry[u]) /\ UNCHANGED <<task, row>>
    \/ \E i \in Files :
          /\ drain[u] = "launching" /\ entry[u][i] = "running" /\ u \notin doomed
          /\ row'[<<u, i>>] \in {row[<<u, i>>], "running"}
          /\ \A j \in Files : j # i => row'[<<u, j>>] = row[<<u, j>>]
          /\ NextMove(u, [entry[u] EXCEPT ![i] = "error"]) /\ UNCHANGED task
    \/ \E i \in Files :
          /\ drain[u] = "launching" /\ drain'[u] = "waiting" /\ entry[u][i] = "running" /\ u \notin doomed
          /\ row'[<<u, i>>] = "running" /\ task'[<<u, i>>] = "spawned"
          /\ \A j \in Files : j # i =>
                row'[<<u, j>>] = row[<<u, j>>] /\ task'[<<u, j>>] = task[<<u, j>>]
          /\ UNCHANGED <<slots, dirs, entry>>
    \/ /\ (drain[u] = "closing" /\ drain'[u] = "grace") \/ (drain[u] = "grace" /\ drain'[u] = "gone")
       /\ u \notin doomed /\ UNCHANGED <<slots, dirs, entry, task, row>>
    \/ /\ drain[u] \in {"launching", "waiting"} /\ drain'[u] = "closing" /\ u \in doomed
       /\ u \notin slots' /\ u \notin dirs' /\ UNCHANGED <<entry, task>>
       /\ row' = row \/ (drain[u] = "launching" /\ MayLand(u))
    \/ /\ drain[u] \in {"spawned", "closing", "grace"} /\ drain'[u] = "gone" /\ u \in doomed
       /\ UNCHANGED <<slots, dirs, entry, task, row>>

LEMMA NextEntryEffect ==
    ASSUME TypeOK, NEW u \in Exports, NEW e \in [Files -> Statuses], NextEntry(u, e)
    PROVE  /\ NextMove(u, e)
           /\ \A v \in Exports : v # u =>
                 /\ drain'[v] = drain[v] /\ (v \in dirs' <=> v \in dirs)
                 /\ (v \in slots' <=> v \in slots)
                 /\ \A i \in Files : entry'[v][i] = entry[v][i]
           /\ \A o \in Ops : o \in slots' <=> o \in slots
<1>0. u \notin Ops
    BY Names
<1>1. ASSUME NEW i \in Files, e[i] = "queued", \A j \in 1..(i - 1) : e[j] # "queued",
             entry' = [entry EXCEPT ![u] = [e EXCEPT ![i] = "running"]],
             drain' = [drain EXCEPT ![u] = "launching"], UNCHANGED <<slots, dirs>>
      PROVE  /\ NextMove(u, e)
             /\ \A v \in Exports : v # u =>
                   drain'[v] = drain[v] /\ \A k \in Files : entry'[v][k] = entry[v][k]
    <2>1. \A j \in Files : j < i => j \in 1..(i - 1)
        BY Names
    <2>2. entry'[u] = [e EXCEPT ![i] = "running"] /\ \A v \in Exports : v # u => entry'[v] = entry[v]
        BY <1>1 DEF TypeOK
    <2>3. drain'[u] = "launching" /\ \A v \in Exports : v # u => drain'[v] = drain[v]
        BY <1>1 DEF TypeOK
    <2>4. entry'[u][i] = "running" /\ \A j \in Files : j # i => entry'[u][j] = e[j]
        BY <2>2
    <2>5. /\ e[i] = "queued" /\ entry'[u][i] = "running"
          /\ \A j \in Files : (j < i => e[j] # "queued") /\ (j # i => entry'[u][j] = e[j])
          /\ drain'[u] = "launching"
          /\ (u \in slots' <=> u \in slots) /\ (u \in dirs' <=> u \in dirs)
        BY <1>1, <2>1, <2>3, <2>4
    <2>6. NextMove(u, e)
        BY <2>5 DEF NextMove
    <2> QED
        BY <2>2, <2>3, <2>6
<1>2. CASE /\ \A i \in Files : e[i] # "queued"
           /\ entry' = [entry EXCEPT ![u] = e]
           /\ drain' = [drain EXCEPT ![u] = "closing"]
           /\ slots' = slots \ {u} /\ dirs' = dirs \ {u}
    BY <1>0, <1>2 DEF NextMove, TypeOK
<1> QED
    BY <1>1, <1>2 DEF NextEntry

LEMMA DrainEffect ==
    ASSUME TypeOK, NEW u \in Exports, DrainStep(u)
    PROVE  DrainFrame(u) /\ DrainMove(u)
<1>1. /\ \A v \in Exports, i \in Files : <<v, i>> \in Runs
      /\ u \notin Runs /\ u \notin Ops
      /\ entry[u] \in [Files -> Statuses]
    BY Names DEF TypeOK, Statuses
<1>2. CASE DrainBegins(u) \/ DrainResumes(u)
    BY <1>1, <1>2, NextEntryEffect DEF DrainBegins, DrainResumes, DrainFrame, DrainMove
<1>3. ASSUME NEW i \in Files, LaunchFileFails(u, i) PROVE DrainFrame(u) /\ DrainMove(u)
    <2>1. [entry[u] EXCEPT ![i] = "error"] \in [Files -> Statuses]
        BY <1>1 DEF Statuses, Settled
    <2>2. row' \in {row, [row EXCEPT ![<<u, i>>] = "running"]}
        BY <1>3 DEF LaunchFileFails
    <2>3. /\ row'[<<u, i>>] \in {row[<<u, i>>], "running"}
          /\ \A r \in Runs : r # <<u, i>> => row'[r] = row[r]
        BY <1>1, <2>2 DEF TypeOK
    <2>4. /\ drain[u] = "launching" /\ u \notin doomed /\ entry[u][i] = "running"
          /\ NextEntry(u, [entry[u] EXCEPT ![i] = "error"])
          /\ UNCHANGED <<process, task, verdict, aged, upload, queues, doomed, told, returned>>
        BY <1>3 DEF LaunchFileFails
    <2>5. \A j \in Files : j # i => row'[<<u, j>>] = row[<<u, j>>]
        BY <1>1, <2>3
    <2> QED
        BY <1>1, <2>1, <2>3, <2>4, <2>5, NextEntryEffect DEF DrainFrame, DrainMove
<1>4. ASSUME NEW i \in Files, LaunchFile(u, i) PROVE DrainFrame(u) /\ DrainMove(u)
    BY <1>1, <1>4 DEF LaunchFile, DrainFrame, DrainMove, TypeOK
<1>5. CASE DrainAnnounces(u)
    <2>1. drain'[u] = "grace" /\ \A v \in Exports : v # u => drain'[v] = drain[v]
        BY <1>5 DEF DrainAnnounces, TypeOK
    <2>2. DrainFrame(u)
        BY <1>1, <1>5, <2>1 DEF DrainAnnounces, DrainFrame
    <2>3. DrainMove(u)
        BY <1>5, <2>1 DEF DrainAnnounces, DrainMove
    <2> QED
        BY <2>2, <2>3
<1>7. CASE DrainEnds(u)
    BY <1>1, <1>7 DEF DrainEnds, DrainFrame, DrainMove, TypeOK
<1>8. CASE CancelDrainUnhandled(u)
    <2>1. drain'[u] = "gone" /\ \A v \in Exports : v # u => drain'[v] = drain[v]
        BY <1>8 DEF CancelDrainUnhandled, TypeOK
    <2>2. DrainFrame(u)
        BY <1>1, <1>8, <2>1 DEF CancelDrainUnhandled, DrainFrame
    <2>3. DrainMove(u)
        BY <1>8, <2>1 DEF CancelDrainUnhandled, DrainMove
    <2> QED
        BY <2>2, <2>3
<1>6. CASE CancelDrain(u)
    <2>1. CASE row' = row
        BY <1>1, <1>6, <2>1 DEF CancelDrain, DrainFrame, DrainMove, TypeOK
    <2>2. ASSUME NEW i \in Files, drain[u] = "launching", entry[u][i] = "running",
                 row' = [row EXCEPT ![<<u, i>>] = "running"]
          PROVE  DrainFrame(u) /\ DrainMove(u)
        <3>1. row'[<<u, i>>] = "running" /\ \A r \in Runs : r # <<u, i>> => row'[r] = row[r]
            BY <1>1, <2>2 DEF TypeOK
        <3>2. MayLand(u)
            BY <1>1, <2>2, <3>1 DEF MayLand
        <3> QED
            BY <1>1, <1>6, <2>2, <3>1, <3>2 DEF CancelDrain, DrainFrame, DrainMove, TypeOK
    <2> QED
        BY <1>6, <2>1, <2>2 DEF CancelDrain
<1> QED
    BY <1>2, <1>3, <1>4, <1>5, <1>6, <1>7, <1>8 DEF DrainStep

-----------------------------------------------------------------------------
(* What the other steps do, value by value.                                 *)

KickoffMove(o) ==
    /\ UNCHANGED <<process, slots, verdict, aged, upload, queues, entry, drain,
                   dirs, doomed, told, returned>>
    /\ \A q \in Runs : q # o => task'[q] = task[q] /\ row'[q] = row[q]
    /\ \/ process = "up" /\ task[o] = "idle" /\ task'[o] = "admitted" /\ row'[o] = row[o]
       \/ task[o] = "admitted" /\ task'[o] = "spawned" /\ row'[o] = "running"
       \/ task[o] = "admitted" /\ task'[o] = "gone" /\ row'[o] \in {row[o], "running"}

LEMMA KickoffEffect ==
    ASSUME TypeOK, NEW o \in Ops, Kickoff(o) PROVE KickoffMove(o)
<1>1. o \in Runs
    BY Names
<1>2. CASE Admit(o)
    BY <1>1, <1>2 DEF Admit, KickoffMove, TypeOK
<1>3. CASE LaunchOp(o)
    BY <1>1, <1>3 DEF LaunchOp, KickoffMove, TypeOK
<1>4. CASE LaunchOpFails(o)
    <2>1. row' \in {row, [row EXCEPT ![o] = "running"]}
        BY <1>4 DEF LaunchOpFails
    <2>2. row'[o] \in {row[o], "running"} /\ \A q \in Runs : q # o => row'[q] = row[q]
        BY <1>1, <2>1 DEF TypeOK
    <2>3. task[o] = "admitted" /\ task'[o] = "gone" /\ \A q \in Runs : q # o => task'[q] = task[q]
        BY <1>1, <1>4 DEF LaunchOpFails, TypeOK
    <2> QED
        BY <1>4, <2>2, <2>3 DEF LaunchOpFails, KickoffMove
<1> QED
    BY <1>2, <1>3, <1>4 DEF Kickoff

RequestMove(u) ==
    /\ UNCHANGED <<process, task, verdict, row, aged, doomed, told, returned>>
    /\ \A v \in Exports : v # u =>
          /\ upload'[v] = upload[v] /\ drain'[v] = drain[v] /\ entry'[v] = entry[v]
          /\ (v \in dirs' <=> v \in dirs) /\ (v \in slots' <=> v \in slots)
    /\ \A o \in Ops : o \in slots' <=> o \in slots
    /\ \/ /\ process = "up" /\ upload[u] = "idle" /\ upload'[u] = "streaming" /\ u \in dirs'
          /\ UNCHANGED <<queues, entry, drain, slots>>
       \/ /\ process = "up" /\ upload[u] = "streaming" /\ upload'[u] = "started" /\ ~QueueActive(u)
          /\ drain'[u] = "spawned" /\ u \in slots'
          /\ queues' = {v \in queues : Owner[v] # Owner[u]} \cup {u}
          /\ UNCHANGED <<entry, dirs>>
       \/ /\ upload[u] = "streaming" /\ upload'[u] = "refused" /\ u \notin dirs'
          /\ UNCHANGED <<queues, entry, drain, slots>>
       \/ /\ process = "up" /\ UNCHANGED <<upload, queues, drain, slots, dirs>>
          /\ \A i \in Files : entry'[u][i] = IF entry[u][i] = "queued" THEN "cancelled" ELSE entry[u][i]

LEMMA RequestEffect ==
    ASSUME TypeOK, NEW u \in Exports, Request(u) PROVE RequestMove(u)
<1>1. u \notin Ops
    BY Names
<1>2. CASE BeginUpload(u)
    BY <1>1, <1>2 DEF BeginUpload, RequestMove, TypeOK
<1>3. CASE StartQueue(u)
    BY <1>1, <1>3 DEF StartQueue, RequestMove, TypeOK
<1>4. CASE UploadRefused(u)
    BY <1>1, <1>4 DEF UploadRefused, RequestMove, TypeOK
<1>5. CASE CancelPending(u)
    BY <1>1, <1>5 DEF CancelPending, RequestMove, TypeOK
<1> QED
    BY <1>2, <1>3, <1>4, <1>5 DEF Request

StopMove ==
    /\ process = "up" /\ process' = "stopping"
    /\ UNCHANGED <<slots, verdict, aged, queues, entry, drain, told, returned>>
    /\ \A r \in Runs :
          /\ task'[r] = IF task[r] = "admitted" THEN "gone" ELSE task[r]
          /\ row'[r] = row[r] \/ (r \in Ops /\ task[r] = "admitted" /\ row'[r] = "running")
          /\ task[r] \in Live => r \in doomed'
    /\ \A u \in Exports :
          /\ upload'[u] = IF upload[u] = "streaming" THEN "refused" ELSE upload[u]
          /\ drain[u] \in Draining => u \in doomed'

LEMMA StopEffect == TypeOK /\ Stop => StopMove
<1> SUFFICES ASSUME TypeOK, Stop PROVE StopMove
    OBVIOUS
<1>1. PICK L \in SUBSET {o \in Ops : task[o] = "admitted"} :
          row' = [r \in Runs |-> IF r \in L THEN "running" ELSE row[r]]
    BY DEF Stop
<1>2. \A r \in Runs : row'[r] = row[r] \/ (r \in Ops /\ task[r] = "admitted" /\ row'[r] = "running")
    BY <1>1
<1>3. \A r \in Runs : task'[r] = IF task[r] = "admitted" THEN "gone" ELSE task[r]
    BY DEF Stop
<1>4. \A u \in Exports : upload'[u] = IF upload[u] = "streaming" THEN "refused" ELSE upload[u]
    BY DEF Stop
<1>5. (\A r \in Runs : task[r] \in Live => r \in doomed')
      /\ \A u \in Exports : drain[u] \in Draining => u \in doomed'
    BY DEF Stop
<1> QED
    BY <1>2, <1>3, <1>4, <1>5 DEF Stop, StopMove

DiesMove ==
    /\ process \in {"up", "stopping"} /\ process' = "down"
    /\ slots' = {} /\ queues' = {} /\ doomed' = {}
    /\ UNCHANGED <<verdict, aged, entry, dirs, told, returned>>
    /\ \A r \in Runs :
          /\ task'[r] = IF task[r] = "idle" THEN "idle" ELSE "gone"
          /\ row'[r] = row[r] \/ (r \in InFlight /\ row'[r] = Landed(r))
    /\ \A u \in Exports :
          /\ upload'[u] = IF upload[u] = "streaming" THEN "refused" ELSE upload[u]
          /\ drain'[u] = IF drain[u] = "none" THEN "none" ELSE "gone"

LEMMA DiesEffect == TypeOK /\ (Exit \/ Crash) => DiesMove
<1> SUFFICES ASSUME TypeOK, Exit \/ Crash PROVE DiesMove
    OBVIOUS
<1>1. Dies /\ process \in {"up", "stopping"}
    BY DEF Exit, Crash
<1>2. PICK L \in SUBSET InFlight : row' = [r \in Runs |-> IF r \in L THEN Landed(r) ELSE row[r]]
    BY <1>1 DEF Dies
<1>3. \A r \in Runs : row'[r] = row[r] \/ (r \in InFlight /\ row'[r] = Landed(r))
    BY <1>2
<1>4. \A r \in Runs : task'[r] = IF task[r] = "idle" THEN "idle" ELSE "gone"
    BY <1>1 DEF Dies
<1>5. \A u \in Exports :
          /\ upload'[u] = IF upload[u] = "streaming" THEN "refused" ELSE upload[u]
          /\ drain'[u] = IF drain[u] = "none" THEN "none" ELSE "gone"
    BY <1>1 DEF Dies
<1> QED
    BY <1>1, <1>3, <1>4, <1>5 DEF Dies, DiesMove

\* Every step is one of these moves.
Step ==
    \/ \E o \in Ops : KickoffMove(o)
    \/ \E r \in Runs : RunFrame(r) /\ RunMove(r)
    \/ \E u \in Exports : DrainFrame(u) /\ DrainMove(u)
    \/ \E u \in Exports : RequestMove(u)
    \/ StopMove \/ DiesMove \/ Start \/ Reap
    \/ UNCHANGED vars

LEMMA Steps == TypeOK /\ [Next]_vars => Step
BY KickoffEffect, RunEffect, DrainEffect, RequestEffect, StopEffect, DiesEffect
DEF Next, ProcessStep, Step

-----------------------------------------------------------------------------
(* Each conjunct of the invariant is preserved.                             *)

LEMMA ProcessStable == BackInv /\ Step => ProcessInv'
<1> SUFFICES ASSUME TypeOK, ProcessInv, Step PROVE ProcessInv'
    BY DEF BackInv
<1> USE DEF Live, InSlot, Draining
<1>0. /\ \A u \in Exports, i \in Files : <<u, i>> \in Runs
      /\ \A o \in Ops : o \in Runs
    BY Names
<1>1. ASSUME NEW o \in Ops, KickoffMove(o) PROVE ProcessInv'
    BY <1>0, <1>1 DEF KickoffMove, ProcessInv
<1>2. ASSUME NEW r \in Runs, RunFrame(r), RunMove(r) PROVE ProcessInv'
    <2>1. process # "down" /\ process' = process
        BY <1>2 DEF RunFrame, RunMove, ProcessInv
    <2>2. process' = "up" => doomed' = {}
        BY <1>2, <2>1 DEF RunFrame, ProcessInv
    <2>3. ASSUME process' = "stopping", NEW q \in Runs
          PROVE  task'[q] # "admitted" /\ (task'[q] \in {"spawned", "starting", "body"} => q \in doomed')
        <3>1. CASE q = r
            BY <1>2, <2>1, <2>3, <3>1 DEF RunFrame, RunMove, ProcessInv
        <3>2. CASE q # r
            BY <1>2, <2>1, <2>3, <3>2 DEF RunFrame, ProcessInv
        <3> QED
            BY <3>1, <3>2
    <2>4. ASSUME process' = "stopping", NEW u \in Exports
          PROVE  upload'[u] # "streaming" /\ (drain'[u] \in Draining => u \in doomed')
        BY <1>2, <2>1, <2>4 DEF RunFrame, ProcessInv
    <2> QED
        BY <2>1, <2>2, <2>3, <2>4 DEF ProcessInv
<1>3. ASSUME NEW u \in Exports, DrainFrame(u), DrainMove(u) PROVE ProcessInv'
    <2>1. process # "down" /\ process' = process
        BY <1>3 DEF DrainFrame, DrainMove, ProcessInv
    <2>2. process' = "up" => doomed' = {}
        BY <1>3, <2>1 DEF DrainFrame, ProcessInv
    <2>3. process = "stopping" => drain'[u] \notin Draining /\ UNCHANGED task
        BY <1>3 DEF DrainMove, ProcessInv
    <2>4. ASSUME process' = "stopping", NEW q \in Runs
          PROVE  task'[q] # "admitted" /\ (task'[q] \in {"spawned", "starting", "body"} => q \in doomed')
        BY <1>3, <2>1, <2>3, <2>4 DEF DrainFrame, ProcessInv
    <2>5. ASSUME process' = "stopping", NEW v \in Exports
          PROVE  upload'[v] # "streaming" /\ (drain'[v] \in Draining => v \in doomed')
        BY <1>3, <2>1, <2>3, <2>5 DEF DrainFrame, ProcessInv
    <2> QED
        BY <2>1, <2>2, <2>4, <2>5 DEF ProcessInv
<1>4. ASSUME NEW u \in Exports, RequestMove(u) PROVE ProcessInv'
    <2>1. CASE process = "up"
        BY <1>4, <2>1 DEF RequestMove, ProcessInv
    <2>2. CASE process # "up"
        BY <1>4, <2>2 DEF RequestMove, ProcessInv
    <2> QED
        BY <2>1, <2>2
<1>5. CASE StopMove
    BY <1>5 DEF StopMove, ProcessInv
<1>6. CASE DiesMove
    BY <1>6 DEF DiesMove, ProcessInv, TypeOK
<1>7. CASE Start \/ Reap
    BY <1>7 DEF Start, Reap, ProcessInv
<1>8. CASE UNCHANGED vars
    BY <1>8 DEF vars, ProcessInv
<1> QED
    BY <1>1, <1>2, <1>3, <1>4, <1>5, <1>6, <1>7, <1>8 DEF Step

LEMMA RowStable == BackInv /\ Step => RowInv'
<1> SUFFICES ASSUME TypeOK, RowInv, AgedInv, FileInv, Step PROVE RowInv'
    BY DEF BackInv
<1>0. /\ \A u \in Exports, i \in Files : <<u, i>> \in Runs /\ <<u, i>> \notin Ops
      /\ \A o \in Ops : o \in Runs
    BY Names
<1>1. ASSUME NEW o \in Ops, KickoffMove(o) PROVE RowInv'
    BY <1>0, <1>1 DEF KickoffMove, RowInv
<1>2. ASSUME NEW r \in Runs, RunFrame(r), RunMove(r) PROVE RowInv'
    BY <1>2 DEF RunFrame, RunMove, RowInv
<1>3. ASSUME NEW u \in Exports, DrainFrame(u), DrainMove(u) PROVE RowInv'
    <2>1. ASSUME NEW i \in Files, entry[u][i] = "running", drain[u] = "launching"
          PROVE  task[<<u, i>>] = "idle" /\ verdict[<<u, i>>] = "none"
        BY <1>0, <2>1 DEF FileInv, FileOf, RowInv
    <2>2. ASSUME NEW q \in Runs
          PROVE  \/ task'[q] = task[q] /\ row'[q] = row[q]
                 \/ /\ q \notin Ops /\ verdict[q] = "none" /\ row'[q] \in {row[q], "running"}
                    /\ task[q] = "idle" /\ (task'[q] = "idle" \/ (task'[q] = "spawned" /\ row'[q] = "running"))
        <3>1. CASE \A i \in Files : q # <<u, i>>
            BY <1>3, <3>1 DEF DrainFrame
        <3>2. ASSUME NEW i \in Files, q = <<u, i>>
              PROVE  \/ task'[q] = task[q] /\ row'[q] = row[q]
                     \/ /\ q \notin Ops /\ verdict[q] = "none" /\ row'[q] \in {row[q], "running"}
                        /\ task[q] = "idle" /\ (task'[q] = "idle" \/ (task'[q] = "spawned" /\ row'[q] = "running"))
            BY <1>0, <1>3, <2>1, <3>2 DEF DrainMove, MayLand
        <3> QED
            BY <3>1, <3>2
    <2> QED
        BY <1>3, <2>2 DEF DrainFrame, RowInv
<1>4. ASSUME NEW u \in Exports, RequestMove(u) PROVE RowInv'
    BY <1>4 DEF RequestMove, RowInv
<1>5. CASE StopMove
    BY <1>0, <1>5 DEF StopMove, RowInv
<1>6. CASE DiesMove
    BY <1>0, <1>6 DEF DiesMove, RowInv, InFlight
<1>7. CASE Start
    BY <1>7 DEF Start, RowInv
<1>8. CASE Reap
    BY <1>8 DEF Reap, RowInv, AgedInv
<1>9. CASE UNCHANGED vars
    BY <1>9 DEF vars, RowInv
<1> QED
    BY <1>1, <1>2, <1>3, <1>4, <1>5, <1>6, <1>7, <1>8, <1>9 DEF Step

LEMMA AgedStable == BackInv /\ Step => AgedInv'
<1> SUFFICES ASSUME TypeOK, ProcessInv, RowInv, AgedInv, FileInv, Step PROVE AgedInv'
    BY DEF BackInv
<1>0. /\ \A f \in ExportFiles : f[1] \in Exports /\ f[2] \in Files /\ f = <<f[1], f[2]>> /\ f \notin Ops
      /\ \A u \in Exports, i \in Files : <<u, i>> \in Runs
      /\ \A o \in Ops : o \in Runs
    BY Names
<1>1. ASSUME NEW o \in Ops, KickoffMove(o) PROVE AgedInv'
    BY <1>0, <1>1 DEF KickoffMove, RowInv, AgedInv, TypeOK
<1>2. ASSUME NEW r \in Runs, RunFrame(r), RunMove(r) PROVE AgedInv'
    <2>1. r \notin aged
        BY <1>2 DEF RunMove, AgedInv
    <2> QED
        BY <1>2, <2>1 DEF RunFrame, AgedInv, TypeOK
<1>3. ASSUME NEW u \in Exports, DrainFrame(u), DrainMove(u) PROVE AgedInv'
    <2>1. ASSUME NEW q \in aged
          PROVE  /\ task'[q] = task[q] /\ row'[q] = row[q]
                 /\ q \in ExportFiles => drain'[q[1]] = drain[q[1]]
        <3>1. drain[u] # "gone"
            BY <1>3 DEF DrainMove
        <3>2. \A i \in Files : q # <<u, i>>
            BY <1>0, <3>1 DEF AgedInv, ExportFiles
        <3>3. q \in ExportFiles => q[1] # u
            BY <1>0, <3>1 DEF AgedInv
        <3> QED
            BY <1>0, <1>3, <3>2, <3>3 DEF DrainFrame, TypeOK
    <2>2. aged' = aged
        BY <1>3 DEF DrainFrame
    <2> QED
        BY <2>1, <2>2 DEF AgedInv
<1>4. ASSUME NEW u \in Exports, RequestMove(u) PROVE AgedInv'
    <2>1. drain'[u] = drain[u] \/ drain[u] # "gone"
        BY <1>4 DEF RequestMove, FileInv, FileOf
    <2>2. \A f \in ExportFiles : drain[f[1]] = "gone" => drain'[f[1]] = "gone"
        BY <1>0, <1>4, <2>1 DEF RequestMove
    <2> QED
        BY <1>4, <2>2 DEF RequestMove, AgedInv
<1>5. CASE StopMove
    BY <1>5 DEF StopMove, AgedInv, TypeOK
<1>6. CASE DiesMove
    <2>1. ASSUME NEW q \in aged PROVE q \notin InFlight
        BY <1>0 DEF AgedInv, InFlight, ExportFiles
    <2> QED
        BY <1>0, <1>6, <2>1 DEF DiesMove, AgedInv, TypeOK
<1>7. CASE Start
    <2>1. ASSUME NEW q \in Runs, row[q] = "running"
          PROVE  task[q] \in {"idle", "gone"} /\ (q \in ExportFiles => drain[q[1]] = "gone")
        BY <1>0, <1>7, <2>1 DEF Start, ProcessInv, FileInv, FileOf
    <2>2. aged' \subseteq {q \in Runs : row[q] = "running"} /\ UNCHANGED <<row, task, drain>>
        BY <1>7 DEF Start
    <2> QED
        BY <2>1, <2>2 DEF AgedInv
<1>8. CASE Reap
    BY <1>8 DEF Reap, AgedInv
<1>9. CASE UNCHANGED vars
    BY <1>9 DEF vars, AgedInv
<1> QED
    BY <1>1, <1>2, <1>3, <1>4, <1>5, <1>6, <1>7, <1>8, <1>9 DEF Step

\* What FileOf(u) reads, unchanged.
LEMMA FileKept ==
    ASSUME NEW u \in Exports, FileOf(u),
           drain'[u] = drain[u], drain[u] # "none" => upload'[u] = "started",
           \A i \in Files : /\ entry'[u][i] = entry[u][i] /\ task'[<<u, i>>] = task[<<u, i>>]
                            /\ row[<<u, i>>] = "absent" => row'[<<u, i>>] = "absent"
                            /\ verdict'[<<u, i>>] = verdict[<<u, i>>]
    PROVE  FileOf(u)'
<1>1. /\ drain'[u] # "none" => upload'[u] = "started"
      /\ drain'[u] = "launching" => \E i \in Files : entry'[u][i] = "running"
    BY DEF FileOf
<1>2. ASSUME NEW i \in Files, NEW j \in Files, entry'[u][i] = "running"
      PROVE  (entry'[u][j] = "running" => i = j) /\ (j < i => entry'[u][j] # "queued")
    <2>1. entry[u][i] = "running" /\ entry'[u][j] = entry[u][j]
        BY <1>2
    <2> QED
        BY <2>1 DEF FileOf
<1>3. ASSUME NEW i \in Files
      PROVE  /\ drain'[u] \in {"none", "spawned"} => entry'[u][i] \in {"queued", "cancelled"}
             /\ entry'[u][i] \in {"queued", "cancelled"} \/ (drain'[u] = "launching" /\ entry'[u][i] = "running") =>
                    task'[<<u, i>>] = "idle" /\ row'[<<u, i>>] = "absent"
             /\ task'[<<u, i>>] # "admitted"
             /\ task'[<<u, i>>] \in AtWork => entry'[u][i] = "running"
             /\ entry'[u][i] = "complete" => verdict'[<<u, i>>] # "none"
    BY DEF FileOf
<1> QED
    BY <1>1, <1>2, <1>3 DEF FileOf, AtWork, InSlot

\* A drain that takes its next entry, or closes, when none is running.
LEMMA FileNext ==
    ASSUME NEW u \in Exports, NEW e \in [Files -> Statuses], NextMove(u, e),
           upload'[u] = "started",
           \A i \in Files : /\ e[i] # "running"
                            /\ e[i] \in {"queued", "cancelled"} => task'[<<u, i>>] = "idle" /\ row'[<<u, i>>] = "absent"
                            /\ task'[<<u, i>>] # "admitted" /\ task'[<<u, i>>] \notin AtWork
                            /\ e[i] = "complete" => verdict'[<<u, i>>] # "none"
    PROVE  FileOf(u)'
<1>1. ASSUME NEW i \in Files, e[i] = "queued", entry'[u][i] = "running", drain'[u] = "launching",
             \A j \in Files : (j < i => e[j] # "queued") /\ (j # i => entry'[u][j] = e[j])
      PROVE  FileOf(u)'
    <2>1. \A j \in Files : j # i => entry'[u][j] = e[j] /\ e[j] # "running"
        BY <1>1
    <2>2. \A k, j \in Files : entry'[u][k] = "running" =>
              (entry'[u][j] = "running" => k = j) /\ (j < k => entry'[u][j] # "queued")
        BY <1>1, <2>1
    <2>3. \A j \in Files : /\ entry'[u][j] \in {"queued", "cancelled"} \/ (drain'[u] = "launching" /\ entry'[u][j] = "running") =>
                                 task'[<<u, j>>] = "idle" /\ row'[<<u, j>>] = "absent"
                           /\ entry'[u][j] = "complete" => verdict'[<<u, j>>] # "none"
        BY <1>1, <2>1
    <2> QED
        BY <1>1, <2>2, <2>3 DEF FileOf, AtWork, InSlot
<1>2. ASSUME \A i \in Files : e[i] # "queued" /\ entry'[u][i] = e[i], drain'[u] = "closing"
      PROVE  FileOf(u)'
    BY <1>2 DEF FileOf, AtWork, InSlot
<1> QED
    BY <1>1, <1>2 DEF NextMove

LEMMA FileStable == BackInv /\ Step => FileInv'
<1> SUFFICES ASSUME TypeOK, ProcessInv, RowInv, AgedInv, FileInv, Step, NEW u \in Exports
             PROVE  FileOf(u)'
    BY DEF BackInv, FileInv
<1> USE DEF AtWork, InSlot
<1>0. /\ FileOf(u)
      /\ \A i \in Files : <<u, i>> \in Runs /\ <<u, i>> \notin Ops
      /\ \A v \in Exports, i, j \in Files : <<v, i>> = <<u, j>> => v = u /\ i = j
    BY Names DEF FileInv
<1>1. ASSUME NEW o \in Ops, KickoffMove(o) PROVE FileOf(u)'
    BY <1>0, <1>1, FileKept DEF KickoffMove, FileOf
<1>2. ASSUME NEW r \in Runs, RunFrame(r), RunMove(r) PROVE FileOf(u)'
    <2>1. CASE \A i \in Files : r # <<u, i>>
        BY <1>0, <1>2, <2>1, FileKept DEF RunFrame, FileOf
    <2>2. ASSUME NEW k \in Files, r = <<u, k>> PROVE FileOf(u)'
        <3>1. /\ drain'[u] = drain[u] /\ upload'[u] = upload[u]
              /\ \A i \in Files : i # k =>
                    /\ entry'[u][i] = entry[u][i] /\ task'[<<u, i>>] = task[<<u, i>>]
                    /\ row'[<<u, i>>] = row[<<u, i>>] /\ verdict'[<<u, i>>] = verdict[<<u, i>>]
            BY <1>0, <1>2, <2>2 DEF RunFrame
        <3>2. task[<<u, k>>] # "idle" /\ task'[<<u, k>>] \notin {"idle", "admitted"}
            BY <1>0, <1>2, <2>2 DEF RunMove, FileOf
        <3>3. /\ entry[u][k] \notin {"queued", "cancelled"}
              /\ drain[u] = "launching" => entry[u][k] # "running"
              /\ drain[u] \notin {"none", "spawned"}
            BY <1>0, <3>2 DEF FileOf
        <3>4. \/ entry'[u][k] = entry[u][k]
              \/ entry[u][k] = "running" /\ entry'[u][k] = verdict[<<u, k>>] /\ verdict[<<u, k>>] \in {"complete", "error"}
            <4>1. CASE task[r] = "announced"
                <5>1. entry[u][k] = "running"
                    BY <1>0, <2>2, <4>1 DEF FileOf
                <5>2. verdict[r] \in {"complete", "error"}
                    BY <1>2, <4>1 DEF RowInv, TypeOK
                <5>3. entry'[u][k] = verdict[r] \/ UNCHANGED entry
                    BY <1>2, <2>2 DEF RunMove
                <5> QED
                    BY <2>2, <5>1, <5>2, <5>3
            <4>2. CASE task[r] # "announced"
                BY <1>2, <4>2 DEF RunMove
            <4> QED
                BY <4>1, <4>2
        <3>5. task'[<<u, k>>] \in AtWork => entry'[u][k] = "running"
            BY <1>0, <1>2, <2>2 DEF RunMove, FileOf
        <3>6. verdict[<<u, k>>] # "none" => verdict'[<<u, k>>] # "none"
            BY <1>0, <1>2, <2>2 DEF RunMove
        <3> QED
            <4>1. /\ drain'[u] # "none" => upload'[u] = "started"
                  /\ drain'[u] \notin {"none", "spawned"}
                BY <1>0, <3>1, <3>3 DEF FileOf
            <4>2. drain'[u] = "launching" => \E i \in Files : entry'[u][i] = "running"
                <5>1. ASSUME drain[u] = "launching"
                      PROVE  \E i \in Files : i # k /\ entry[u][i] = "running"
                    BY <1>0, <3>3, <5>1 DEF FileOf
                <5> QED
                    BY <3>1, <5>1
            <4>5. \A i \in Files : /\ entry'[u][i] = "running" => entry[u][i] = "running"
                                   /\ entry'[u][i] = "queued" => entry[u][i] = "queued"
                BY <3>1, <3>4
            <4>3. ASSUME NEW i \in Files, NEW j \in Files, entry'[u][i] = "running"
                  PROVE  (entry'[u][j] = "running" => i = j) /\ (j < i => entry'[u][j] # "queued")
                BY <1>0, <4>3, <4>5 DEF FileOf
            <4>4. ASSUME NEW i \in Files
                  PROVE  /\ entry'[u][i] \in {"queued", "cancelled"} \/ (drain'[u] = "launching" /\ entry'[u][i] = "running") =>
                                task'[<<u, i>>] = "idle" /\ row'[<<u, i>>] = "absent"
                         /\ task'[<<u, i>>] # "admitted"
                         /\ task'[<<u, i>>] \in AtWork => entry'[u][i] = "running"
                         /\ entry'[u][i] = "complete" => verdict'[<<u, i>>] # "none"
                <5>1. CASE i = k
                    BY <1>0, <3>1, <3>2, <3>3, <3>4, <3>5, <3>6, <5>1 DEF FileOf
                <5>2. CASE i # k
                    BY <1>0, <3>1, <5>2 DEF FileOf
                <5> QED
                    BY <5>1, <5>2
            <4> QED
                BY <4>1, <4>2, <4>3, <4>4 DEF FileOf
    <2> QED
        BY <2>1, <2>2
<1>3. ASSUME NEW v \in Exports, DrainFrame(v), DrainMove(v) PROVE FileOf(u)'
    <2>1. CASE v # u
        BY <1>0, <1>3, <2>1, FileKept DEF DrainFrame, FileOf
    <2>2. CASE v = u
        <3>0. /\ UNCHANGED <<verdict, upload>> /\ drain[u] # "none"
              /\ upload[u] = "started" /\ entry[u] \in [Files -> Statuses]
            BY <1>0, <1>3, <2>2 DEF DrainFrame, DrainMove, FileOf, TypeOK, Statuses
        <3>1. ASSUME drain[u] = "spawned" \/ (drain[u] = "waiting" /\ \A i \in Files : entry[u][i] # "running"),
                     NextMove(u, entry[u]), UNCHANGED <<task, row>>
              PROVE  FileOf(u)'
            <4>1. \A i \in Files : entry[u][i] # "running"
                BY <1>0, <3>1 DEF FileOf
            <4> QED
                BY <1>0, <3>0, <3>1, <4>1, FileNext DEF FileOf
        <3>2. ASSUME NEW i \in Files, drain[u] = "launching", entry[u][i] = "running",
                     \A j \in Files : j # i => row'[<<u, j>>] = row[<<u, j>>],
                     NextMove(u, [entry[u] EXCEPT ![i] = "error"]), UNCHANGED task
              PROVE  FileOf(u)'
            <4> DEFINE e == [entry[u] EXCEPT ![i] = "error"]
            <4>1. e \in [Files -> Statuses] /\ e[i] = "error" /\ \A j \in Files : j # i => e[j] = entry[u][j]
                BY <3>0, <3>2 DEF Statuses, Settled
            <4>2. NextMove(u, e)
                BY <3>2
            <4>3. task[<<u, i>>] = "idle"
                BY <1>0, <3>2 DEF FileOf
            <4>4. \A j \in Files : j # i => entry[u][j] # "running"
                BY <1>0, <3>2 DEF FileOf
            <4> HIDE DEF e
            <4>5. \A j \in Files :
                      /\ e[j] # "running"
                      /\ e[j] \in {"queued", "cancelled"} => task'[<<u, j>>] = "idle" /\ row'[<<u, j>>] = "absent"
                      /\ task'[<<u, j>>] # "admitted" /\ task'[<<u, j>>] \notin AtWork
                      /\ e[j] = "complete" => verdict'[<<u, j>>] # "none"
                BY <1>0, <3>0, <3>2, <4>1, <4>3, <4>4 DEF FileOf
            <4> QED
                BY <3>0, <4>1, <4>2, <4>5, FileNext
        <3>3. ASSUME NEW i \in Files, drain'[u] = "waiting", entry[u][i] = "running", UNCHANGED entry,
                     task'[<<u, i>>] = "spawned",
                     \A j \in Files : j # i => row'[<<u, j>>] = row[<<u, j>>] /\ task'[<<u, j>>] = task[<<u, j>>]
              PROVE  FileOf(u)'
            <4>1. \A k, j \in Files : entry'[u][k] = "running" =>
                      (entry'[u][j] = "running" => k = j) /\ (j < k => entry'[u][j] # "queued")
                BY <1>0, <3>3 DEF FileOf
            <4>2. ASSUME NEW j \in Files
                  PROVE  /\ entry'[u][j] \in {"queued", "cancelled"} => task'[<<u, j>>] = "idle" /\ row'[<<u, j>>] = "absent"
                         /\ task'[<<u, j>>] # "admitted"
                         /\ task'[<<u, j>>] \in AtWork => entry'[u][j] = "running"
                         /\ entry'[u][j] = "complete" => verdict'[<<u, j>>] # "none"
                <5>1. CASE j = i
                    BY <3>3, <5>1
                <5>2. CASE j # i
                    BY <1>0, <3>0, <3>3, <5>2 DEF FileOf
                <5> QED
                    BY <5>1, <5>2
            <4> QED
                BY <3>0, <3>3, <4>1, <4>2 DEF FileOf
        <3>4. ASSUME drain'[u] \in {"closing", "grace", "gone"}, UNCHANGED <<entry, task>>,
                     row' = row \/ (drain[u] = "launching" /\ MayLand(u))
              PROVE  FileOf(u)'
            <4>1. \A k, j \in Files : entry'[u][k] = "running" =>
                      (entry'[u][j] = "running" => k = j) /\ (j < k => entry'[u][j] # "queued")
                BY <1>0, <3>4 DEF FileOf
            <4>2. ASSUME NEW j \in Files, entry[u][j] \in {"queued", "cancelled"} PROVE row'[<<u, j>>] = "absent"
                <5>1. row[<<u, j>>] = "absent"
                    BY <1>0, <4>2 DEF FileOf
                <5> QED
                    BY <3>4, <4>2, <5>1 DEF MayLand
            <4> QED
                BY <1>0, <3>0, <3>4, <4>1, <4>2 DEF FileOf
        <3> QED
            BY <1>3, <2>2, <3>1, <3>2, <3>3, <3>4 DEF DrainMove
    <2> QED
        BY <2>1, <2>2
<1>4. ASSUME NEW v \in Exports, RequestMove(v) PROVE FileOf(u)'
    <2>1. CASE v # u
        BY <1>0, <1>4, <2>1, FileKept DEF RequestMove, FileOf
    <2>2. CASE v = u
        BY <1>0, <1>4, <2>2 DEF RequestMove, FileOf
    <2> QED
        BY <2>1, <2>2
<1>5. CASE StopMove
    BY <1>0, <1>5, FileKept DEF StopMove, FileOf
<1>6. CASE DiesMove
    <2>1. ASSUME NEW i \in Files PROVE task'[<<u, i>>] \in {"idle", "gone"} /\ (task[<<u, i>>] = "idle" => task'[<<u, i>>] = "idle")
        BY <1>0, <1>6 DEF DiesMove
    <2>2. ASSUME NEW i \in Files, entry[u][i] \in {"queued", "cancelled"} PROVE row'[<<u, i>>] = "absent"
        BY <1>0, <1>6, <2>2 DEF DiesMove, InFlight, FileOf
    <2> QED
        BY <1>0, <1>6, <2>1, <2>2 DEF DiesMove, FileOf
<1>7. CASE Start
    BY <1>0, <1>7, FileKept DEF Start, FileOf
<1>8. CASE Reap
    BY <1>0, <1>8, FileKept DEF Reap, FileOf, AgedInv
<1>9. CASE UNCHANGED vars
    BY <1>0, <1>9, FileKept DEF vars, FileOf
<1> QED
    BY <1>1, <1>2, <1>3, <1>4, <1>5, <1>6, <1>7, <1>8, <1>9 DEF Step

LEMMA ServingStable == BackInv /\ Step => ServingInv'
<1> SUFFICES ASSUME TypeOK, ProcessInv, RowInv, FileInv, ServingInv, Step, process' = "up", NEW u \in Exports
             PROVE ServingOf(u)'
    BY DEF BackInv, ServingInv
<1> USE DEF AtWork, InSlot, Draining, Settled, ServingOf
<1>0. /\ FileOf(u)
      /\ \A i \in Files : <<u, i>> \in Runs /\ <<u, i>> \notin Ops
      /\ \A v \in Exports, i, j \in Files : <<v, i>> = <<u, j>> => v = u /\ i = j
    BY Names DEF FileInv
<1>a. ASSUME process = "up"
      PROVE  ServingOf(u) /\ doomed = {}
    BY <1>a DEF ServingInv, ProcessInv
<1>1. ASSUME NEW o \in Ops, KickoffMove(o) PROVE ServingOf(u)'
    <2>1. \A i \in Files : task'[<<u, i>>] = task[<<u, i>>]
        BY <1>0, <1>1 DEF KickoffMove
    <2> QED
        BY <1>a, <1>1, <2>1 DEF KickoffMove, Drained, Settled
<1>2. ASSUME NEW r \in Runs, RunFrame(r), RunMove(r) PROVE ServingOf(u)'
    <2>1. UNCHANGED <<process, drain, queues>> /\ told \subseteq told'
        BY <1>2 DEF RunFrame
    <2>2. ASSUME NEW i \in Files
          PROVE  /\ task'[<<u, i>>] \in AtWork => task[<<u, i>>] \in AtWork
                 /\ entry[u][i] \in Settled => entry'[u][i] \in Settled
                 /\ task'[<<u, i>>] \in {"announced", "grace", "gone"} =>
                       task[<<u, i>>] \in {"announced", "grace", "gone"} \/ <<u, i>> \in told'
        <3>1. CASE r # <<u, i>>
            BY <1>0, <1>2, <3>1 DEF RunFrame
        <3>2. CASE r = <<u, i>> /\ task[r] # "announced"
            BY <1>0, <1>a, <1>2, <2>1, <3>2 DEF RunMove
        <3>3. CASE r = <<u, i>> /\ task[r] = "announced"
            <4>1. entry[u][i] = "running"
                BY <1>0, <3>3 DEF FileOf
            <4> QED
                BY <3>3, <1>2, <4>1 DEF RunMove, Settled
        <3> QED
            BY <3>1, <3>2, <3>3
    <2> QED
        BY <1>a, <2>1, <2>2 DEF Drained
<1>3. ASSUME NEW v \in Exports, DrainFrame(v), DrainMove(v) PROVE ServingOf(u)'
    <2>0. process = "up" /\ queues' = queues /\ told \subseteq told'
        BY <1>3 DEF DrainFrame
    <2>1. CASE v # u
        <3>1. drain'[u] = drain[u] /\ \A i \in Files : entry'[u][i] = entry[u][i] /\ task'[<<u, i>>] = task[<<u, i>>]
            BY <1>0, <1>3, <2>1 DEF DrainFrame
        <3> QED
            BY <1>a, <2>0, <3>1 DEF Drained
    <2>2. CASE v = u
        <3>0. entry[u] \in [Files -> Statuses]
            BY DEF TypeOK, Statuses
        <3>1. ASSUME NEW e \in [Files -> Statuses], NextMove(u, e), UNCHANGED task,
                     drain[u] \in Draining,
                     \A i \in Files : /\ e[i] # "running" /\ task[<<u, i>>] \notin AtWork
                                      /\ e[i] = "queued" => entry[u][i] = "queued"
              PROVE ServingOf(u)'
            <4>1. drain'[u] \in Draining => u \in queues
                <5>1. ASSUME NEW i \in Files, e[i] = "queued" PROVE ~Drained(u)
                    BY <3>1, <5>1 DEF Drained
                <5> QED
                    BY <1>a, <2>0, <3>1, <5>1 DEF NextMove
            <4>2. \A i \in Files : drain'[u] \in {"closing", "grace"} => entry'[u][i] \in Settled
                BY <3>1 DEF NextMove, Statuses
            <4> QED
                BY <1>a, <2>0, <3>1, <4>1, <4>2
        <3>2. ASSUME drain[u] = "spawned" \/ (drain[u] = "waiting" /\ \A i \in Files : entry[u][i] # "running")
              PROVE  \A i \in Files : entry[u][i] # "running" /\ task[<<u, i>>] \notin AtWork
            BY <1>0, <3>2 DEF FileOf
        <3>3. ASSUME NEW i \in Files, drain[u] = "launching", entry[u][i] = "running",
                     NextMove(u, [entry[u] EXCEPT ![i] = "error"]), UNCHANGED task
              PROVE ServingOf(u)'
            <4> DEFINE e == [entry[u] EXCEPT ![i] = "error"]
            <4>1. e \in [Files -> Statuses] /\ e[i] = "error" /\ \A j \in Files : j # i => e[j] = entry[u][j]
                BY <3>0, <3>3 DEF Statuses, Settled
            <4>2. NextMove(u, e)
                BY <3>3
            <4>3. \A j \in Files : j # i => entry[u][j] # "running"
                BY <1>0, <3>3 DEF FileOf
            <4>4. \A j \in Files : task[<<u, j>>] \notin AtWork
                BY <1>a, <2>0, <3>3
            <4> HIDE DEF e
            <4> QED
                BY <3>1, <3>3, <4>1, <4>2, <4>3, <4>4
        <3>4. ASSUME NEW i \in Files, drain[u] = "launching", drain'[u] = "waiting", UNCHANGED entry,
                     task'[<<u, i>>] = "spawned", \A j \in Files : j # i => task'[<<u, j>>] = task[<<u, j>>]
              PROVE ServingOf(u)'
            <4>1. \A j \in Files : task'[<<u, j>>] \in {"announced", "grace", "gone"} => task[<<u, j>>] \in {"announced", "grace", "gone"}
                BY <3>4
            <4> QED
                BY <1>a, <2>0, <3>4, <4>1 DEF Drained
        <3>5. ASSUME \/ drain[u] = "closing" /\ drain'[u] = "grace"
                     \/ drain[u] = "grace" /\ drain'[u] = "gone",
                     UNCHANGED <<entry, task>>
              PROVE ServingOf(u)'
            BY <1>a, <2>0, <3>5
        <3> QED
            BY <1>3, <1>a, <2>0, <2>2, <3>0, <3>1, <3>2, <3>3, <3>4, <3>5 DEF DrainMove
    <2> QED
        BY <2>1, <2>2
<1>4. ASSUME NEW v \in Exports, RequestMove(v) PROVE ServingOf(u)'
    <2>0. process = "up" /\ UNCHANGED <<task, told>>
        BY <1>4 DEF RequestMove
    <2>1. \A i \in Files : entry'[u][i] = entry[u][i] \/ (entry[u][i] \notin Settled /\ entry'[u][i] \in Settled)
        BY <1>4 DEF RequestMove, Settled
    <2>2. drain'[u] = drain[u] \/ (v = u /\ drain[u] = "none" /\ drain'[u] = "spawned" /\ u \in queues')
        BY <1>0, <1>4 DEF RequestMove, FileOf
    <2>3. u \in queues => u \in queues' \/ Drained(u)
        BY <1>4 DEF RequestMove, QueueActive
    <2>4. Drained(u) => Drained(u)'
        BY <2>1 DEF Drained
    <2> QED
        BY <1>a, <2>0, <2>1, <2>2, <2>3, <2>4
<1>5. CASE Start
    BY <1>0, <1>5 DEF Start, ProcessInv, FileOf
<1>6. CASE Reap \/ UNCHANGED vars
    BY <1>a, <1>6 DEF Reap, vars, Drained
<1>7. ~StopMove /\ ~DiesMove
    BY DEF StopMove, DiesMove
<1> QED
    BY <1>1, <1>2, <1>3, <1>4, <1>5, <1>6, <1>7 DEF Step

LEMMA QueueStable == BackInv /\ Step => OneQueue'
<1> SUFFICES ASSUME OneQueue, Step PROVE OneQueue'
    BY DEF BackInv
<1>1. ASSUME NEW u \in Exports, RequestMove(u) PROVE OneQueue'
    <2>1. queues' = queues \/ queues' = {v \in queues : Owner[v] # Owner[u]} \cup {u}
        BY <1>1 DEF RequestMove
    <2> QED
        BY <2>1 DEF OneQueue
<1>2. CASE StopMove \/ DiesMove \/ Start \/ Reap \/ UNCHANGED vars
    BY <1>2 DEF StopMove, DiesMove, Start, Reap, vars, OneQueue
<1> QED
    BY <1>1, <1>2 DEF Step, KickoffMove, RunFrame, DrainFrame, OneQueue

LEMMA HeldStable == BackInv /\ Step /\ TypeOK' => HeldSlots'
<1> SUFFICES ASSUME TypeOK, ProcessInv, HeldSlots, Step, TypeOK', process' = "up" PROVE HeldSlots'
    BY DEF BackInv, HeldSlots
<1> USE DEF InSlot, Draining
<1>0. /\ Ops \cap Exports = {} /\ \A o \in Ops : o \in Runs
      /\ \A u \in Exports : u \notin Runs
      /\ slots \subseteq Ops \cup Exports /\ slots' \subseteq Ops \cup Exports
    BY Names DEF TypeOK
<1>a. process = "up" =>
          /\ \A o \in Ops : o \in slots <=> task[o] \in InSlot
          /\ \A u \in Exports : u \in slots <=> drain[u] \in Draining
          /\ doomed = {}
    BY <1>0 DEF HeldSlots, ProcessInv
<1>b. SUFFICES /\ \A o \in Ops : o \in slots' <=> task'[o] \in InSlot
               /\ \A u \in Exports : u \in slots' <=> drain'[u] \in Draining
    BY <1>0 DEF HeldSlots
<1>1. ASSUME NEW o \in Ops, KickoffMove(o)
      PROVE  /\ \A p \in Ops : p \in slots' <=> task'[p] \in InSlot
             /\ \A u \in Exports : u \in slots' <=> drain'[u] \in Draining
    BY <1>0, <1>a, <1>1 DEF KickoffMove
<1>2. ASSUME NEW r \in Runs, RunFrame(r), RunMove(r)
      PROVE  /\ \A o \in Ops : o \in slots' <=> task'[o] \in InSlot
             /\ \A u \in Exports : u \in slots' <=> drain'[u] \in Draining
    <2>1. process = "up" /\ drain' = drain
        BY <1>2 DEF RunFrame
    <2>2. \A x \in Ops \cup Exports : x # r => (x \in slots' <=> x \in slots)
        BY <1>0, <1>2 DEF RunMove
    <2>3. r \in Ops => (r \in slots' <=> task'[r] \in InSlot)
        BY <1>0, <1>2, <1>a, <2>1 DEF RunMove
    <2>4. \A o \in Ops : o # r => task'[o] = task[o]
        BY <1>0, <1>2 DEF RunFrame
    <2> QED
        BY <1>0, <1>a, <2>1, <2>2, <2>3, <2>4
<1>3. ASSUME NEW u \in Exports, DrainFrame(u), DrainMove(u)
      PROVE  /\ \A o \in Ops : o \in slots' <=> task'[o] \in InSlot
             /\ \A v \in Exports : v \in slots' <=> drain'[v] \in Draining
    <2>1. process = "up" /\ \A o \in Ops : task'[o] = task[o] /\ (o \in slots' <=> o \in slots)
        <3>1. \A o \in Ops, i \in Files : o # <<u, i>>
            BY Names
        <3> QED
            BY <1>0, <1>3, <3>1 DEF DrainFrame
    <2>2. \A v \in Exports : v # u => drain'[v] = drain[v] /\ (v \in slots' <=> v \in slots)
        BY <1>3 DEF DrainFrame
    <2>3. u \in slots' <=> drain'[u] \in Draining
        BY <1>3, <1>a, <2>1 DEF DrainMove, NextMove
    <2> QED
        BY <1>a, <2>1, <2>2, <2>3
<1>4. ASSUME NEW u \in Exports, RequestMove(u)
      PROVE  /\ \A o \in Ops : o \in slots' <=> task'[o] \in InSlot
             /\ \A v \in Exports : v \in slots' <=> drain'[v] \in Draining
    BY <1>0, <1>a, <1>4 DEF RequestMove
<1>5. CASE Start
    BY <1>0, <1>5 DEF Start, ProcessInv
<1>6. CASE Reap \/ UNCHANGED vars
    BY <1>0, <1>6, <1>a DEF Reap, vars
<1>7. ~StopMove /\ ~DiesMove
    BY DEF StopMove, DiesMove
<1> QED
    BY <1>1, <1>2, <1>3, <1>4, <1>5, <1>6, <1>7 DEF Step

LEMMA DirsStable == BackInv /\ Step /\ TypeOK' => DirsFollowQueues'
<1> SUFFICES ASSUME TypeOK, ProcessInv, FileInv, DirsFollowQueues, Step, TypeOK', process' = "up"
             PROVE  \A u \in Exports : u \in dirs' <=> upload'[u] = "streaming" \/ drain'[u] \in Draining
    BY DEF BackInv, DirsFollowQueues, TypeOK
<1> USE DEF Draining
<1>a. process = "up" =>
          /\ \A u \in Exports : u \in dirs <=> upload[u] = "streaming" \/ drain[u] \in Draining
          /\ doomed = {}
    BY DEF DirsFollowQueues, ProcessInv
<1>b. \A u \in Exports : drain[u] # "none" => upload[u] = "started"
    BY DEF FileInv, FileOf
<1>1. ASSUME NEW u \in Exports, DrainFrame(u), DrainMove(u)
      PROVE  \A v \in Exports : v \in dirs' <=> upload'[v] = "streaming" \/ drain'[v] \in Draining
    <2>1. u \in dirs' <=> upload'[u] = "streaming" \/ drain'[u] \in Draining
        BY <1>1, <1>a, <1>b DEF DrainFrame, DrainMove, NextMove
    <2> QED
        BY <1>1, <1>a, <2>1 DEF DrainFrame
<1>2. ASSUME NEW u \in Exports, RequestMove(u)
      PROVE  \A v \in Exports : v \in dirs' <=> upload'[v] = "streaming" \/ drain'[v] \in Draining
    <2>1. u \in dirs' <=> upload'[u] = "streaming" \/ drain'[u] \in Draining
        BY <1>2, <1>a, <1>b DEF RequestMove
    <2>2. process = "up" /\ \A v \in Exports : v # u =>
              (v \in dirs' <=> v \in dirs) /\ upload'[v] = upload[v] /\ drain'[v] = drain[v]
        BY <1>2 DEF RequestMove
    <2> QED
        BY <1>a, <2>1, <2>2
<1>3. CASE Start
    BY <1>3 DEF Start, ProcessInv
<1>4. CASE Reap \/ UNCHANGED vars
    BY <1>4, <1>a DEF Reap, vars
<1>5. CASE \/ \E o \in Ops : KickoffMove(o)
           \/ \E r \in Runs : RunFrame(r) /\ RunMove(r)
    BY <1>5, <1>a DEF KickoffMove, RunFrame
<1>6. ~StopMove /\ ~DiesMove
    BY DEF StopMove, DiesMove
<1> QED
    BY <1>1, <1>2, <1>3, <1>4, <1>5, <1>6 DEF Step

\* What a step may write to a row, and that a row that says how its operation
\* ended is not written again.
LEMMA RowEffect ==
    ASSUME BackInv, Step, NEW q \in Runs
    PROVE  /\ row'[q] \in {row[q], "running", "error"} \/ (row'[q] = verdict[q] /\ task[q] = "writing")
           /\ row[q] \in {"complete", "error"} => row'[q] = row[q]
<1> USE DEF BackInv
<1>0. \A u \in Exports, i \in Files : <<u, i>> \in Runs
    BY Names
<1>1. ASSUME NEW o \in Ops, KickoffMove(o)
      PROVE  row'[q] = row[q] \/ (row[q] \in {"absent", "running"} /\ row'[q] = "running")
    <2>1. task[o] = "admitted" => row[o] = "absent"
        BY Names DEF RowInv
    <2> QED
        BY <1>1, <2>1 DEF KickoffMove
<1>2. ASSUME NEW r \in Runs, RunFrame(r), RunMove(r)
      PROVE  row'[q] = row[q] \/ (row[q] = "running" /\ row'[q] = verdict[q] /\ task[q] = "writing")
    BY <1>2 DEF RunFrame, RunMove, RowInv
<1>3. ASSUME NEW u \in Exports, DrainFrame(u), DrainMove(u)
      PROVE  row'[q] = row[q] \/ (row[q] = "absent" /\ row'[q] = "running")
    <2>1. CASE \A i \in Files : q # <<u, i>>
        BY <1>3, <2>1 DEF DrainFrame
    <2>2. ASSUME NEW i \in Files, q = <<u, i>>
          PROVE  row'[q] = row[q] \/ (row[q] = "absent" /\ row'[q] = "running")
        <3>1. row'[<<u, i>>] = row[<<u, i>>] \/
                  (drain[u] = "launching" /\ entry[u][i] = "running" /\ row'[<<u, i>>] = "running")
            BY <1>3 DEF DrainMove, MayLand
        <3>2. drain[u] = "launching" /\ entry[u][i] = "running" => row[<<u, i>>] = "absent"
            BY DEF FileInv, FileOf
        <3> QED
            BY <2>2, <3>1, <3>2
    <2> QED
        BY <2>1, <2>2
<1>4. ASSUME StopMove
      PROVE  row'[q] = row[q] \/ (row[q] = "absent" /\ row'[q] = "running")
    BY <1>4 DEF StopMove, RowInv
<1>5. ASSUME DiesMove
      PROVE  \/ row'[q] = row[q]
             \/ row[q] = "absent" /\ row'[q] = "running"
             \/ row[q] = "running" /\ row'[q] = verdict[q] /\ task[q] = "writing"
    <2>1. ASSUME q \in InFlight PROVE \/ row[q] = "absent" /\ task[q] # "writing"
                                      \/ row[q] = "running" /\ task[q] = "writing"
        <3>1. CASE task[q] = "writing"
            BY <3>1 DEF RowInv
        <3>2. CASE task[q] = "admitted"
            <4>1. q \in Ops
                BY <3>2, Names DEF FileInv, FileOf, ExportFiles
            <4> QED
                BY <3>2, <4>1 DEF RowInv
        <3>3. CASE q \in ExportFiles /\ drain[q[1]] = "launching" /\ entry[q[1]][q[2]] = "running"
            <4>1. q[1] \in Exports /\ q[2] \in Files /\ q = <<q[1], q[2]>>
                BY <3>3, Names
            <4>2. FileOf(q[1])
                BY <4>1 DEF FileInv
            <4>3. task[<<q[1], q[2]>>] = "idle" /\ row[<<q[1], q[2]>>] = "absent"
                BY <3>3, <4>1, <4>2 DEF FileOf
            <4> QED
                BY <4>1, <4>3
        <3> QED
            BY <2>1, <3>1, <3>2, <3>3 DEF InFlight, ExportFiles
    <2> QED
        BY <1>5, <2>1 DEF DiesMove, Landed
<1>6. CASE Reap
    <2>1. row'[q] = IF q \in aged THEN "error" ELSE row[q]
        BY <1>6 DEF Reap
    <2> QED
        BY <2>1 DEF AgedInv
<1>7. CASE Start \/ UNCHANGED vars \/ \E u \in Exports : RequestMove(u)
    BY <1>7 DEF Start, vars, RequestMove
<1> QED
    BY <1>1, <1>2, <1>3, <1>4, <1>5, <1>6, <1>7 DEF Step

LEMMA CompleteStable == BackInv /\ Step => CompleteIsTrue'
<1> SUFFICES ASSUME BackInv, Step, NEW r \in Runs, row'[r] = "complete" PROVE r \in returned'
    BY DEF CompleteIsTrue
<1>1. returned \subseteq returned'
    BY DEF Step, KickoffMove, RunFrame, DrainFrame, RequestMove, StopMove, DiesMove, Start, Reap, vars
<1>2. row[r] = "complete" \/ verdict[r] = "complete"
    BY RowEffect
<1> QED
    BY <1>1, <1>2 DEF BackInv, CompleteIsTrue, RowInv

-----------------------------------------------------------------------------
(* The invariant, and what it says of the runs' properties.                 *)

LEMMA BackInit == Init => BackInv
<1> SUFFICES ASSUME Init PROVE BackInv
    OBVIOUS
<1>1. TypeOK
    BY BackgroundAssumption DEF Init, TypeOK, Stage, Settled, Draining
<1>2. ProcessInv /\ RowInv /\ AgedInv /\ ServingInv /\ OneQueue /\ HeldSlots /\ DirsFollowQueues /\ CompleteIsTrue
    BY Names DEF Init, ProcessInv, RowInv, AgedInv, ServingInv, ServingOf, OneQueue, HeldSlots,
        DirsFollowQueues, CompleteIsTrue, InSlot, Draining, AtWork
<1>3. FileInv
    BY Names DEF Init, FileInv, FileOf, AtWork, InSlot
<1> QED
    BY <1>1, <1>2, <1>3 DEF BackInv

LEMMA BackStep == BackInv /\ [Next]_vars => BackInv'
<1> SUFFICES ASSUME BackInv, [Next]_vars PROVE BackInv'
    OBVIOUS
<1>1. TypeOK' /\ Step
    BY TypeStep, Steps DEF BackInv
<1> QED
    BY <1>1, ProcessStable, RowStable, AgedStable, FileStable, ServingStable, QueueStable,
       HeldStable, DirsStable, CompleteStable
    DEF BackInv

LEMMA BackAlways == Spec => []BackInv
<1>1. Init => BackInv
    BY BackInit
<1>2. BackInv /\ [Next]_vars => BackInv'
    BY BackStep
<1> QED
    BY <1>1, <1>2, PTL DEF Spec

\* Every variable always has its type.
THEOREM BackTypeCorrect == Spec => []TypeOK
<1>1. BackInv => TypeOK
    BY DEF BackInv
<1> QED
    BY <1>1, BackAlways, PTL

\* While the process serves, the slots are exactly those of the operations and
\* drains at work, and a file of an export runs under the slot of its drain.
THEOREM SlotsAlwaysAccounted == Spec => []SlotsAccounted
<1>1. BackInv => SlotsAccounted
    <2> SUFFICES ASSUME BackInv, process = "up",
                        NEW f \in Exports \X Files, task[f] \in {"spawned"} \cup InSlot
                 PROVE  f[1] \in slots
        BY DEF BackInv, HeldSlots, SlotsAccounted
    <2>1. f[1] \in Exports /\ f[2] \in Files /\ f = <<f[1], f[2]>>
        BY Names DEF ExportFiles
    <2>2. drain[f[1]] = "waiting"
        BY <2>1 DEF BackInv, ServingInv, ServingOf, AtWork
    <2> QED
        BY <2>1, <2>2 DEF BackInv, HeldSlots, Draining
<1> QED
    BY <1>1, BackAlways, PTL

\* The deploy gate never reads idle while an upload is received, a file is still
\* to be imported, or the result of an operation is not recorded.
THEOREM BusyAlwaysCovers == Spec => []BusyCoversWork
<1>1. BackInv => BusyCoversWork
    <2> SUFFICES ASSUME BackInv, process = "up",
                        \/ \E r \in Runs : task[r] \in {"spawned", "starting", "body", "writing"}
                        \/ \E u \in Exports : upload[u] = "streaming" \/ drain[u] = "launching"
                        \/ \E u \in Exports, i \in Files : drain[u] \in Draining /\ entry[u][i] = "queued"
                 PROVE  Busy
        BY DEF BusyCoversWork
    <2>1. ASSUME NEW r \in Runs, task[r] \in {"spawned", "starting", "body", "writing"} PROVE Busy
        BY <2>1 DEF BackInv, RowInv, AgedInv, Busy
    <2>2. ASSUME NEW u \in Exports, NEW i \in Files, drain[u] \in Draining, entry[u][i] \in {"queued", "running"}
          PROVE  Busy
        BY <2>2 DEF BackInv, ServingInv, ServingOf, Drained, Settled, Busy
    <2>3. ASSUME NEW u \in Exports, drain[u] = "launching" PROVE Busy
        <3>1. PICK i \in Files : entry[u][i] = "running"
            BY <2>3 DEF BackInv, FileInv, FileOf
        <3> QED
            BY <2>2, <2>3, <3>1 DEF Draining
    <2>4. ASSUME NEW u \in Exports, upload[u] = "streaming" PROVE Busy
        BY <2>4 DEF Busy
    <2> QED
        BY <2>1, <2>2, <2>3, <2>4
<1> QED
    BY <1>1, BackAlways, PTL

\* A row says `complete` only if the body of its operation returned.
THEOREM CompleteAlwaysTrue == Spec => []CompleteIsTrue
<1>1. BackInv => CompleteIsTrue
    BY DEF BackInv
<1> QED
    BY <1>1, BackAlways, PTL

\* No step writes a row that says how its operation ended.
THEOREM RecordAlwaysFinal == Spec => RecordIsFinal
<1>1. BackInv /\ [Next]_vars => [\A r \in Runs : row[r] \in {"complete", "error"} => row'[r] = row[r]]_vars
    BY RowEffect, Steps DEF BackInv
<1> QED
    BY <1>1, BackAlways, PTL DEF Spec, RecordIsFinal

\* While the process serves, an upload directory is there exactly while it is
\* filled or read.
THEOREM DirsAlwaysFollow == Spec => []DirsFollowQueues
<1>1. BackInv => DirsFollowQueues
    BY DEF BackInv
<1> QED
    BY <1>1, BackAlways, PTL

\* A drain closes its stream only after every file has a final status and every
\* file that ran has told its own.
THEOREM DrainAlwaysLast == Spec => []DrainToldLast
<1>1. BackInv => DrainToldLast
    <2> SUFFICES ASSUME BackInv, NEW u \in Exports, process = "up", drain[u] = "grace", NEW i \in Files
                 PROVE  entry[u][i] \in Settled /\ (task[<<u, i>>] # "idle" => <<u, i>> \in told)
        BY DEF DrainToldLast
    <2>1. ServingOf(u) /\ FileOf(u)
        BY DEF BackInv, ServingInv, FileInv
    <2>2. task[<<u, i>>] \in Stage
        BY Names DEF BackInv, TypeOK
    <2>3. task[<<u, i>>] \notin AtWork /\ task[<<u, i>>] # "admitted"
        BY <2>1 DEF ServingOf, FileOf
    <2> QED
        BY <2>1, <2>2, <2>3 DEF ServingOf, FileOf, Stage, Live, InSlot, AtWork, Settled
<1> QED
    BY <1>1, BackAlways, PTL

-----------------------------------------------------------------------------
(* The import implements SerialImport.                                      *)

Works == [f \in Exports \X Files |-> Work(f)]

LEMMA WorksInit == Init => Import!Init
BY Names DEF Init, Import!Init, Import!All, Work, ExportFiles

\* A step in which files are dropped, or nothing happens to any.
LEMMA WorksDrop ==
    ASSUME \A f \in Exports \X Files :
               Work(f)' = Work(f) \/ (Work(f) \in {"waiting", "running"} /\ Work(f)' = "dropped")
    PROVE  Import!Next
<1> DEFINE D == {f \in Exports \X Files : Work(f) \in {"waiting", "running"} /\ Work(f)' = "dropped"}
<1>1. D \in SUBSET (Exports \X Files) /\ D \subseteq {f \in Exports \X Files : Works[f] \in {"waiting", "running"}}
    BY DEF Works
<1>2. Works' = [f \in Exports \X Files |-> IF f \in D THEN "dropped" ELSE Works[f]]
    BY DEF Works
<1>3. Import!Drop(D)
    BY <1>1, <1>2 DEF Import!Drop, Import!All, Works
<1> QED
    BY <1>1, <1>3 DEF Import!Next, Import!All

LEMMA WorksStart ==
    ASSUME NEW f \in Exports \X Files, Work(f) = "waiting", Work(f)' = "running",
           \A g \in Exports \X Files : g # f => Work(g)' = Work(g),
           \A g \in Exports \X Files : Work(g) = "running" => Owner[g[1]] # Owner[f[1]],
           \A i \in Files : i < f[2] => Work(<<f[1], i>>) \in {"done", "dropped"}
    PROVE  Import!Next
<1>1. Works' = [Works EXCEPT ![f] = "running"]
    BY DEF Works
<1>2. Import!Start(f)
    BY <1>1 DEF Import!Start, Import!All, Works
<1> QED
    BY <1>2 DEF Import!Next, Import!All

LEMMA WorksFinish ==
    ASSUME NEW f \in Exports \X Files, Work(f) = "running", Work(f)' = "done",
           \A g \in Exports \X Files : g # f => Work(g)' = Work(g)
    PROVE  Import!Next
<1>1. Works' = [Works EXCEPT ![f] = "done"]
    BY DEF Works
<1>2. Import!Finish(f)
    BY <1>1 DEF Import!Finish, Import!All, Works
<1> QED
    BY <1>2 DEF Import!Next, Import!All

\* A body begins only when no file of its user runs and the files before it have
\* their end.
LEMMA WorksBegin ==
    ASSUME BackInv, NEW f \in Exports \X Files, task[f] = "starting", f \notin doomed
    PROVE  /\ \A g \in Exports \X Files : Work(g) = "running" => Owner[g[1]] # Owner[f[1]]
           /\ \A i \in Files : i < f[2] => Work(<<f[1], i>>) \in {"done", "dropped"}
<1>1. /\ \A g \in Exports \X Files : g \in Runs /\ g[1] \in Exports /\ g[2] \in Files /\ g = <<g[1], g[2]>>
      /\ \A u \in Exports, i \in Files : <<u, i>> \in Runs /\ <<u, i>>[1] = u /\ <<u, i>>[2] = i
    BY Names DEF ExportFiles
<1>2. process = "up"
    BY <1>1 DEF BackInv, TypeOK, ProcessInv
<1>3. ASSUME NEW g \in Exports \X Files, task[g] \in {"starting", "body"}
      PROVE  g[1] \in queues /\ entry[g[1]][g[2]] = "running"
    <2>1. FileOf(g[1]) /\ ServingOf(g[1])
        BY <1>1, <1>2 DEF BackInv, FileInv, ServingInv
    <2>2. task[<<g[1], g[2]>>] \in AtWork
        BY <1>1, <1>3 DEF AtWork, InSlot
    <2>3. entry[g[1]][g[2]] = "running" /\ drain[g[1]] = "waiting"
        BY <1>1, <2>1, <2>2 DEF FileOf, ServingOf
    <2> QED
        BY <1>1, <2>1, <2>3 DEF ServingOf, Draining, Drained, Settled
<1>4. ASSUME NEW g \in Exports \X Files, Work(g) = "running", Owner[g[1]] = Owner[f[1]] PROVE FALSE
    <2>1. task[g] = "body"
        BY <1>4 DEF Work
    <2>2. g[1] = f[1]
        BY <1>3, <1>4, <2>1 DEF BackInv, OneQueue
    <2>3. g[2] = f[2]
        BY <1>1, <1>3, <2>1, <2>2 DEF BackInv, FileInv, FileOf
    <2> QED
        BY <1>1, <2>1, <2>2, <2>3
<1>5. ASSUME NEW i \in Files, i < f[2] PROVE Work(<<f[1], i>>) \in {"done", "dropped"}
    <2>1. FileOf(f[1]) /\ entry[f[1]][f[2]] = "running"
        BY <1>1, <1>3 DEF BackInv, FileInv
    <2>2. entry[f[1]][i] \notin {"queued", "running"}
        <3>1. i \in Int /\ f[2] \in Int /\ i # f[2]
            BY <1>1, <1>5, Names
        <3> QED
            BY <1>1, <1>5, <2>1, <3>1 DEF FileOf
    <2>3. entry[f[1]][i] \in Settled
        BY <1>1, <2>2 DEF BackInv, TypeOK
    <2>4. task[<<f[1], i>>] # "body"
        BY <1>1, <2>1, <2>2 DEF FileOf, AtWork, InSlot
    <2>5. entry[f[1]][i] = "complete" => verdict[<<f[1], i>>] # "none"
        BY <1>1, <2>1 DEF FileOf
    <2> QED
        BY <1>1, <2>3, <2>4, <2>5 DEF Work, Settled
<1> QED
    BY <1>4, <1>5

LEMMA WorksStep == BackInv /\ [Next]_vars => Import!Next
<1> SUFFICES ASSUME BackInv, Step PROVE Import!Next
    BY Steps DEF BackInv
<1>1. /\ \A f \in Exports \X Files : f \in Runs /\ f \notin Ops /\ f[1] \in Exports /\ f[2] \in Files /\ f = <<f[1], f[2]>>
      /\ \A u \in Exports, i \in Files : <<u, i>> \in Runs
    BY Names DEF ExportFiles
<1>2. CASE \E o \in Ops : KickoffMove(o)
    <2>1. \A f \in Exports \X Files : Work(f)' = Work(f)
        BY <1>1, <1>2 DEF KickoffMove, Work
    <2> QED
        BY <2>1, WorksDrop
<1>3. ASSUME NEW r \in Runs, RunFrame(r), RunMove(r) PROVE Import!Next
    <2>1. \A g \in Exports \X Files : g # r => Work(g)' = Work(g)
        BY <1>1, <1>3 DEF RunFrame, Work
    <2>2. CASE r \in Ops
        BY <1>1, <2>1, <2>2, WorksDrop
    <2>3. CASE r \in Exports \X Files
        <3>1. CASE task[r] = "starting" /\ task'[r] = "body"
            <4>1. r \notin doomed /\ UNCHANGED verdict
                BY <1>3, <3>1 DEF RunMove
            <4>2. verdict[r] = "none"
                BY <3>1 DEF BackInv, RowInv
            <4>3. Work(r)' = "running"
                BY <3>1 DEF Work
            <4>4. Work(r) = "waiting"
                <5>1. entry[r[1]][r[2]] = "running"
                    BY <1>1, <2>3, <3>1 DEF BackInv, FileInv, FileOf, AtWork, InSlot
                <5> QED
                    BY <3>1, <4>2, <5>1 DEF Work
            <4> QED
                BY <2>1, <2>3, <3>1, <4>1, <4>3, <4>4, WorksBegin, WorksStart
        <3>2. CASE task[r] = "body"
            <4>1. task'[r] = "writing" /\ verdict'[r] # "none"
                BY <1>3, <3>2 DEF RunMove
            <4> QED
                BY <2>1, <2>3, <3>2, <4>1, WorksFinish DEF Work
        <3>3. CASE task[r] # "body" /\ task'[r] # "body"
            <4>1. UNCHANGED verdict
                BY <1>3, <3>3 DEF RunMove
            <4>2. CASE verdict[r] # "none"
                BY <2>1, <2>3, <3>3, <4>1, <4>2, WorksDrop DEF Work
            <4>3. CASE verdict[r] = "none"
                <5>1. UNCHANGED entry /\ task[r] \notin {"gone"}
                    BY <1>3, <4>3 DEF RunMove, BackInv, RowInv
                <5> QED
                    BY <2>1, <2>3, <3>3, <4>1, <4>3, <5>1, WorksDrop DEF Work
            <4> QED
                BY <4>2, <4>3
        <3> QED
            BY <1>3, <3>1, <3>2, <3>3 DEF RunMove
    <2> QED
        BY <2>2, <2>3 DEF Runs
<1>4. ASSUME NEW u \in Exports, DrainFrame(u), DrainMove(u) PROVE Import!Next
    <2>1. \A f \in Exports \X Files : f[1] # u => Work(f)' = Work(f)
        BY <1>1, <1>4 DEF DrainFrame, Work
    <2>2. ASSUME NEW i \in Files
          PROVE  \/ task'[<<u, i>>] = task[<<u, i>>] /\ entry'[u][i] = entry[u][i]
                 \/ /\ task'[<<u, i>>] = task[<<u, i>>]
                    /\ entry[u][i] = "queued" /\ entry'[u][i] = "running"
                 \/ /\ task'[<<u, i>>] = "idle" /\ task[<<u, i>>] = "idle"
                    /\ entry[u][i] = "running" /\ entry'[u][i] = "error"
                 \/ /\ task[<<u, i>>] = "idle" /\ task'[<<u, i>>] = "spawned"
                    /\ entry[u][i] = "running" /\ entry'[u][i] = "running"
        <3>0. FileOf(u) /\ entry[u] \in [Files -> Statuses]
            BY DEF BackInv, FileInv, TypeOK, Statuses
        <3>1. CASE NextMove(u, entry[u]) /\ UNCHANGED task
            BY <3>1 DEF NextMove
        <3>2. ASSUME NEW k \in Files, drain[u] = "launching", entry[u][k] = "running",
                     NextMove(u, [entry[u] EXCEPT ![k] = "error"]), UNCHANGED task
              PROVE  \/ task'[<<u, i>>] = task[<<u, i>>] /\ entry'[u][i] = entry[u][i]
                     \/ /\ task'[<<u, i>>] = task[<<u, i>>]
                        /\ entry[u][i] = "queued" /\ entry'[u][i] = "running"
                     \/ /\ task'[<<u, i>>] = "idle" /\ task[<<u, i>>] = "idle"
                        /\ entry[u][i] = "running" /\ entry'[u][i] = "error"
            <4>1. task[<<u, k>>] = "idle"
                BY <3>0, <3>2 DEF FileOf
            <4>2. \/ i = k /\ entry'[u][i] = "error"
                  \/ i # k /\ (entry'[u][i] = entry[u][i] \/ (entry[u][i] = "queued" /\ entry'[u][i] = "running"))
                BY <3>0, <3>2 DEF NextMove
            <4> QED
                BY <3>2, <4>1, <4>2
        <3>3. ASSUME NEW k \in Files, drain[u] = "launching", entry[u][k] = "running", UNCHANGED entry,
                     task'[<<u, k>>] = "spawned", \A j \in Files : j # k => task'[<<u, j>>] = task[<<u, j>>]
              PROVE  \/ task'[<<u, i>>] = task[<<u, i>>] /\ entry'[u][i] = entry[u][i]
                     \/ /\ task[<<u, i>>] = "idle" /\ task'[<<u, i>>] = "spawned"
                        /\ entry[u][i] = "running" /\ entry'[u][i] = "running"
            BY <3>0, <3>3 DEF FileOf
        <3> QED
            BY <1>4, <3>1, <3>2, <3>3 DEF DrainMove
    <2>3. ASSUME NEW i \in Files
          PROVE  \/ Work(<<u, i>>)' = Work(<<u, i>>)
                 \/ Work(<<u, i>>) \in {"waiting", "running"} /\ Work(<<u, i>>)' = "dropped"
        <3>1. UNCHANGED verdict
            BY <1>4 DEF DrainFrame
        <3> QED
            BY <2>2, <3>1 DEF Work
    <2> QED
        BY <1>1, <2>1, <2>3, WorksDrop
<1>5. ASSUME NEW u \in Exports, RequestMove(u) PROVE Import!Next
    <2>1. ASSUME NEW f \in Exports \X Files
          PROVE  Work(f)' = Work(f) \/ (Work(f) \in {"waiting", "running"} /\ Work(f)' = "dropped")
        BY <1>1, <1>5, <2>1 DEF RequestMove, Work, BackInv, FileInv, FileOf
    <2> QED
        BY <2>1, WorksDrop
<1>6. CASE StopMove
    <2>1. \A f \in Exports \X Files : task[f] # "admitted"
        BY <1>1 DEF BackInv, FileInv, FileOf
    <2>2. \A f \in Exports \X Files : Work(f)' = Work(f)
        BY <1>1, <1>6, <2>1 DEF StopMove, Work
    <2> QED
        BY <2>2, WorksDrop
<1>7. CASE DiesMove
    <2>1. ASSUME NEW f \in Exports \X Files
          PROVE  Work(f)' = Work(f) \/ (Work(f) \in {"waiting", "running"} /\ Work(f)' = "dropped")
        BY <1>1, <1>7, <2>1 DEF DiesMove, Work, BackInv, RowInv
    <2> QED
        BY <2>1, WorksDrop
<1>8. CASE Start \/ Reap \/ UNCHANGED vars
    <2>1. \A f \in Exports \X Files : Work(f)' = Work(f)
        BY <1>8 DEF Start, Reap, vars, Work
    <2> QED
        BY <2>1, WorksDrop
<1> QED
    BY <1>2, <1>3, <1>4, <1>5, <1>6, <1>7, <1>8 DEF Step

\* The import shows its users one file at a time, in the order of upload, none
\* twice, and never one that was dropped.
THEOREM ImportIsSerial == Spec => ImplementsSerialImport
<1>1. BackInv /\ [Next]_vars => [Import!Next]_Works
    BY WorksStep
<1> QED
    BY <1>1, WorksInit, BackAlways, PTL DEF Spec, ImplementsSerialImport, Import!Spec, Works
=============================================================================
