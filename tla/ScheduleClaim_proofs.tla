------------------------ MODULE ScheduleClaim_proofs ------------------------
(***************************************************************************)
(* Proofs about ScheduleClaim, for any number of schedules and replicas,    *)
(* any cadences and any length of behaviour:                                *)
(*   - type correctness;                                                    *)
(*   - WindowOnce, with queueing, crashes, stops and edits;                 *)
(*   - LiveClaimKept and the lease the claim column implements, for every   *)
(*     schedule that no long wait for a slot and no shutdown inside a claim *)
(*     statement has exposed.                                               *)
(***************************************************************************)
EXTENDS ScheduleClaim, FiniteSetTheorems, TLAPS

-----------------------------------------------------------------------------
(* The inductive invariant behind WindowOnce.                              *)

\* A release that will advance from an instant before the current one: only
\* a missed window does, and it does so in the instant it was claimed.
Late(r, s) == job[r][s].pc \in {"settled", "advancing"} /\ job[r][s].at < clock

\* Nothing can claim the row of s at this instant.
Unclaimable(s) == row[s].started # Unclaimed \/ ~row[s].enabled \/ row[s].next > clock

NowPast == \A r \in Replicas :
    now[r] <= clock /\ (loop[r] = "polling" => now[r] = clock)

ExpectedPast == \A r \in Replicas, s \in Schedules :
    job[r][s].pc \in {"queued", "claiming"} => job[r][s].expected <= now[r]

AdvancePast == \A r \in Replicas, s \in Schedules :
    job[r][s].pc \in {"settled", "advancing"} => job[r][s].at <= clock

FiredPast == \A s \in Schedules : fired[s] <= clock

EditFuture == \A s \in Schedules :
    edit[s].open /\ edit[s].enabled => edit[s].next > clock

LateCovers == \A r \in Replicas, s \in Schedules :
    Late(r, s) => fired[s] <= job[r][s].at /\ Unclaimable(s)

LateAlone == \A r, q \in Replicas, s \in Schedules :
    Late(r, s) /\ Late(q, s) => r = q

WindowInv ==
    /\ TypeOK
    /\ NowPast /\ ExpectedPast /\ AdvancePast /\ FiredPast /\ EditFuture
    /\ LateCovers /\ LateAlone
    /\ WindowOnce

-----------------------------------------------------------------------------
(* The inductive invariant behind LiveClaimKept.                           *)

PollNow == \A r \in Replicas : loop[r] = "polling" => now[r] = clock

PollAlone == \A r, q \in Replicas : loop[r] = "polling" /\ loop[q] = "polling" => r = q

\* Where coroutines can be: listed rows while the replica polls, the others
\* inside a tick or a shutdown; and which of them have won their claim.
JobsInPlace == \A r \in Replicas, s \in Schedules :
    /\ job[r][s].pc = "stuck" => loop[r] = "polling"
    /\ job[r][s].pc \in {"queued", "claiming"} => loop[r] = "dispatching" /\ ~job[r][s].won
    /\ job[r][s].pc \in InSlot => loop[r] \in {"dispatching", "stopping"}
    /\ job[r][s].pc \in {"dispatch", "disabling"} => job[r][s].won

\* Whoever releases a claim without having won one has exposed the schedule.
OwnerlessExposed == \A r \in Replicas, s \in Schedules :
    job[r][s].pc = "advancing" /\ ~job[r][s].won => s \in exposed

\* What the poll listed as stuck still is, until its transaction commits.
StuckIsDead == \A r \in Replicas, s \in Schedules \ exposed :
    job[r][s].pc = "stuck" =>
        row[s].started # Unclaimed /\ row[s].started + StuckTimeout < clock

\* A claim about to be stamped cannot be reaped before its dispatch times out.
SlotInTime == \A r \in Replicas, s \in Schedules \ exposed :
    job[r][s].pc = "claiming" =>
        clock <= job[r][s].deadline /\ job[r][s].deadline <= now[r] + StuckTimeout

HoldIsBounded == \A r \in Replicas, s \in Schedules \ exposed :
    Holding(r, s) =>
        /\ row[s].started = now[r]
        /\ clock <= job[r][s].deadline
        /\ job[r][s].deadline <= now[r] + StuckTimeout

HoldAlone == \A r, q \in Replicas, s \in Schedules \ exposed :
    Holding(r, s) /\ Holding(q, s) => r = q

ClaimInv ==
    /\ TypeOK
    /\ PollNow /\ PollAlone /\ JobsInPlace /\ OwnerlessExposed
    /\ StuckIsDead /\ SlotInTime /\ HoldIsBounded /\ HoldAlone

-----------------------------------------------------------------------------
(* Type correctness.                                                       *)

\* NoJob and NoEdit are well typed: the cadence they carry exists.
LEMMA NullTypes == NoJob \in Job /\ NoEdit \in Edit
<1>1. AnyCadence \in Cadences
    BY CadenceAssumption DEF AnyCadence
<1> QED
    BY <1>1, BoundsAssumption DEF NoJob, NoEdit, Job, Edit, InSlot

\* What SetJob does to the table of coroutines: one entry changes.
LEMMA SetJobEffect ==
    ASSUME TypeOK, NEW r \in Replicas, NEW s \in Schedules, NEW j \in Job,
           SetJob(r, s, j)
    PROVE  /\ job' \in [Replicas -> [Schedules -> Job]]
           /\ job'[r][s] = j
           /\ \A q \in Replicas, z \in Schedules :
                q # r \/ z # s => job'[q][z] = job[q][z]
BY DEF TypeOK, SetJob

\* compute_next_run returns an instant after the one it is given.
LEMMA NextRunLater ==
    ASSUME NEW c \in Cadences, NEW t \in 0..MaxTime
    PROVE  NextRun(c, t) \in Nat /\ NextRun(c, t) > t
BY NextRunAssumption

\* What a won claim does to the table: one row is stamped.
LEMMA ClaimedFields ==
    ASSUME TypeOK, NEW s \in Schedules, NEW t \in 0..MaxTime,
           row' = [row EXCEPT ![s].started = t]
    PROVE  /\ row' \in [Schedules -> Row]
           /\ row'[s].started = t
           /\ \A z \in Schedules : z # s => row'[z] = row[z]
<1>1. [row[s] EXCEPT !.started = t] \in Row /\ [row[s] EXCEPT !.started = t].started = t
    BY BoundsAssumption DEF TypeOK, Row
<1>2. row' = [row EXCEPT ![s] = [row[s] EXCEPT !.started = t]]
    OBVIOUS
<1> QED
    BY <1>1, <1>2 DEF TypeOK

\* The fields of a row after each kind of write.
LEMMA ReleasedFields ==
    ASSUME NEW w \in Row, NEW n \in Nat
    PROVE  /\ Released(w, n) \in Row
           /\ Released(w, n).started = Unclaimed
           /\ Released(w, n).next = n
           /\ Released(w, n).enabled = w.enabled
<1> DEFINE v == [w EXCEPT !.started = Unclaimed]
           u == [v EXCEPT !.next = n]
<1>1. v \in Row /\ v.started = Unclaimed /\ v.enabled = w.enabled
    BY DEF Row, Unclaimed
<1> HIDE DEF v
<1>2. u \in Row /\ u.next = n /\ u.started = v.started /\ u.enabled = v.enabled
    BY <1>1 DEF Row
<1>3. Released(w, n) = u
    BY DEF Released, u, v
<1> QED
    BY <1>1, <1>2, <1>3

LEMMA DisabledFields ==
    ASSUME NEW w \in Row
    PROVE  /\ Disabled(w) \in Row
           /\ Disabled(w).started = Unclaimed
           /\ Disabled(w).enabled = FALSE
<1> DEFINE v == [w EXCEPT !.started = Unclaimed]
           u == [v EXCEPT !.enabled = FALSE]
<1>1. v \in Row /\ v.started = Unclaimed
    BY DEF Row, Unclaimed
<1> HIDE DEF v
<1>2. u \in Row /\ u.enabled = FALSE /\ u.started = v.started
    BY <1>1 DEF Row
<1>3. Disabled(w) = u
    BY DEF Disabled, u, v
<1> QED
    BY <1>1, <1>2, <1>3

LEMMA RetimedFields ==
    ASSUME NEW w \in Row, NEW c \in Cadences, NEW n \in Nat
    PROVE  /\ Retimed(w, c, n) \in Row
           /\ Retimed(w, c, n).started = w.started
           /\ Retimed(w, c, n).next = n
<1> DEFINE v == [w EXCEPT !.cadence = c]
           u == [v EXCEPT !.next = n]
<1>1. v \in Row /\ v.started = w.started
    BY DEF Row
<1> HIDE DEF v
<1>2. u \in Row /\ u.next = n /\ u.started = v.started
    BY <1>1 DEF Row
<1>3. Retimed(w, c, n) = u
    BY DEF Retimed, u, v
<1> QED
    BY <1>1, <1>2, <1>3

\* What update_schedule makes of a row.
LEMMA EditedFields ==
    ASSUME NEW w \in Row, NEW e \in Edit
    PROVE  /\ Edited(w, e) \in Row
           /\ Edited(w, e).started = w.started
           /\ Edited(w, e).next = e.next
           /\ Edited(w, e).enabled = e.enabled
<1> DEFINE v == Retimed(w, e.cadence, e.next)
<1>1. e.cadence \in Cadences /\ e.next \in Nat /\ e.enabled \in BOOLEAN
    BY DEF Edit
<1>2. v \in Row /\ v.started = w.started /\ v.next = e.next
    BY <1>1, RetimedFields
<1>3. Edited(w, e) = [v EXCEPT !.enabled = e.enabled]
    BY DEF Edited
<1> HIDE DEF v
<1> QED
    BY <1>1, <1>2, <1>3 DEF Row

\* The fields of a coroutine after each of its steps.
LEMMA ListedFields ==
    ASSUME TypeOK, NEW s \in Schedules, NEW n \in Nat
    PROVE  /\ ListedStuck(s) \in Job /\ ListedStuck(s).pc = "stuck"
           /\ ListedDue(n) \in Job /\ ListedDue(n).pc = "queued"
           /\ ListedDue(n).expected = n
           /\ ~ListedStuck(s).won /\ ~ListedDue(n).won
<1> DEFINE v == [NoJob EXCEPT !.pc = "stuck"]
           w == [NoJob EXCEPT !.pc = "queued"]
<1>1. row[s].cadence \in Cadences
    BY DEF TypeOK, Row
<1>2. /\ v \in Job /\ v.pc = "stuck" /\ w \in Job /\ w.pc = "queued"
      /\ ~v.won /\ ~w.won
    <2>1. ~NoJob.won
        BY DEF NoJob
    <2> QED
        BY <2>1, NullTypes DEF Job
<1> HIDE DEF v, w
<1>3. /\ [v EXCEPT !.cadence = row[s].cadence] \in Job
      /\ [v EXCEPT !.cadence = row[s].cadence].pc = "stuck"
      /\ ~[v EXCEPT !.cadence = row[s].cadence].won
    BY <1>1, <1>2 DEF Job
<1>4. /\ [w EXCEPT !.expected = n] \in Job
      /\ [w EXCEPT !.expected = n].pc = "queued"
      /\ [w EXCEPT !.expected = n].expected = n
      /\ ~[w EXCEPT !.expected = n].won
    BY <1>2 DEF Job
<1>5. /\ ListedStuck(s) = [v EXCEPT !.cadence = row[s].cadence]
      /\ ListedDue(n) = [w EXCEPT !.expected = n]
    BY DEF ListedStuck, ListedDue, v, w
<1> QED
    BY <1>3, <1>4, <1>5

LEMMA EnteredFields ==
    ASSUME NEW j \in Job, NEW d \in Nat
    PROVE  /\ Entered(j, d) \in Job /\ Entered(j, d).pc = "claiming"
           /\ Entered(j, d).deadline = d
           /\ Entered(j, d).expected = j.expected
           /\ Entered(j, d).won = j.won
<1> DEFINE v == [j EXCEPT !.pc = "claiming"]
           u == [v EXCEPT !.deadline = d]
<1>1. v \in Job /\ v.pc = "claiming" /\ v.expected = j.expected /\ v.won = j.won
    BY DEF Job, InSlot
<1> HIDE DEF v
<1>2. u \in Job /\ u.pc = v.pc /\ u.expected = v.expected /\ u.deadline = d /\ u.won = v.won
    BY <1>1 DEF Job
<1>3. Entered(j, d) = u
    BY DEF Entered, u, v
<1> QED
    BY <1>1, <1>2, <1>3

LEMMA SettledFields ==
    ASSUME NEW j \in Job, NEW t \in 0..MaxTime
    PROVE  /\ Settled(j, t) \in Job /\ Settled(j, t).pc = "settled"
           /\ Settled(j, t).at = t /\ Settled(j, t).deadline = j.deadline
           /\ Settled(j, t).won = j.won
<1> DEFINE v == [j EXCEPT !.pc = "settled"]
           u == [v EXCEPT !.at = t]
<1>1. v \in Job /\ v.pc = "settled" /\ v.deadline = j.deadline /\ v.won = j.won
    BY DEF Job, InSlot
<1> HIDE DEF v
<1>2. u \in Job /\ u.pc = v.pc /\ u.deadline = v.deadline /\ u.at = t /\ u.won = v.won
    BY <1>1 DEF Job
<1>3. Settled(j, t) = u
    BY DEF Settled, u, v
<1> QED
    BY <1>1, <1>2, <1>3

LEMMA InterruptedFields ==
    ASSUME NEW j \in Job, NEW t \in 0..MaxTime
    PROVE  /\ Interrupted(j, t) \in Job /\ Interrupted(j, t).pc = "settled"
           /\ Interrupted(j, t).at = t /\ Interrupted(j, t).deadline = j.deadline
           /\ Interrupted(j, t).won = j.won
<1> DEFINE v == Settled(j, t)
           u == [v EXCEPT !.handler = TRUE]
<1>1. v \in Job /\ v.pc = "settled" /\ v.at = t /\ v.deadline = j.deadline /\ v.won = j.won
    BY SettledFields
<1> HIDE DEF v
<1>2. u \in Job /\ u.pc = v.pc /\ u.deadline = v.deadline /\ u.at = v.at /\ u.won = v.won
    BY <1>1 DEF Job
<1>3. Interrupted(j, t) = u
    BY DEF Interrupted, u, v
<1> QED
    BY <1>1, <1>2, <1>3

LEMMA AdvancingFields ==
    ASSUME NEW j \in Job, NEW c \in Cadences
    PROVE  /\ Advancing(j, c) \in Job /\ Advancing(j, c).pc = "advancing"
           /\ Advancing(j, c).at = j.at /\ Advancing(j, c).deadline = j.deadline
           /\ Advancing(j, c).won = j.won
<1> DEFINE v == [j EXCEPT !.pc = "advancing"]
           u == [v EXCEPT !.cadence = c]
<1>1. v \in Job /\ v.pc = "advancing" /\ v.deadline = j.deadline /\ v.at = j.at /\ v.won = j.won
    BY DEF Job, InSlot
<1> HIDE DEF v
<1>2. u \in Job /\ u.pc = v.pc /\ u.deadline = v.deadline /\ u.at = v.at /\ u.won = v.won
    BY <1>1 DEF Job
<1>3. Advancing(j, c) = u
    BY DEF Advancing, u, v
<1> QED
    BY <1>1, <1>2, <1>3

\* The steps of a coroutine that change nothing but its position.
LEMMA MovedFields ==
    ASSUME NEW j \in Job, NEW v, v = [j EXCEPT !.pc = "disabling"]
    PROVE  v \in Job /\ v.pc = "disabling" /\ v.deadline = j.deadline /\ v.won = j.won
BY DEF Job, InSlot

LEMMA WinningFields ==
    ASSUME NEW j \in Job
    PROVE  /\ Winning(j) \in Job /\ Winning(j).pc = "dispatch" /\ Winning(j).won
           /\ Winning(j).deadline = j.deadline
<1> DEFINE v == [j EXCEPT !.pc = "dispatch"]
           u == [v EXCEPT !.won = TRUE]
<1>1. v \in Job /\ v.pc = "dispatch" /\ v.deadline = j.deadline
    BY DEF Job, InSlot
<1> HIDE DEF v
<1>2. u \in Job /\ u.pc = v.pc /\ u.deadline = v.deadline /\ u.won = TRUE
    BY <1>1 DEF Job
<1>3. Winning(j) = u
    BY DEF Winning, u, v
<1> QED
    BY <1>1, <1>2, <1>3

\* A reaped row is released, any other is left alone.
LEMMA ReapedFields ==
    ASSUME TypeOK, NEW r \in Replicas, NEW s \in Schedules
    PROVE  /\ Reaped(r, s) \in Row
           /\ \/ Reaped(r, s) = row[s]
              \/ /\ job[r][s].pc = "stuck"
                 /\ row[s].started # Unclaimed
                 /\ Reaped(r, s).started = Unclaimed
                 /\ Reaped(r, s).next > now[r]
<1>1. /\ NextRun(job[r][s].cadence, now[r]) \in Nat
      /\ NextRun(job[r][s].cadence, now[r]) > now[r]
    BY NextRunLater DEF TypeOK, Job
<1>2. row[s] \in Row
    BY DEF TypeOK
<1> QED
    BY <1>1, <1>2, ReleasedFields DEF Reaped

LEMMA InitType == Init => TypeOK
<1> SUFFICES ASSUME Init PROVE TypeOK
    OBVIOUS
<1>1. PICK c \in [Schedules -> Cadences] :
        row = [s \in Schedules |-> [enabled |-> TRUE, cadence |-> c[s],
                                    next |-> NextRun(c[s], 0), started |-> Unclaimed]]
    BY DEF Init
<1>2. \A s \in Schedules : NextRun(c[s], 0) \in Nat
    BY NextRunLater, BoundsAssumption
<1>3. row \in [Schedules -> Row]
    BY <1>1, <1>2 DEF Row, Unclaimed
<1> QED
    BY <1>3, NullTypes, BoundsAssumption DEF Init, TypeOK

LEMMA PollType ==
    ASSUME TypeOK, NEW r \in Replicas,
           PollBegin(r) \/ PollEnd(r) \/ PollFails(r) \/ TickEnd(r)
    PROVE  TypeOK'
<1>1. CASE PollBegin(r)
    <2>1. \A s \in Schedules : ListedStuck(s) \in Job
        BY ListedFields
    <2> QED
        BY <1>1, <2>1, NullTypes DEF PollBegin, TypeOK, environment
<1>2. CASE PollEnd(r)
    <2>1. \A s \in Schedules : Reaped(r, s) \in Row
        BY ReapedFields
    <2>2. \A s \in Schedules : ListedDue(Reaped(r, s).next) \in Job
        BY <2>1, ListedFields DEF Row
    <2>3. job' \in [Replicas -> [Schedules -> Job]] /\ row' \in [Schedules -> Row]
        BY <1>2, <2>1, <2>2, NullTypes DEF PollEnd, TypeOK
    <2>4. loop' \in [Replicas -> {"down", "sleeping", "polling", "dispatching", "stopping"}]
        BY <1>2 DEF PollEnd, TypeOK
    <2>5. 0 \in 0..MaxTime
        BY BoundsAssumption
    <2>6. now' \in [Replicas -> 0..MaxTime]
        BY <1>2, <2>5 DEF PollEnd, TypeOK
    <2> QED
        BY <1>2, <2>3, <2>4, <2>6 DEF PollEnd, TypeOK, environment
<1>3. CASE PollFails(r)
    BY <1>3, NullTypes, BoundsAssumption DEF PollFails, TypeOK, environment
<1>4. CASE TickEnd(r)
    BY <1>4, BoundsAssumption DEF TickEnd, TypeOK, environment
<1> QED
    BY <1>1, <1>2, <1>3, <1>4

LEMMA JobType ==
    ASSUME TypeOK, NEW r \in Replicas, NEW s \in Schedules,
           \/ JobStep(r, s) \/ DispatchEnds(r, s)
           \/ Unschedulable(r, s) \/ WriteFails(r, s)
    PROVE  TypeOK'
<1>0. /\ job[r][s] \in Job /\ row[s] \in Row
      /\ clock \in 0..MaxTime /\ now[r] \in 0..MaxTime
    BY DEF TypeOK
<1>1. CASE EnterSlot(r, s)
    <2>1. clock + DispatchTimeout \in Nat
        BY <1>0, SettingsAssumption, BoundsAssumption
    <2>2. Entered(job[r][s], clock + DispatchTimeout) \in Job
        BY <1>0, <2>1, EnteredFields
    <2> QED
        BY <1>1, <2>2, SetJobEffect DEF EnterSlot, TypeOK, environment
<1>2. CASE ClaimWon(r, s)
    <2>0. Winning(job[r][s]) \in Job /\ job[r][s].expected \in Int
        BY <1>0, WinningFields DEF Job
    <2>1. Settled(Winning(job[r][s]), now[r]) \in Job
        BY <1>0, <2>0, SettledFields
    <2>2. job' \in [Replicas -> [Schedules -> Job]]
        BY <1>2, <2>0, <2>1, SetJobEffect DEF ClaimWon
    <2>3. row' \in [Schedules -> Row]
        BY <1>0, <1>2, ClaimedFields DEF ClaimWon, TypeOK
    <2>4. fired' \in [Schedules -> Int]
        BY <1>2, <2>0 DEF ClaimWon, TypeOK
    <2> QED
        BY <1>2, <2>2, <2>3, <2>4 DEF ClaimWon, TypeOK, environment
<1>3. CASE ClaimLost(r, s) \/ WriteFails(r, s)
    BY <1>3, NullTypes, SetJobEffect DEF ClaimLost, WriteFails, TypeOK, environment
<1>4. CASE DispatchEnds(r, s) \/ Unschedulable(r, s) \/ DispatchTimesOut(r, s)
    <2>1. /\ Settled(job[r][s], clock) \in Job
          /\ Interrupted(job[r][s], clock) \in Job
          /\ [job[r][s] EXCEPT !.pc = "disabling"] \in Job
        BY <1>0, SettledFields, InterruptedFields, MovedFields
    <2> QED
        BY <1>4, <2>1, SetJobEffect
        DEF DispatchEnds, Unschedulable, DispatchTimesOut, TypeOK, environment
<1>5. CASE ReleaseRead(r, s)
    <2>1. Advancing(job[r][s], row[s].cadence) \in Job
        BY <1>0, AdvancingFields DEF Row
    <2> QED
        BY <1>5, <2>1, SetJobEffect DEF ReleaseRead, TypeOK, environment
<1>6. CASE ReleaseWrite(r, s)
    <2>1. Released(row[s], NextRun(job[r][s].cadence, job[r][s].at)) \in Row
        BY <1>0, NextRunLater, ReleasedFields DEF Job
    <2> QED
        BY <1>6, <2>1, NullTypes, SetJobEffect DEF ReleaseWrite, TypeOK, environment
<1>7. CASE DisableWrite(r, s)
    <2>1. Disabled(row[s]) \in Row
        BY <1>0, DisabledFields
    <2> QED
        BY <1>7, <2>1, NullTypes, SetJobEffect DEF DisableWrite, TypeOK, environment
<1> QED
    BY <1>1, <1>2, <1>3, <1>4, <1>5, <1>6, <1>7 DEF JobStep

LEMMA EnvironmentType ==
    ASSUME TypeOK, Environment \/ Advance \/ \E r \in Replicas : Exit(r)
    PROVE  TypeOK'
<1>1. CASE \E r \in Replicas : Stop(r)
    <2>1. PICK r \in Replicas : Stop(r)
        BY <1>1
    <2>2. \A s \in Schedules : Cancelled(job[r][s]) \in Job
        BY NullTypes, InterruptedFields DEF TypeOK, Cancelled
    <2> QED
        BY <2>1, <2>2, BoundsAssumption DEF Stop, TypeOK
<1>2. CASE \E r \in Replicas : Crash(r)
    BY <1>2, NullTypes, BoundsAssumption DEF Crash, TypeOK
<1>3. CASE \E r \in Replicas : Start(r) \/ Exit(r)
    BY <1>3, BoundsAssumption DEF Start, Exit, TypeOK, environment
<1>4. CASE \E s \in Schedules : EnableRead(s) \/ DisableRead(s)
                \/ \E c \in Cadences : UpsertRead(s, c)
    <2>1. PICK s \in Schedules, e \in Edit : OpenEdit(s, e)
        BY <1>4, NextRunLater DEF EnableRead, DisableRead, UpsertRead, TypeOK, Row, Edit
    <2> QED
        BY <2>1, BoundsAssumption DEF OpenEdit, TypeOK
<1>5. CASE \E s \in Schedules : EditWrite(s)
    <2>1. PICK s \in Schedules : EditWrite(s)
        BY <1>5
    <2>2. Edited(row[s], edit[s]) \in Row
        BY EditedFields DEF TypeOK
    <2> QED
        BY <2>1, <2>2, NullTypes DEF EditWrite, TypeOK
<1>6. CASE \E s \in Schedules, c \in Cadences : DemandRetimes(s, c)
    <2>1. PICK s \in Schedules, c \in Cadences : DemandRetimes(s, c)
        BY <1>6
    <2>2. Retimed(row[s], c, NextRun(c, clock)) \in Row
        BY NextRunLater, RetimedFields DEF TypeOK
    <2> QED
        BY <2>1, <2>2, BoundsAssumption DEF DemandRetimes, TypeOK
<1>7. CASE Advance
    BY <1>7, BoundsAssumption DEF Advance, TypeOK, environment
<1> QED
    BY <1>1, <1>2, <1>3, <1>4, <1>5, <1>6, <1>7 DEF Environment

LEMMA NextType == TypeOK /\ [Next]_vars => TypeOK'
<1>1. TypeOK /\ Scheduler => TypeOK'
    BY PollType, JobType, EnvironmentType DEF Scheduler, Poll
<1>2. TypeOK /\ UNCHANGED vars => TypeOK'
    BY DEF vars, TypeOK
<1> QED
    BY <1>1, <1>2, EnvironmentType DEF Next

\* Every variable keeps its type: in particular a fire time is never null and
\* never before the epoch, whatever is reaped, released, edited or re-timed.
THEOREM TypeCorrect == Spec => []TypeOK
BY InitType, NextType, PTL DEF Spec

-----------------------------------------------------------------------------
(* A fire window is claimed at most once.                                  *)

LEMMA InitWindow == Init => WindowInv
<1> SUFFICES ASSUME Init PROVE WindowInv
    OBVIOUS
<1>1. TypeOK
    BY InitType
<1>2. PICK c \in [Schedules -> Cadences] :
        row = [s \in Schedules |-> [enabled |-> TRUE, cadence |-> c[s],
                                    next |-> NextRun(c[s], 0), started |-> Unclaimed]]
    BY DEF Init
<1>3. \A s \in Schedules : row[s].next = NextRun(c[s], 0) /\ NextRun(c[s], 0) > 0
    BY <1>2, NextRunLater, BoundsAssumption
<1>4. WindowOnce /\ FiredPast
    BY <1>1, <1>3 DEF WindowOnce, FiredPast, Init, TypeOK, Row
<1>5. EditFuture
    BY DEF EditFuture, NoEdit, Init
<1>6. NowPast
    BY DEF NowPast, Init
<1>7. \A r \in Replicas, s \in Schedules : job[r][s].pc = "none"
    BY DEF Init, NoJob
<1> QED
    BY <1>1, <1>4, <1>5, <1>6, <1>7
    DEF WindowInv, ExpectedPast, AdvancePast, LateCovers, LateAlone, Late

\* A step of one coroutine that writes neither the row nor `fired` and whose
\* next position is harmless: not late, and not waiting for a future window.
LEMMA WindowQuietStep ==
    ASSUME WindowInv, TypeOK', NEW r \in Replicas, NEW s \in Schedules, NEW j \in Job,
           SetJob(r, s, j), UNCHANGED <<clock, row, loop, now, fired, edit>>,
           j.pc \in {"settled", "advancing"} =>
               j.at = clock \/ (job[r][s].pc = "settled" /\ j.at = job[r][s].at),
           j.pc \in {"queued", "claiming"} => j.expected <= now[r]
    PROVE  WindowInv'
<1>1. /\ job'[r][s] = j
      /\ \A q \in Replicas, z \in Schedules : q # r \/ z # s => job'[q][z] = job[q][z]
    BY SetJobEffect DEF WindowInv
<1>2. clock \in Int /\ j.at \in Int
    BY DEF WindowInv, TypeOK, Job
<1>3. NowPast' /\ FiredPast' /\ EditFuture' /\ WindowOnce'
    BY DEF WindowInv, NowPast, FiredPast, EditFuture, WindowOnce
<1>4. ExpectedPast' /\ AdvancePast'
    BY <1>1, <1>2 DEF WindowInv, ExpectedPast, AdvancePast
<1>5. \A q \in Replicas, z \in Schedules :
        Late(q, z)' => Late(q, z) /\ job'[q][z].at = job[q][z].at
    BY <1>1, <1>2 DEF Late
<1>6. LateCovers'
    BY <1>5 DEF WindowInv, LateCovers, Unclaimable
<1>7. LateAlone'
    BY <1>5 DEF WindowInv, LateAlone
<1> QED
    BY <1>3, <1>4, <1>6, <1>7 DEF WindowInv

\* A write to one row, by a coroutine that ends or by an editor, that leaves
\* the row claimed, disabled or pointing past the last window fired, and past
\* the clock if somebody else's release of it is late.
LEMMA WindowRowWrite ==
    ASSUME WindowInv, TypeOK', NEW s \in Schedules, NEW w \in Row,
           row' = [row EXCEPT ![s] = w],
           UNCHANGED <<clock, loop, now, fired>>,
           w.enabled /\ w.started = Unclaimed => fired[s] < w.next,
           \A q \in Replicas, z \in Schedules :
               job'[q][z] = job[q][z] \/ job'[q][z].pc = "none",
           \A q \in Replicas : Late(q, s)' =>
               w.started # Unclaimed \/ ~w.enabled \/ w.next > clock,
           \A z \in Schedules : edit'[z] = edit[z] \/ ~edit'[z].open
    PROVE  WindowInv'
<1>1. row'[s] = w /\ \A z \in Schedules : z # s => row'[z] = row[z]
    BY DEF WindowInv, TypeOK
<1>2. NowPast' /\ FiredPast' /\ EditFuture'
    BY DEF WindowInv, NowPast, FiredPast, EditFuture
<1>3. WindowOnce'
    BY <1>1 DEF WindowInv, WindowOnce
<1>4. ExpectedPast' /\ AdvancePast'
    BY DEF WindowInv, ExpectedPast, AdvancePast
<1>5. \A q \in Replicas, z \in Schedules :
        Late(q, z)' => Late(q, z) /\ job'[q][z] = job[q][z]
    BY DEF Late
<1>6. LateCovers'
    BY <1>1, <1>5 DEF WindowInv, LateCovers, Unclaimable
<1>7. LateAlone'
    BY <1>5 DEF WindowInv, LateAlone
<1> QED
    BY <1>2, <1>3, <1>4, <1>6, <1>7 DEF WindowInv

LEMMA WindowClaim ==
    ASSUME WindowInv, NEW r \in Replicas, NEW s \in Schedules, ClaimWon(r, s)
    PROVE  WindowInv'
<1>0. /\ TypeOK /\ TypeOK'
      /\ job[r][s] \in Job /\ clock \in 0..MaxTime /\ now[r] \in 0..MaxTime
      /\ row[s] \in Row
    BY JobType DEF WindowInv, JobStep, TypeOK
<1>1. /\ row[s].enabled /\ row[s].started = Unclaimed /\ row[s].next = job[r][s].expected
      /\ job[r][s].expected <= now[r] /\ now[r] <= clock
    BY DEF ClaimWon, Claimable, WindowInv, ExpectedPast, NowPast
<1>2. /\ row'[s].started = now[r]
      /\ \A z \in Schedules : z # s => row'[z] = row[z]
    BY <1>0, ClaimedFields DEF ClaimWon
<1>3. /\ fired'[s] = job[r][s].expected
      /\ \A z \in Schedules : z # s => fired'[z] = fired[z]
    BY <1>0 DEF ClaimWon, TypeOK
<1>4. PICK j \in Job : /\ SetJob(r, s, j)
                       /\ j.pc = "dispatch" \/ (j.pc = "settled" /\ j.at = now[r])
    BY <1>0, SettledFields, WinningFields DEF ClaimWon
<1>5. /\ job'[r][s] = j
      /\ \A q \in Replicas, z \in Schedules : q # r \/ z # s => job'[q][z] = job[q][z]
    BY <1>0, <1>4, SetJobEffect
<1>6. UNCHANGED <<clock, loop, now, edit>>
    BY DEF ClaimWon, environment
<1>7. \A q \in Replicas : ~Late(q, s)
    BY <1>0, <1>1 DEF WindowInv, LateCovers, Unclaimable, Row
<1>8. \A q \in Replicas, z \in Schedules :
        Late(q, z)' => \/ q = r /\ z = s
                       \/ z # s /\ Late(q, z) /\ job'[q][z] = job[q][z]
    BY <1>5, <1>6, <1>7 DEF Late
<1>9. NowPast' /\ EditFuture'
    BY <1>6 DEF WindowInv, NowPast, EditFuture
<1>10. FiredPast'
    BY <1>0, <1>1, <1>3, <1>6 DEF WindowInv, FiredPast, Job
<1>11. WindowOnce'
    BY <1>0, <1>2, <1>3 DEF WindowInv, WindowOnce, Unclaimed
<1>12. ExpectedPast' /\ AdvancePast'
    BY <1>1, <1>4, <1>5, <1>6 DEF WindowInv, ExpectedPast, AdvancePast
<1>13. LateCovers'
    <2> SUFFICES ASSUME NEW q \in Replicas, NEW z \in Schedules, Late(q, z)'
                 PROVE  fired'[z] <= job'[q][z].at /\ Unclaimable(z)'
        BY DEF LateCovers
    <2>1. CASE q = r /\ z = s
        <3>1. j.pc = "settled" /\ j.at = now[r]
            BY <1>4, <1>5, <2>1 DEF Late
        <3> QED
            BY <1>0, <1>1, <1>2, <1>3, <1>5, <2>1, <3>1 DEF Unclaimable, Unclaimed
    <2>2. CASE ~(q = r /\ z = s)
        BY <1>2, <1>3, <1>6, <1>8, <2>2 DEF WindowInv, LateCovers, Unclaimable
    <2> QED
        BY <2>1, <2>2
<1>14. LateAlone'
    BY <1>8 DEF WindowInv, LateAlone
<1> QED
    BY <1>0, <1>9, <1>10, <1>11, <1>12, <1>13, <1>14 DEF WindowInv

LEMMA WindowRelease ==
    ASSUME WindowInv, NEW r \in Replicas, NEW s \in Schedules, ReleaseWrite(r, s)
    PROVE  WindowInv'
<1>0. /\ TypeOK /\ TypeOK' /\ row[s] \in Row /\ job[r][s] \in Job
      /\ clock \in 0..MaxTime /\ fired[s] \in Int
    BY JobType DEF WindowInv, JobStep, TypeOK
<1> DEFINE n == NextRun(job[r][s].cadence, job[r][s].at)
<1>1. n \in Nat /\ n > job[r][s].at
    BY <1>0, NextRunLater DEF Job
<1>2. /\ job'[r][s] = NoJob
      /\ \A q \in Replicas, z \in Schedules : q # r \/ z # s => job'[q][z] = job[q][z]
    BY <1>0, NullTypes, SetJobEffect DEF ReleaseWrite
<1>3. \A q \in Replicas, z \in Schedules :
        job'[q][z] = job[q][z] \/ job'[q][z].pc = "none"
    BY <1>2 DEF NoJob
<1>4. UNCHANGED <<clock, loop, now, fired, edit>>
    BY DEF ReleaseWrite, environment
<1>5. CASE row[s].started = Unclaimed
    <2>1. row' = [row EXCEPT ![s] = row[s]]
        BY <1>0, <1>5 DEF ReleaseWrite, TypeOK
    <2>2. row[s].enabled => fired[s] < row[s].next
        BY <1>5 DEF WindowInv, WindowOnce
    <2>3. \A q \in Replicas : Late(q, s)' => ~row[s].enabled \/ row[s].next > clock
        BY <1>3, <1>4, <1>5 DEF Late, WindowInv, LateCovers, Unclaimable
    <2> QED
        BY <1>0, <1>3, <1>4, <2>1, <2>2, <2>3, WindowRowWrite
<1>6. CASE row[s].started # Unclaimed
    <2>1. row' = [row EXCEPT ![s] = Released(row[s], n)]
        BY <1>6 DEF ReleaseWrite
    <2>2. Released(row[s], n) \in Row /\ Released(row[s], n).next = n
        BY <1>0, <1>1, ReleasedFields
    <2>3. job[r][s].at <= clock /\ job[r][s].pc = "advancing" /\ job[r][s].at \in Int
        BY <1>0 DEF ReleaseWrite, WindowInv, AdvancePast, Job
    <2>4. fired[s] <= job[r][s].at
        BY <1>0, <2>3 DEF WindowInv, FiredPast, LateCovers, Late
    <2>5. fired[s] < n
        BY <1>0, <1>1, <2>3, <2>4
    <2>6. \A q \in Replicas : Late(q, s)' => n > clock
        <3> SUFFICES ASSUME NEW q \in Replicas, Late(q, s)' PROVE n > clock
            OBVIOUS
        <3>1. q # r /\ Late(q, s)
            BY <1>2, <1>4 DEF Late, NoJob
        <3>2. ~Late(r, s)
            BY <3>1 DEF WindowInv, LateAlone
        <3> QED
            BY <1>0, <1>1, <2>3, <3>2 DEF Late
    <2> QED
        BY <1>0, <1>3, <1>4, <2>1, <2>2, <2>5, <2>6, WindowRowWrite
<1> QED
    BY <1>5, <1>6

LEMMA WindowDisable ==
    ASSUME WindowInv, NEW r \in Replicas, NEW s \in Schedules, DisableWrite(r, s)
    PROVE  WindowInv'
<1>0. TypeOK /\ TypeOK' /\ row[s] \in Row
    BY JobType DEF WindowInv, JobStep, TypeOK
<1>1. \A q \in Replicas, z \in Schedules :
        job'[q][z] = job[q][z] \/ job'[q][z].pc = "none"
    BY <1>0, NullTypes, SetJobEffect DEF DisableWrite, NoJob
<1>2. UNCHANGED <<clock, loop, now, fired, edit>>
    BY DEF DisableWrite, environment
<1>3. CASE row[s].started = Unclaimed
    <2>1. row' = [row EXCEPT ![s] = row[s]]
        BY <1>0, <1>3 DEF DisableWrite, TypeOK
    <2>2. row[s].enabled => fired[s] < row[s].next
        BY <1>3 DEF WindowInv, WindowOnce
    <2>3. \A q \in Replicas : Late(q, s)' => ~row[s].enabled \/ row[s].next > clock
        BY <1>1, <1>2, <1>3 DEF Late, WindowInv, LateCovers, Unclaimable
    <2> QED
        BY <1>0, <1>1, <1>2, <2>1, <2>2, <2>3, WindowRowWrite
<1>4. CASE row[s].started # Unclaimed
    <2>1. row' = [row EXCEPT ![s] = Disabled(row[s])]
        BY <1>4 DEF DisableWrite
    <2> QED
        BY <1>0, <1>1, <1>2, <2>1, DisabledFields, WindowRowWrite
<1> QED
    BY <1>3, <1>4

LEMMA WindowJob ==
    ASSUME WindowInv, NEW r \in Replicas, NEW s \in Schedules,
           \/ JobStep(r, s) \/ DispatchEnds(r, s)
           \/ Unschedulable(r, s) \/ WriteFails(r, s)
    PROVE  WindowInv'
<1>0. /\ TypeOK /\ TypeOK' /\ job[r][s] \in Job /\ row[s] \in Row
      /\ clock \in 0..MaxTime
    BY JobType DEF WindowInv, TypeOK
<1>1. CASE EnterSlot(r, s)
    <2>1. clock + DispatchTimeout \in Nat
        BY <1>0, SettingsAssumption, BoundsAssumption
    <2>2. job[r][s].expected <= now[r]
        BY <1>1 DEF EnterSlot, WindowInv, ExpectedPast
    <2> QED
        BY <1>0, <1>1, <2>1, <2>2, EnteredFields, WindowQuietStep DEF EnterSlot, environment
<1>2. CASE ClaimLost(r, s) \/ WriteFails(r, s)
    BY <1>0, <1>2, NullTypes, WindowQuietStep DEF ClaimLost, WriteFails, NoJob, environment
<1>3. CASE DispatchEnds(r, s)
    BY <1>0, <1>3, SettledFields, WindowQuietStep DEF DispatchEnds, environment
<1>4. CASE Unschedulable(r, s)
    BY <1>0, <1>4, MovedFields, WindowQuietStep DEF Unschedulable, environment
<1>5. CASE ReleaseRead(r, s)
    <2>1. row[s].cadence \in Cadences
        BY <1>0 DEF Row
    <2> QED
        BY <1>0, <1>5, <2>1, AdvancingFields, WindowQuietStep DEF ReleaseRead, environment
<1>6. CASE DispatchTimesOut(r, s)
    BY <1>0, <1>6, InterruptedFields, WindowQuietStep DEF DispatchTimesOut, environment
<1> QED
    BY <1>1, <1>2, <1>3, <1>4, <1>5, <1>6, WindowClaim, WindowRelease, WindowDisable
    DEF JobStep

LEMMA WindowPoll ==
    ASSUME WindowInv, NEW r \in Replicas,
           PollBegin(r) \/ PollEnd(r) \/ PollFails(r) \/ TickEnd(r)
    PROVE  WindowInv'
<1>0. TypeOK /\ TypeOK' /\ clock \in 0..MaxTime
    BY PollType DEF WindowInv, TypeOK
<1>1. UNCHANGED <<clock, fired, edit>>
    BY DEF PollBegin, PollEnd, PollFails, TickEnd, environment
<1>2. FiredPast' /\ EditFuture'
    BY <1>1 DEF WindowInv, FiredPast, EditFuture
<1>3. \A q \in Replicas, z \in Schedules :
        q # r => job'[q][z] = job[q][z] /\ now'[q] = now[q]
    BY <1>0 DEF TypeOK, PollBegin, PollEnd, PollFails, TickEnd
<1>4. \A z \in Schedules :
        \/ job'[r][z].pc = "none" \/ job'[r][z].pc = "stuck"
        \/ /\ PollEnd(r) /\ Due(r, z) /\ loop' = [loop EXCEPT ![r] = "dispatching"]
           /\ now' = now /\ job'[r][z] = ListedDue(Reaped(r, z).next)
    <2>1. CASE PollBegin(r)
        BY <1>0, <2>1, BoundsAssumption, ListedFields DEF PollBegin, TypeOK, NoJob
    <2>2. CASE PollEnd(r)
        BY <1>0, <2>2 DEF PollEnd, TypeOK, NoJob
    <2>3. CASE PollFails(r)
        BY <1>0, <2>3 DEF PollFails, TypeOK, NoJob
    <2>4. CASE TickEnd(r)
        BY <1>0, <2>4 DEF TickEnd, TypeOK, NoJob
    <2> QED
        BY <2>1, <2>2, <2>3, <2>4
<1>5. NowPast'
    <2>1. \A q \in Replicas : q # r => loop'[q] = loop[q] /\ now'[q] = now[q]
        BY <1>0 DEF TypeOK, PollBegin, PollEnd, PollFails, TickEnd
    <2>2. now'[r] <= clock
        BY <1>0 DEF TypeOK, PollBegin, PollEnd, PollFails, TickEnd, WindowInv, NowPast
    <2>3. loop'[r] = "polling" => now'[r] = clock
        BY <1>0 DEF TypeOK, PollBegin, PollEnd, PollFails, TickEnd
    <2> SUFFICES ASSUME NEW q \in Replicas
                 PROVE  (now[q] <= clock /\ (loop[q] = "polling" => now[q] = clock))'
        BY DEF NowPast
    <2>4. CASE q = r
        BY <1>1, <2>2, <2>3, <2>4
    <2>5. CASE q # r
        BY <1>1, <2>1, <2>5 DEF WindowInv, NowPast
    <2> QED
        BY <2>4, <2>5
<1>6. ExpectedPast'
    <2> SUFFICES ASSUME NEW q \in Replicas, NEW z \in Schedules,
                        job'[q][z].pc \in {"queued", "claiming"}
                 PROVE  job'[q][z].expected <= now'[q]
        BY DEF ExpectedPast
    <2>1. CASE q # r
        BY <1>3, <2>1 DEF WindowInv, ExpectedPast
    <2>2. CASE q = r
        <3>1. /\ Due(r, z) /\ now' = now
              /\ job'[r][z] = ListedDue(Reaped(r, z).next)
            BY <1>4, <2>2
        <3>2. Reaped(r, z).next \in Nat
            BY <1>0, ReapedFields DEF Row
        <3> QED
            BY <1>0, <2>2, <3>1, <3>2, ListedFields DEF Due
    <2> QED
        BY <2>1, <2>2
<1>7. \A q \in Replicas, z \in Schedules :
        job'[q][z].pc \in {"settled", "advancing"} => q # r /\ job'[q][z] = job[q][z]
    <2>1. \A z \in Schedules, n \in Nat : ListedDue(n).pc = "queued"
        BY <1>0, ListedFields
    <2>2. \A z \in Schedules : Reaped(r, z).next \in Nat
        BY <1>0, ReapedFields DEF Row
    <2> QED
        BY <1>3, <1>4, <2>1, <2>2
<1>8. AdvancePast' /\ LateAlone'
    BY <1>1, <1>7 DEF WindowInv, AdvancePast, LateAlone, Late
<1>9. \A z \in Schedules :
        \/ row'[z] = row[z]
        \/ row'[z].started = Unclaimed /\ row'[z].next > clock
    <2>1. CASE PollEnd(r)
        <3>1. now[r] = clock
            BY <2>1 DEF PollEnd, WindowInv, NowPast
        <3> QED
            BY <1>0, <2>1, <3>1, ReapedFields DEF PollEnd
    <2>2. CASE ~PollEnd(r)
        BY <2>2 DEF PollBegin, PollFails, TickEnd
    <2> QED
        BY <2>1, <2>2
<1>10. WindowOnce'
    <2> SUFFICES ASSUME NEW z \in Schedules, row'[z].enabled, row'[z].started = Unclaimed
                 PROVE  fired[z] < row'[z].next
        BY <1>1 DEF WindowOnce
    <2>1. CASE row'[z] = row[z]
        BY <2>1 DEF WindowInv, WindowOnce
    <2>2. CASE row'[z].next > clock
        BY <1>0, <2>2 DEF WindowInv, FiredPast, TypeOK, Row
    <2> QED
        BY <1>9, <2>1, <2>2
<1>11. LateCovers'
    BY <1>1, <1>7, <1>9 DEF WindowInv, LateCovers, Late, Unclaimable
<1> QED
    BY <1>0, <1>2, <1>5, <1>6, <1>8, <1>10, <1>11 DEF WindowInv

LEMMA WindowFault ==
    ASSUME WindowInv, NEW r \in Replicas, Stop(r) \/ Exit(r) \/ Crash(r) \/ Start(r)
    PROVE  WindowInv'
<1>0. TypeOK /\ TypeOK' /\ clock \in 0..MaxTime
    BY EnvironmentType DEF WindowInv, TypeOK, Environment
<1>1. UNCHANGED <<clock, row, fired, edit>>
    BY DEF Stop, Exit, Crash, Start, environment
<1>2. FiredPast' /\ EditFuture' /\ WindowOnce'
    BY <1>1 DEF WindowInv, FiredPast, EditFuture, WindowOnce
<1>3. \A q \in Replicas, z \in Schedules :
        \/ job'[q][z] = job[q][z] /\ now'[q] = now[q]
        \/ job'[q][z].pc = "none"
        \/ job'[q][z].pc = "settled" /\ job'[q][z].at = clock
    <2>1. CASE Stop(r)
        <3>1. \A z \in Schedules : \/ Cancelled(job[r][z]).pc = "none"
                                  \/ /\ Cancelled(job[r][z]).pc = "settled"
                                     /\ Cancelled(job[r][z]).at = clock
            BY <1>0, InterruptedFields DEF TypeOK, Cancelled, NoJob
        <3> QED
            BY <1>0, <2>1, <3>1 DEF Stop, TypeOK
    <2>2. CASE Crash(r)
        BY <1>0, <2>2 DEF Crash, TypeOK, NoJob
    <2>3. CASE Exit(r)
        BY <1>0, <2>3 DEF Exit, TypeOK, NoJob
    <2>4. CASE Start(r)
        BY <2>4 DEF Start
    <2> QED
        BY <2>1, <2>2, <2>3, <2>4
<1>4. NowPast'
    <2>1. \A q \in Replicas : loop'[q] = "polling" => loop[q] = "polling" /\ q # r
        BY <1>0 DEF TypeOK, Stop, Exit, Crash, Start
    <2>2. \A q \in Replicas : now'[q] = now[q] \/ (q = r /\ now'[q] = 0)
        BY <1>0 DEF TypeOK, Stop, Exit, Crash, Start
    <2> QED
        BY <1>0, <1>1, <2>1, <2>2 DEF WindowInv, NowPast
<1>5. ExpectedPast' /\ AdvancePast'
    BY <1>0, <1>1, <1>3 DEF WindowInv, ExpectedPast, AdvancePast
<1>6. \A q \in Replicas, z \in Schedules :
        Late(q, z)' => Late(q, z) /\ job'[q][z] = job[q][z]
    BY <1>0, <1>1, <1>3 DEF Late
<1>7. LateCovers' /\ LateAlone'
    BY <1>1, <1>6 DEF WindowInv, LateCovers, LateAlone, Unclaimable
<1> QED
    BY <1>0, <1>2, <1>4, <1>5, <1>7 DEF WindowInv

LEMMA WindowEdit ==
    ASSUME WindowInv, NEW s \in Schedules,
           \/ EnableRead(s) \/ DisableRead(s) \/ EditWrite(s)
           \/ \E c \in Cadences : UpsertRead(s, c) \/ DemandRetimes(s, c)
    PROVE  WindowInv'
<1>0. /\ TypeOK /\ TypeOK' /\ clock \in 0..MaxTime
      /\ row[s] \in Row /\ edit[s] \in Edit /\ fired[s] \in Int
    BY EnvironmentType DEF WindowInv, TypeOK, Environment
<1>1. CASE EnableRead(s) \/ DisableRead(s) \/ \E c \in Cadences : UpsertRead(s, c)
    <2>1. \A c \in Cadences : NextRun(c, clock) \in Nat /\ NextRun(c, clock) > clock
        BY <1>0, NextRunLater
    <2>2. PICK e \in Edit : OpenEdit(s, e) /\ (e.enabled => e.next > clock)
        <3>1. CASE EnableRead(s)
            <4> DEFINE e == [open |-> TRUE, enabled |-> TRUE, cadence |-> row[s].cadence,
                             next |-> NextRun(row[s].cadence, clock)]
            <4>1. e \in Edit /\ e.next > clock
                BY <1>0, <2>1 DEF Row, Edit
            <4> QED
                BY <3>1, <4>1 DEF EnableRead
        <3>2. CASE DisableRead(s)
            <4> DEFINE e == [open |-> TRUE, enabled |-> FALSE, cadence |-> row[s].cadence,
                             next |-> row[s].next]
            <4>1. e \in Edit /\ ~e.enabled
                BY <1>0 DEF Row, Edit
            <4> QED
                BY <3>2, <4>1 DEF DisableRead
        <3>3. CASE \E c \in Cadences : UpsertRead(s, c)
            <4>1. PICK c \in Cadences : UpsertRead(s, c)
                BY <3>3
            <4> DEFINE e == [open |-> TRUE, enabled |-> row[s].enabled, cadence |-> c,
                             next |-> NextRun(c, clock)]
            <4>2. e \in Edit /\ e.next > clock
                BY <1>0, <2>1 DEF Row, Edit
            <4> QED
                BY <4>1, <4>2 DEF UpsertRead
        <3> QED
            BY <1>1, <3>1, <3>2, <3>3
    <2>3. UNCHANGED <<clock, row, loop, now, job, fired>>
        BY <2>2 DEF OpenEdit
    <2>4. EditFuture'
        BY <1>0, <2>2, <2>3 DEF OpenEdit, EditFuture, WindowInv, TypeOK
    <2> QED
        BY <1>0, <2>3, <2>4 DEF WindowInv, NowPast, ExpectedPast, AdvancePast, FiredPast,
            LateCovers, LateAlone, Late, Unclaimable, WindowOnce
<1>2. CASE EditWrite(s)
    <2> DEFINE w == Edited(row[s], edit[s])
    <2>1. w \in Row /\ w.next = edit[s].next /\ w.enabled = edit[s].enabled
        BY <1>0, EditedFields
    <2>2. /\ row' = [row EXCEPT ![s] = w]
          /\ UNCHANGED <<clock, loop, now, job, fired>>
        BY <1>2 DEF EditWrite
    <2>3. w.enabled => w.next > clock /\ fired[s] < w.next
        <3>1. edit[s].enabled => edit[s].next > clock
            BY <1>2 DEF EditWrite, WindowInv, EditFuture
        <3>2. fired[s] <= clock
            BY DEF WindowInv, FiredPast
        <3>3. edit[s].next \in Nat
            BY <1>0 DEF Edit
        <3> QED
            BY <1>0, <2>1, <3>1, <3>2, <3>3
    <2>4. \A z \in Schedules : edit'[z] = edit[z] \/ ~edit'[z].open
        BY <1>0, <1>2 DEF EditWrite, TypeOK, NoEdit
    <2> HIDE DEF w
    <2> QED
        BY <1>0, <2>1, <2>2, <2>3, <2>4, WindowRowWrite
<1>3. CASE \E c \in Cadences : DemandRetimes(s, c)
    <2>1. PICK c \in Cadences : DemandRetimes(s, c)
        BY <1>3
    <2> DEFINE w == Retimed(row[s], c, NextRun(c, clock))
    <2>2. NextRun(c, clock) \in Nat /\ NextRun(c, clock) > clock
        BY <1>0, NextRunLater
    <2>3. w \in Row /\ w.next > clock
        BY <1>0, <2>2, RetimedFields
    <2>4. /\ row' = [row EXCEPT ![s] = w]
          /\ UNCHANGED <<clock, loop, now, job, edit, fired>>
        BY <2>1 DEF DemandRetimes
    <2>5. fired[s] < w.next
        BY <1>0, <2>3 DEF WindowInv, FiredPast, Row
    <2> HIDE DEF w
    <2> QED
        BY <1>0, <2>3, <2>4, <2>5, WindowRowWrite
<1> QED
    BY <1>1, <1>2, <1>3

\* Time passes: no release and no edit is in flight, so nothing becomes late.
LEMMA WindowAdvance == ASSUME WindowInv, Advance PROVE WindowInv'
<1>0. TypeOK /\ TypeOK' /\ clock \in 0..MaxTime /\ clock' = clock + 1
    BY EnvironmentType DEF WindowInv, Advance, TypeOK
<1>1. UNCHANGED <<row, loop, now, job, edit, fired>>
    BY DEF Advance, environment
<1>2. NowPast' /\ ExpectedPast' /\ FiredPast' /\ WindowOnce'
    BY <1>0, <1>1 DEF Advance, WindowInv, NowPast, ExpectedPast, FiredPast, WindowOnce, TypeOK
<1>3. EditFuture'
    BY <1>1 DEF Advance, EditFuture
<1>4. \A r \in Replicas, s \in Schedules : job[r][s].pc \notin {"settled", "advancing"}
    BY DEF Advance, InTransaction
<1> QED
    BY <1>0, <1>1, <1>2, <1>3, <1>4
    DEF WindowInv, AdvancePast, LateCovers, LateAlone, Late

LEMMA NextWindow == WindowInv /\ [Next]_vars => WindowInv'
<1>1. WindowInv /\ Scheduler => WindowInv'
    BY WindowPoll, WindowJob, WindowFault DEF Scheduler, Poll
<1>2. WindowInv /\ Environment => WindowInv'
    BY WindowFault, WindowEdit DEF Environment
<1>3. WindowInv /\ UNCHANGED vars => WindowInv'
    BY DEF vars, WindowInv, TypeOK, NowPast, ExpectedPast, AdvancePast, FiredPast,
        EditFuture, LateCovers, LateAlone, Late, Unclaimable, WindowOnce
<1> QED
    BY <1>1, <1>2, <1>3, WindowAdvance DEF Next

\* No fire window is claimed twice: not after a crash, a reaped claim, a late
\* release, another replica's release or an edit.
THEOREM FiresOnce == Spec => []WindowOnce
<1>1. WindowInv => WindowOnce
    BY DEF WindowInv
<1> QED
    BY <1>1, InitWindow, NextWindow, PTL DEF Spec

-----------------------------------------------------------------------------
(* A live claim is kept.                                                   *)

LEMMA InitClaim == Init => ClaimInv
<1> SUFFICES ASSUME Init PROVE ClaimInv
    OBVIOUS
<1>1. \A r \in Replicas, s \in Schedules : job[r][s].pc = "none"
    BY DEF Init, NoJob
<1>2. \A r \in Replicas : loop[r] = "sleeping"
    BY DEF Init
<1> QED
    BY <1>1, <1>2, InitType DEF ClaimInv, PollNow, PollAlone, JobsInPlace,
        OwnerlessExposed, StuckIsDead, SlotInTime, HoldIsBounded, HoldAlone, Holding, InSlot

\* Whoever is being reaped, it is nobody who is still at work.
LEMMA HeldNotStuck ==
    ASSUME ClaimInv, NEW r \in Replicas, NEW q \in Replicas, NEW s \in Schedules \ exposed,
           Holding(r, s)
    PROVE  /\ job[q][s].pc # "stuck"
           /\ row[s].started # Unclaimed
<1>1. /\ now[r] \in 0..MaxTime /\ clock \in 0..MaxTime
      /\ StuckTimeout \in Nat /\ job[r][s].deadline \in Nat
    BY SettingsAssumption DEF ClaimInv, TypeOK, Job
<1>2. /\ row[s].started = now[r]
      /\ clock <= job[r][s].deadline /\ job[r][s].deadline <= now[r] + StuckTimeout
    BY DEF ClaimInv, HoldIsBounded
<1> QED
    BY <1>1, <1>2 DEF ClaimInv, StuckIsDead, Unclaimed

\* A step of one coroutine that does not write the row: it ends, it enters a
\* slot, or it moves on with the claim it has, or has not, won.
LEMMA ClaimQuietStep ==
    ASSUME ClaimInv, TypeOK', NEW r \in Replicas, NEW s \in Schedules, NEW j \in Job,
           SetJob(r, s, j), UNCHANGED <<clock, row, loop, now>>, exposed \subseteq exposed',
           \/ j.pc = "none"
           \/ /\ job[r][s].pc = "queued" /\ j.pc = "claiming" /\ ~j.won
              /\ s \notin exposed' =>
                    clock <= j.deadline /\ j.deadline <= now[r] + StuckTimeout
           \/ /\ job[r][s].pc \in InSlot /\ j.deadline = job[r][s].deadline
              /\ j.pc \in {"settled", "advancing", "disabling"} /\ j.won = job[r][s].won
              /\ j.pc = "disabling" => j.won
              /\ j.pc = "advancing" => j.won \/ s \in exposed'
    PROVE  ClaimInv'
<1>1. /\ job'[r][s] = j
      /\ \A q \in Replicas, z \in Schedules : q # r \/ z # s => job'[q][z] = job[q][z]
    BY SetJobEffect DEF ClaimInv
<1>2. PollNow' /\ PollAlone'
    BY DEF ClaimInv, PollNow, PollAlone
<1>3. JobsInPlace'
    BY <1>1 DEF ClaimInv, JobsInPlace, InSlot
<1>4. OwnerlessExposed'
    BY <1>1 DEF ClaimInv, OwnerlessExposed
<1>5. StuckIsDead'
    BY <1>1 DEF ClaimInv, StuckIsDead, InSlot
<1>6. SlotInTime'
    BY <1>1 DEF ClaimInv, SlotInTime
<1>7. \A q \in Replicas, z \in Schedules :
        Holding(q, z)' => Holding(q, z) /\ job'[q][z].deadline = job[q][z].deadline
    <2>1. job[r][s].pc \in InSlot /\ job[r][s].won =>
            job[r][s].pc \in {"dispatch", "settled", "advancing", "disabling"}
        BY DEF ClaimInv, JobsInPlace, InSlot
    <2> QED
        BY <1>1, <2>1 DEF Holding
<1>8. HoldIsBounded'
    BY <1>7 DEF ClaimInv, HoldIsBounded
<1>9. HoldAlone'
    BY <1>7 DEF ClaimInv, HoldAlone
<1> QED
    BY <1>2, <1>3, <1>4, <1>5, <1>6, <1>8, <1>9 DEF ClaimInv

\* A coroutine ends and writes the row: it gives up the claim it holds, or the
\* schedule is exposed.
LEMMA ClaimGivenBack ==
    ASSUME ClaimInv, TypeOK', NEW r \in Replicas, NEW s \in Schedules,
           Holding(r, s) \/ s \in exposed,
           NEW w \in Row, row' = [row EXCEPT ![s] = w],
           SetJob(r, s, NoJob), UNCHANGED <<clock, loop, now, exposed>>
    PROVE  ClaimInv'
<1>1. /\ job'[r][s].pc = "none"
      /\ \A q \in Replicas, z \in Schedules : q # r \/ z # s => job'[q][z] = job[q][z]
    BY SetJobEffect, NullTypes DEF ClaimInv, NoJob
<1>2. row'[s] = w /\ \A z \in Schedules : z # s => row'[z] = row[z]
    BY DEF ClaimInv, TypeOK
<1>3. PollNow' /\ PollAlone'
    BY DEF ClaimInv, PollNow, PollAlone
<1>4. JobsInPlace' /\ OwnerlessExposed'
    BY <1>1 DEF ClaimInv, JobsInPlace, OwnerlessExposed, InSlot
<1>5. \A q \in Replicas : s \notin exposed => job[q][s].pc # "stuck"
    BY HeldNotStuck
<1>6. StuckIsDead'
    BY <1>1, <1>2, <1>5 DEF ClaimInv, StuckIsDead
<1>7. SlotInTime'
    BY <1>1 DEF ClaimInv, SlotInTime
<1>8. \A q \in Replicas, z \in Schedules \ exposed :
        Holding(q, z)' => Holding(q, z) /\ z # s /\ job'[q][z] = job[q][z]
    BY <1>1 DEF ClaimInv, HoldAlone, Holding
<1>9. HoldIsBounded'
    BY <1>2, <1>8 DEF ClaimInv, HoldIsBounded
<1>10. HoldAlone'
    BY <1>8 DEF ClaimInv, HoldAlone
<1> QED
    BY <1>3, <1>4, <1>6, <1>7, <1>9, <1>10 DEF ClaimInv

\* What the coroutine that wins its claim becomes.
LEMMA WonFields ==
    ASSUME TypeOK, NEW r \in Replicas, NEW s \in Schedules, ClaimWon(r, s)
    PROVE  \E j \in Job : /\ SetJob(r, s, j)
                          /\ j.pc \in {"dispatch", "settled"} /\ j.won
                          /\ j.deadline = job[r][s].deadline
<1> DEFINE a == Settled(Winning(job[r][s]), now[r])
           b == Winning(job[r][s])
<1>0. job[r][s] \in Job /\ now[r] \in 0..MaxTime
    BY DEF TypeOK
<1>1. b \in Job /\ b.pc = "dispatch" /\ b.won /\ b.deadline = job[r][s].deadline
    BY <1>0, WinningFields
<1>2. a \in Job /\ a.pc = "settled" /\ a.won = b.won /\ a.deadline = b.deadline
    BY <1>0, <1>1, SettledFields
<1>3. SetJob(r, s, a) \/ SetJob(r, s, b)
    BY DEF ClaimWon
<1> HIDE DEF a, b
<1> QED
    BY <1>1, <1>2, <1>3

LEMMA ClaimTaken ==
    ASSUME ClaimInv, TypeOK', NEW r \in Replicas, NEW s \in Schedules, ClaimWon(r, s)
    PROVE  ClaimInv'
<1>0. TypeOK /\ now[r] \in 0..MaxTime
    BY DEF ClaimInv, TypeOK
<1>1. job[r][s].pc = "claiming" /\ row[s].started = Unclaimed
    BY DEF ClaimWon, Claimable
<1>2. /\ loop[r] = "dispatching"
      /\ s \notin exposed =>
            clock <= job[r][s].deadline /\ job[r][s].deadline <= now[r] + StuckTimeout
    BY <1>1 DEF ClaimInv, JobsInPlace, SlotInTime
<1>3. /\ row'[s].started = now[r]
      /\ \A z \in Schedules : z # s => row'[z] = row[z]
    BY <1>0, ClaimedFields DEF ClaimWon
<1>4. PICK j \in Job : /\ SetJob(r, s, j)
                       /\ j.pc \in {"dispatch", "settled"} /\ j.won
                       /\ j.deadline = job[r][s].deadline
    BY <1>0, WonFields
<1>5. /\ job'[r][s] = j
      /\ \A q \in Replicas, z \in Schedules : q # r \/ z # s => job'[q][z] = job[q][z]
    BY <1>0, <1>4, SetJobEffect
<1>6. UNCHANGED <<clock, loop, now, exposed>>
    BY DEF ClaimWon
<1>7. s \notin exposed => \A q \in Replicas : ~Holding(q, s) /\ job[q][s].pc # "stuck"
    BY <1>1, HeldNotStuck DEF ClaimInv, StuckIsDead
<1>8. PollNow' /\ PollAlone'
    BY <1>6 DEF ClaimInv, PollNow, PollAlone
<1>9. JobsInPlace' /\ OwnerlessExposed'
    BY <1>2, <1>4, <1>5, <1>6 DEF ClaimInv, JobsInPlace, OwnerlessExposed, InSlot
<1>10. StuckIsDead'
    BY <1>3, <1>4, <1>5, <1>6, <1>7 DEF ClaimInv, StuckIsDead
<1>11. SlotInTime'
    BY <1>4, <1>5, <1>6 DEF ClaimInv, SlotInTime
<1>12. \A q \in Replicas, z \in Schedules \ exposed :
        Holding(q, z)' => \/ q = r /\ z = s
                          \/ z # s /\ Holding(q, z) /\ job'[q][z] = job[q][z]
    BY <1>5, <1>7 DEF Holding
<1>13. HoldIsBounded'
    BY <1>2, <1>3, <1>4, <1>5, <1>6, <1>12 DEF ClaimInv, HoldIsBounded
<1>14. HoldAlone'
    BY <1>6, <1>12 DEF ClaimInv, HoldAlone
<1> QED
    BY <1>8, <1>9, <1>10, <1>11, <1>13, <1>14 DEF ClaimInv

\* Only a holder, or somebody who has exposed the schedule, gets to release.
LEMMA ReleaserHolds ==
    ASSUME ClaimInv, NEW r \in Replicas, NEW s \in Schedules,
           job[r][s].pc \in {"advancing", "disabling"}
    PROVE  Holding(r, s) \/ s \in exposed
BY DEF ClaimInv, JobsInPlace, OwnerlessExposed, Holding

LEMMA ClaimJob ==
    ASSUME ClaimInv, NEW r \in Replicas, NEW s \in Schedules,
           \/ JobStep(r, s) \/ DispatchEnds(r, s)
           \/ Unschedulable(r, s) \/ WriteFails(r, s)
    PROVE  ClaimInv'
<1>0. /\ TypeOK /\ TypeOK' /\ job[r][s] \in Job /\ row[s] \in Row
      /\ clock \in 0..MaxTime /\ DispatchTimeout \in Nat \ {0}
    BY JobType, SettingsAssumption DEF ClaimInv, TypeOK
<1>1. CASE EnterSlot(r, s)
    <2> DEFINE j == Entered(job[r][s], clock + DispatchTimeout)
    <2>1. clock + DispatchTimeout \in Nat /\ clock <= clock + DispatchTimeout
        BY <1>0, BoundsAssumption
    <2>2. now[r] + StuckTimeout \in Nat
        BY <1>0, SettingsAssumption, BoundsAssumption DEF TypeOK
    <2>3. job[r][s].pc = "queued" /\ ~job[r][s].won
        BY <1>1 DEF EnterSlot, ClaimInv, JobsInPlace
    <2>4. /\ j \in Job /\ j.pc = "claiming" /\ ~j.won
          /\ j.deadline = clock + DispatchTimeout
        BY <1>0, <2>1, <2>3, EnteredFields
    <2>5. /\ SetJob(r, s, j) /\ UNCHANGED <<clock, row, loop, now>>
          /\ exposed \subseteq exposed'
          /\ s \notin exposed' => ~(clock + DispatchTimeout > now[r] + StuckTimeout)
        BY <1>1 DEF EnterSlot
    <2> HIDE DEF j
    <2>6. s \notin exposed' => j.deadline <= now[r] + StuckTimeout
        BY <2>1, <2>2, <2>4, <2>5
    <2> QED
        BY <1>0, <2>1, <2>3, <2>4, <2>5, <2>6, ClaimQuietStep
<1>2. CASE ClaimLost(r, s) \/ WriteFails(r, s)
    BY <1>0, <1>2, NullTypes, ClaimQuietStep DEF ClaimLost, WriteFails, NoJob
<1>3. CASE DispatchEnds(r, s)
    BY <1>0, <1>3, SettledFields, ClaimQuietStep DEF DispatchEnds, InSlot
<1>4. CASE Unschedulable(r, s)
    <2>1. job[r][s].won
        BY <1>4 DEF Unschedulable, ClaimInv, JobsInPlace
    <2> QED
        BY <1>0, <1>4, <2>1, MovedFields, ClaimQuietStep DEF Unschedulable, InSlot
<1>5. CASE ReleaseRead(r, s)
    <2>1. row[s].cadence \in Cadences
        BY <1>0 DEF Row
    <2> QED
        BY <1>0, <1>5, <2>1, AdvancingFields, ClaimQuietStep DEF ReleaseRead, InSlot
<1>6. CASE DispatchTimesOut(r, s)
    BY <1>0, <1>6, InterruptedFields, ClaimQuietStep DEF DispatchTimesOut
<1>7. CASE ReleaseWrite(r, s)
    <2> DEFINE n == NextRun(job[r][s].cadence, job[r][s].at)
               w == IF row[s].started = Unclaimed THEN row[s] ELSE Released(row[s], n)
    <2>1. n \in Nat
        BY <1>0, NextRunLater DEF Job
    <2>2. w \in Row
        BY <1>0, <2>1, ReleasedFields
    <2>3. row' = [row EXCEPT ![s] = w]
        BY <1>0, <1>7 DEF ReleaseWrite, TypeOK
    <2> HIDE DEF w, n
    <2> QED
        BY <1>0, <1>7, <2>2, <2>3, ReleaserHolds, ClaimGivenBack DEF ReleaseWrite
<1>8. CASE DisableWrite(r, s)
    <2> DEFINE w == IF row[s].started = Unclaimed THEN row[s] ELSE Disabled(row[s])
    <2>1. w \in Row
        BY <1>0, DisabledFields
    <2>2. row' = [row EXCEPT ![s] = w]
        BY <1>0, <1>8 DEF DisableWrite, TypeOK
    <2> HIDE DEF w
    <2> QED
        BY <1>0, <1>8, <2>1, <2>2, ReleaserHolds, ClaimGivenBack DEF DisableWrite
<1> QED
    BY <1>0, <1>1, <1>2, <1>3, <1>4, <1>5, <1>6, <1>7, <1>8, ClaimTaken DEF JobStep

LEMMA ClaimPoll ==
    ASSUME ClaimInv, NEW r \in Replicas,
           PollBegin(r) \/ PollEnd(r) \/ PollFails(r) \/ TickEnd(r)
    PROVE  ClaimInv'
<1>0. /\ TypeOK /\ TypeOK' /\ clock \in 0..MaxTime /\ clock' = clock /\ exposed' = exposed
    BY PollType DEF ClaimInv, TypeOK, PollBegin, PollEnd, PollFails, TickEnd
<1>1. \A q \in Replicas : q # r => loop'[q] = loop[q] /\ now'[q] = now[q] /\ job'[q] = job[q]
    BY <1>0 DEF TypeOK, PollBegin, PollEnd, PollFails, TickEnd
<1>2. \A z \in Schedules :
        \/ job'[r][z].pc = "none"
        \/ PollBegin(r) /\ job'[r][z].pc = "stuck" /\ Stuck(z, clock)
        \/ /\ PollEnd(r) /\ loop'[r] = "dispatching"
           /\ job'[r][z].pc = "queued" /\ ~job'[r][z].won
    <2>1. CASE PollBegin(r)
        BY <1>0, <2>1, BoundsAssumption, ListedFields DEF PollBegin, TypeOK, NoJob
    <2>2. CASE PollEnd(r)
        <3> SUFFICES ASSUME NEW z \in Schedules
                     PROVE  \/ job'[r][z].pc = "none"
                            \/ /\ loop'[r] = "dispatching"
                               /\ job'[r][z].pc = "queued" /\ ~job'[r][z].won
            BY <2>2
        <3>1. /\ ListedDue(Reaped(r, z).next).pc = "queued"
              /\ ~ListedDue(Reaped(r, z).next).won
            BY <1>0, ReapedFields, ListedFields DEF Row
        <3> QED
            BY <1>0, <2>2, <3>1 DEF PollEnd, TypeOK, NoJob
    <2>3. CASE PollFails(r)
        BY <1>0, <2>3 DEF PollFails, TypeOK, NoJob
    <2>4. CASE TickEnd(r)
        BY <1>0, <2>4 DEF TickEnd, TypeOK, NoJob
    <2> QED
        BY <2>1, <2>2, <2>3, <2>4
<1>3. /\ loop'[r] = "polling" => PollBegin(r) /\ now'[r] = clock
      /\ PollBegin(r) => loop'[r] = "polling" /\ \A q \in Replicas : loop[q] # "polling"
      /\ PollEnd(r) => loop[r] = "polling" /\ now[r] = clock
    BY <1>0 DEF TypeOK, PollBegin, PollEnd, PollFails, TickEnd, ClaimInv, PollNow
<1>4. PollNow' /\ PollAlone'
    BY <1>0, <1>1, <1>3 DEF ClaimInv, PollNow, PollAlone
<1>5. \A z \in Schedules :
        \/ row'[z] = row[z]
        \/ PollEnd(r) /\ job[r][z].pc = "stuck"
    <2>1. CASE PollEnd(r)
        BY <1>0, <2>1, ReapedFields DEF PollEnd
    <2>2. CASE ~PollEnd(r)
        BY <2>2 DEF PollBegin, PollFails, TickEnd
    <2> QED
        BY <2>1, <2>2
<1>6. JobsInPlace'
    <2> SUFFICES ASSUME NEW q \in Replicas, NEW z \in Schedules
                 PROVE  /\ job'[q][z].pc = "stuck" => loop'[q] = "polling"
                        /\ job'[q][z].pc \in {"queued", "claiming"} =>
                                loop'[q] = "dispatching" /\ ~job'[q][z].won
                        /\ job'[q][z].pc \in InSlot => loop'[q] \in {"dispatching", "stopping"}
                        /\ job'[q][z].pc \in {"dispatch", "disabling"} => job'[q][z].won
        BY DEF JobsInPlace
    <2>1. CASE q = r
        BY <1>2, <1>3, <2>1 DEF InSlot
    <2>2. CASE q # r
        BY <1>1, <2>2 DEF ClaimInv, JobsInPlace
    <2> QED
        BY <2>1, <2>2
<1>7. OwnerlessExposed' /\ SlotInTime'
    BY <1>0, <1>1, <1>2 DEF ClaimInv, OwnerlessExposed, SlotInTime
<1>8. StuckIsDead'
    <2> SUFFICES ASSUME NEW q \in Replicas, NEW z \in Schedules \ exposed,
                        job'[q][z].pc = "stuck"
                 PROVE  row'[z].started # Unclaimed /\ row'[z].started + StuckTimeout < clock
        BY <1>0 DEF StuckIsDead
    <2>1. CASE q = r
        <3>1. PollBegin(r) /\ Stuck(z, clock)
            BY <1>2, <2>1
        <3> QED
            BY <3>1 DEF Stuck, PollBegin
    <2>2. CASE q # r
        <3>1. job[q][z].pc = "stuck" /\ loop[q] = "polling"
            BY <1>1, <2>2 DEF ClaimInv, JobsInPlace
        <3>2. row'[z] = row[z]
            BY <1>3, <1>5, <2>2, <3>1 DEF ClaimInv, PollAlone
        <3> QED
            BY <3>1, <3>2 DEF ClaimInv, StuckIsDead
    <2> QED
        BY <2>1, <2>2
<1>9. \A q \in Replicas, z \in Schedules \ exposed :
        Holding(q, z)' => /\ q # r /\ Holding(q, z) /\ job'[q][z] = job[q][z]
                          /\ row'[z] = row[z]
    BY <1>1, <1>2, <1>5, HeldNotStuck DEF Holding
<1>10. HoldIsBounded'
    BY <1>0, <1>1, <1>9 DEF ClaimInv, HoldIsBounded
<1>11. HoldAlone'
    BY <1>0, <1>9 DEF ClaimInv, HoldAlone
<1> QED
    BY <1>0, <1>4, <1>6, <1>7, <1>8, <1>10, <1>11 DEF ClaimInv

LEMMA ClaimFault ==
    ASSUME ClaimInv, NEW r \in Replicas, Stop(r) \/ Exit(r) \/ Crash(r) \/ Start(r)
    PROVE  ClaimInv'
<1>0. TypeOK /\ TypeOK' /\ clock \in 0..MaxTime /\ UNCHANGED <<clock, row, exposed>>
    BY EnvironmentType DEF ClaimInv, TypeOK, Environment, Stop, Exit, Crash, Start
<1>1. \A q \in Replicas : q # r => loop'[q] = loop[q] /\ now'[q] = now[q] /\ job'[q] = job[q]
    BY <1>0 DEF TypeOK, Stop, Exit, Crash, Start
<1>2. loop'[r] # "polling"
    BY <1>0 DEF TypeOK, Stop, Exit, Crash, Start
<1>3. \A z \in Schedules :
        \/ job'[r][z].pc = "none"
        \/ /\ loop'[r] = "stopping" /\ now'[r] = now[r]
           /\ job[r][z].pc \in InSlot /\ job'[r][z].pc = "settled"
           /\ job'[r][z].won = job[r][z].won /\ job'[r][z].deadline = job[r][z].deadline
    <2> SUFFICES ASSUME NEW z \in Schedules
                 PROVE  \/ job'[r][z].pc = "none"
                        \/ /\ loop'[r] = "stopping" /\ now'[r] = now[r]
                           /\ job[r][z].pc \in InSlot /\ job'[r][z].pc = "settled"
                           /\ job'[r][z].won = job[r][z].won
                           /\ job'[r][z].deadline = job[r][z].deadline
        OBVIOUS
    <2>1. CASE Stop(r)
        <3>1. \/ Cancelled(job[r][z]) = NoJob
              \/ /\ job[r][z].pc \in InSlot /\ Cancelled(job[r][z]).pc = "settled"
                 /\ Cancelled(job[r][z]).won = job[r][z].won
                 /\ Cancelled(job[r][z]).deadline = job[r][z].deadline
            BY <1>0, InterruptedFields DEF Cancelled, TypeOK
        <3>2. /\ loop'[r] = "stopping" /\ now'[r] = now[r]
              /\ job'[r][z] = Cancelled(job[r][z])
            BY <1>0, <2>1 DEF Stop, TypeOK
        <3> QED
            BY <3>1, <3>2 DEF NoJob
    <2>2. CASE Exit(r) \/ Crash(r)
        BY <1>0, <2>2 DEF TypeOK, Exit, Crash, NoJob
    <2>3. CASE Start(r)
        <3>1. job[r][z].pc \in {"none", "stuck", "queued"} \cup InSlot
            BY <1>0 DEF TypeOK, Job
        <3> QED
            BY <2>3, <3>1 DEF Start, ClaimInv, JobsInPlace
    <2> QED
        BY <2>1, <2>2, <2>3
<1>4. PollNow' /\ PollAlone'
    BY <1>0, <1>1, <1>2 DEF ClaimInv, PollNow, PollAlone
<1>5. JobsInPlace'
    BY <1>1, <1>3 DEF ClaimInv, JobsInPlace, InSlot
<1>6. OwnerlessExposed' /\ StuckIsDead' /\ SlotInTime'
    BY <1>0, <1>1, <1>3 DEF ClaimInv, OwnerlessExposed, StuckIsDead, SlotInTime
<1>7. \A q \in Replicas, z \in Schedules :
        Holding(q, z)' => /\ Holding(q, z) /\ now'[q] = now[q]
                          /\ job'[q][z].deadline = job[q][z].deadline
    BY <1>1, <1>3 DEF Holding, ClaimInv, JobsInPlace, InSlot
<1>8. HoldIsBounded' /\ HoldAlone'
    BY <1>0, <1>7 DEF ClaimInv, HoldIsBounded, HoldAlone
<1> QED
    BY <1>0, <1>4, <1>5, <1>6, <1>8 DEF ClaimInv

\* Users and demand polls never write the claim.
LEMMA EditKeepsClaim ==
    ASSUME TypeOK, NEW s \in Schedules,
           \/ EnableRead(s) \/ DisableRead(s) \/ EditWrite(s)
           \/ \E c \in Cadences : UpsertRead(s, c) \/ DemandRetimes(s, c)
    PROVE  /\ UNCHANGED <<clock, loop, now, job, exposed>>
           /\ \A z \in Schedules : row'[z].started = row[z].started
<1>0. row[s] \in Row /\ edit[s] \in Edit /\ clock \in 0..MaxTime
    BY DEF TypeOK
<1>1. UNCHANGED <<clock, loop, now, job, exposed>>
    BY DEF EnableRead, DisableRead, EditWrite, UpsertRead, DemandRetimes, OpenEdit
<1>2. \A z \in Schedules : row'[z].started = row[z].started
    <2>1. CASE EditWrite(s)
        BY <1>0, <2>1, EditedFields DEF EditWrite, TypeOK
    <2>2. CASE \E c \in Cadences : DemandRetimes(s, c)
        <3>1. PICK c \in Cadences : DemandRetimes(s, c)
            BY <2>2
        <3>2. NextRun(c, clock) \in Nat
            BY <1>0, NextRunLater
        <3> QED
            BY <1>0, <3>1, <3>2, RetimedFields DEF DemandRetimes, TypeOK
    <2>3. CASE EnableRead(s) \/ DisableRead(s) \/ \E c \in Cadences : UpsertRead(s, c)
        BY <2>3 DEF EnableRead, DisableRead, UpsertRead, OpenEdit
    <2> QED
        BY <2>1, <2>2, <2>3
<1> QED
    BY <1>1, <1>2

LEMMA ClaimEdit ==
    ASSUME ClaimInv, NEW s \in Schedules,
           \/ EnableRead(s) \/ DisableRead(s) \/ EditWrite(s)
           \/ \E c \in Cadences : UpsertRead(s, c) \/ DemandRetimes(s, c)
    PROVE  ClaimInv'
<1>1. TypeOK'
    BY EnvironmentType DEF ClaimInv, Environment
<1>2. /\ UNCHANGED <<clock, loop, now, job, exposed>>
      /\ \A z \in Schedules : row'[z].started = row[z].started
    BY EditKeepsClaim DEF ClaimInv
<1> QED
    BY <1>1, <1>2 DEF ClaimInv, PollNow, PollAlone, JobsInPlace, OwnerlessExposed,
        StuckIsDead, SlotInTime, HoldIsBounded, HoldAlone, Holding

\* Time passes: a coroutine that holds a claim is before its deadline, and none
\* is claiming.
LEMMA ClaimAdvance == ASSUME ClaimInv, Advance PROVE ClaimInv'
<1>0. TypeOK /\ TypeOK' /\ clock \in 0..MaxTime /\ clock' = clock + 1
    BY EnvironmentType DEF ClaimInv, Advance, TypeOK
<1>1. UNCHANGED <<row, loop, now, job, exposed>>
    BY DEF Advance, environment
<1>2. \A r \in Replicas : loop[r] # "polling"
    BY DEF Advance
<1>3. PollNow' /\ PollAlone' /\ JobsInPlace' /\ OwnerlessExposed' /\ StuckIsDead'
    BY <1>1, <1>2
    DEF ClaimInv, PollNow, PollAlone, JobsInPlace, OwnerlessExposed, StuckIsDead
<1>4. \A r \in Replicas, s \in Schedules : job[r][s].pc # "claiming"
    BY DEF Advance, InTransaction
<1>5. SlotInTime'
    BY <1>1, <1>4 DEF SlotInTime
<1>6. \A r \in Replicas, s \in Schedules : Holding(r, s) => clock < job[r][s].deadline
    BY DEF Advance, InTransaction, Holding
<1>7. HoldIsBounded' /\ HoldAlone'
    <2> SUFFICES ASSUME NEW r \in Replicas, NEW s \in Schedules, Holding(r, s)
                 PROVE  clock + 1 <= job[r][s].deadline
        BY <1>0, <1>1 DEF ClaimInv, HoldIsBounded, HoldAlone, Holding
    <2>1. job[r][s].deadline \in Nat
        BY DEF ClaimInv, TypeOK, Job
    <2> QED
        BY <1>0, <1>6, <2>1
<1> QED
    BY <1>0, <1>3, <1>5, <1>7 DEF ClaimInv

LEMMA NextClaim == ClaimInv /\ [Next]_vars => ClaimInv'
<1>1. ClaimInv /\ Scheduler => ClaimInv'
    BY ClaimPoll, ClaimJob, ClaimFault DEF Scheduler, Poll
<1>2. ClaimInv /\ Environment => ClaimInv'
    BY ClaimFault, ClaimEdit DEF Environment
<1>3. ClaimInv /\ UNCHANGED vars => ClaimInv'
    BY DEF vars, ClaimInv, TypeOK, PollNow, PollAlone, JobsInPlace, OwnerlessExposed,
        StuckIsDead, SlotInTime, HoldIsBounded, HoldAlone, Holding
<1> QED
    BY <1>1, <1>2, <1>3, ClaimAdvance DEF Next

\* While a replica dispatches a schedule the row carries its claim, whatever
\* queues, crashes, shutdowns, reapers and edits do around it, until a
\* coroutine of that schedule enters its slot too late for the reaper or is
\* stopped inside its claim statement.
THEOREM LiveClaimSafe == Spec => []LiveClaimKept
<1>1. ClaimInv => LiveClaimKept
    BY DEF ClaimInv, JobsInPlace, HoldIsBounded, LiveClaimKept, Holding
<1> QED
    BY <1>1, InitClaim, NextClaim, PTL DEF Spec

-----------------------------------------------------------------------------
(* The claim column implements the lease.                                  *)

Taken == {s \in Schedules \ exposed : row[s].started # Unclaimed}
Holders == [s \in Schedules |->
                IF s \in exposed THEN {} ELSE {r \in Replicas : Holding(r, s)}]

\* Steps that, as far as the schedules not exposed go, neither claim, release
\* nor end a coroutine that holds.
LEMMA LeaseStutter ==
    ASSUME exposed' = exposed,
           \A s \in Schedules \ exposed :
               row'[s].started # Unclaimed <=> row[s].started # Unclaimed,
           \A r \in Replicas, s \in Schedules \ exposed : Holding(r, s)' <=> Holding(r, s)
    PROVE  UNCHANGED Lease!lease
<1>1. Taken' = Taken
    BY DEF Taken
<1>2. Holders' = Holders
    BY DEF Holders
<1> QED
    BY <1>1, <1>2 DEF Lease!lease, Taken, Holders

LEMMA HolderIsAlone ==
    ASSUME ClaimInv, NEW r \in Replicas, NEW s \in Schedules \ exposed, Holding(r, s)
    PROVE  Holders[s] = {r} /\ s \in Taken
BY HeldNotStuck DEF ClaimInv, HoldAlone, Holders, Taken

\* A step of one coroutine changes who holds its own schedule only.
LEMMA HoldersAfter ==
    ASSUME TypeOK, NEW r \in Replicas, NEW s \in Schedules, NEW j \in Job, SetJob(r, s, j),
           exposed' = exposed
    PROVE  /\ job'[r][s] = j
           /\ \A z \in Schedules : z # s => Holders'[z] = Holders[z]
           /\ \A q \in Replicas : q # r => (Holding(q, s)' <=> Holding(q, s))
<1>1. /\ job'[r][s] = j
      /\ \A q \in Replicas, z \in Schedules : q # r \/ z # s => job'[q][z] = job[q][z]
    BY SetJobEffect
<1>2. \A q \in Replicas, z \in Schedules :
        q # r \/ z # s => (Holding(q, z)' <=> Holding(q, z))
    BY <1>1 DEF Holding
<1>3. \A z \in Schedules : z # s => Holders'[z] = Holders[z]
    BY <1>2 DEF Holders
<1> QED
    BY <1>1, <1>2, <1>3

LEMMA LeaseTaken ==
    ASSUME ClaimInv, NEW r \in Replicas, NEW s \in Schedules \ exposed, ClaimWon(r, s)
    PROVE  Lease!Take(r, s)
<1>0. /\ TypeOK /\ job[r][s] \in Job /\ now[r] \in 0..MaxTime /\ exposed' = exposed
    BY DEF ClaimInv, TypeOK, ClaimWon
<1>1. row[s].started = Unclaimed
    BY DEF ClaimWon, Claimable
<1>2. \A q \in Replicas : ~Holding(q, s)
    BY <1>1, HeldNotStuck
<1>3. PICK j \in Job : SetJob(r, s, j) /\ j.pc \in {"dispatch", "settled"} /\ j.won
    BY <1>0, WonFields
<1>4. Holders' = [Holders EXCEPT ![s] = {r}]
    <2>1. \A q \in Replicas : Holding(q, s)' <=> q = r
        BY <1>0, <1>2, <1>3, HoldersAfter DEF Holding
    <2>2. Holders'[s] = {r}
        BY <1>0, <2>1 DEF Holders
    <2>3. \A z \in Schedules : z # s => Holders'[z] = Holders[z]
        BY <1>0, <1>3, HoldersAfter
    <2> QED
        BY <2>2, <2>3 DEF Holders
<1>5. /\ row'[s].started = now[r]
      /\ \A z \in Schedules : z # s => row'[z] = row[z]
    BY <1>0, ClaimedFields DEF ClaimWon
<1>6. Taken' = Taken \cup {s}
    BY <1>0, <1>5 DEF Taken, Unclaimed
<1>7. s \notin Taken /\ Holders[s] = {}
    BY <1>1, <1>2 DEF Taken, Holders
<1> QED
    BY <1>4, <1>6, <1>7 DEF Lease!Take, Taken, Holders

LEMMA LeaseGivenBack ==
    ASSUME ClaimInv, NEW r \in Replicas, NEW s \in Schedules \ exposed, Holding(r, s),
           NEW w \in Row, w.started = Unclaimed, row' = [row EXCEPT ![s] = w],
           SetJob(r, s, NoJob), exposed' = exposed
    PROVE  Lease!GiveBack(r, s)
<1>1. s \in Taken /\ Holders[s] = {r}
    BY HolderIsAlone
<1>2. Taken' = Taken \ {s}
    BY DEF Taken, ClaimInv, TypeOK
<1>3. Holders' = [Holders EXCEPT ![s] = {}]
    <2>1. \A q \in Replicas : ~Holding(q, s)'
        BY HoldersAfter, NullTypes DEF ClaimInv, HoldAlone, Holding, NoJob
    <2>2. Holders'[s] = {}
        BY <2>1 DEF Holders
    <2>3. \A z \in Schedules : z # s => Holders'[z] = Holders[z]
        BY HoldersAfter, NullTypes DEF ClaimInv
    <2> QED
        BY <2>2, <2>3 DEF Holders
<1> QED
    BY <1>1, <1>2, <1>3 DEF Lease!GiveBack, Taken, Holders

LEMMA LeaseAbandoned ==
    ASSUME ClaimInv, NEW r \in Replicas, NEW A \in SUBSET (Schedules \ exposed),
           row' = row, exposed' = exposed,
           \A s \in A : Holding(r, s),
           \A q \in Replicas, s \in Schedules \ exposed :
               Holding(q, s)' <=> Holding(q, s) /\ s \notin A
    PROVE  Lease!Abandon(r, A)
<1>1. A \subseteq {s \in Taken : Holders[s] = {r}}
    BY HolderIsAlone
<1>2. \A s \in Schedules : Holders'[s] = IF s \in A THEN {} ELSE Holders[s]
    BY DEF Holders
<1>3. Holders' = [s \in Schedules |-> IF s \in A THEN {} ELSE Holders[s]]
    BY <1>2 DEF Holders
<1>4. Taken' = Taken
    BY DEF Taken
<1> QED
    BY <1>1, <1>3, <1>4 DEF Lease!Abandon, Taken, Holders

\* A schedule that gets exposed drops out of the lease: its holder, if it has
\* one, gives up; an abandoned claim is reclaimed.
LEMMA LeaseForgotten ==
    ASSUME ClaimInv, NEW s \in Schedules, row' = row, exposed' = exposed \cup {s},
           \A q \in Replicas, z \in Schedules : Holding(q, z)' <=> Holding(q, z)
    PROVE  [Lease!Next]_(Lease!lease)
<1>1. CASE s \in exposed
    BY <1>1, LeaseStutter
<1>2. CASE s \notin exposed
    <2>1. Taken' = Taken \ {s}
        BY DEF Taken
    <2>2. Holders' = [Holders EXCEPT ![s] = {}]
        BY DEF Holders
    <2>3. CASE \E q \in Replicas : Holding(q, s)
        <3>1. PICK q \in Replicas : Holding(q, s)
            BY <2>3
        <3>2. s \in Taken /\ Holders[s] = {q}
            BY <1>2, <3>1, HolderIsAlone
        <3>3. Lease!GiveBack(q, s)
            BY <2>1, <2>2, <3>2 DEF Lease!GiveBack, Taken, Holders
        <3> QED
            BY <3>3 DEF Lease!Next
    <2>4. CASE \A q \in Replicas : ~Holding(q, s)
        <3>1. Holders[s] = {}
            BY <2>4 DEF Holders
        <3>2. Holders' = Holders
            BY <2>2, <3>1 DEF Holders
        <3>3. CASE s \in Taken
            <4>1. Lease!Reclaim({s})
                BY <2>1, <3>1, <3>2, <3>3 DEF Lease!Reclaim, Taken, Holders
            <4> QED
                BY <4>1 DEF Lease!Next
        <3>4. CASE s \notin Taken
            <4>1. Taken' = Taken
                BY <2>1, <3>4
            <4> QED
                BY <3>2, <4>1 DEF Lease!lease, Taken, Holders
        <3> QED
            BY <3>3, <3>4
    <2> QED
        BY <2>3, <2>4
<1> QED
    BY <1>1, <1>2

LEMMA LeaseReclaimed ==
    ASSUME ClaimInv, NEW r \in Replicas, PollEnd(r)
    PROVE  \E A \in SUBSET Schedules : Lease!Reclaim(A)
<1> DEFINE A == {s \in Schedules \ exposed : job[r][s].pc = "stuck"}
<1>0. TypeOK /\ TypeOK' /\ exposed' = exposed
    BY PollType DEF ClaimInv, PollEnd
<1>1. A \subseteq {s \in Taken : Holders[s] = {}}
    BY HeldNotStuck DEF ClaimInv, StuckIsDead, Taken, Holders
<1>2. \A s \in Schedules \ exposed :
        row'[s].started # Unclaimed <=> row[s].started # Unclaimed /\ s \notin A
    <2> SUFFICES ASSUME NEW s \in Schedules \ exposed
                 PROVE  row'[s].started # Unclaimed <=> row[s].started # Unclaimed /\ s \notin A
        OBVIOUS
    <2>1. row'[s] = Reaped(r, s)
        BY DEF PollEnd
    <2>2. CASE s \in A
        <3>1. Reaped(r, s) = Released(row[s], NextRun(job[r][s].cadence, now[r]))
            BY <2>2 DEF Reaped, ClaimInv, StuckIsDead
        <3>2. NextRun(job[r][s].cadence, now[r]) \in Nat /\ row[s] \in Row
            BY <1>0, NextRunLater DEF TypeOK, Job
        <3> QED
            BY <2>1, <2>2, <3>1, <3>2, ReleasedFields
    <2>3. CASE s \notin A
        BY <2>1, <2>3 DEF Reaped
    <2> QED
        BY <2>2, <2>3
<1>3. Taken' = Taken \ A
    BY <1>0, <1>2 DEF Taken
<1>4. \A q \in Replicas, s \in Schedules : Holding(q, s)' <=> Holding(q, s)
    <2>1. \A q \in Replicas : q # r => job'[q] = job[q]
        BY <1>0 DEF PollEnd, TypeOK
    <2>2. \A s \in Schedules : ~Holding(r, s)
        BY DEF PollEnd, ClaimInv, JobsInPlace, Holding, InSlot
    <2>3. \A s \in Schedules : ~Holding(r, s)'
        <3> SUFFICES ASSUME NEW s \in Schedules PROVE ~Holding(r, s)'
            OBVIOUS
        <3>1. ListedDue(Reaped(r, s).next).pc = "queued"
            BY <1>0, ReapedFields, ListedFields DEF Row
        <3>2. job'[r][s] = NoJob \/ job'[r][s] = ListedDue(Reaped(r, s).next)
            BY <1>0 DEF PollEnd, TypeOK
        <3> QED
            BY <3>1, <3>2 DEF Holding, NoJob
    <2> QED
        BY <2>1, <2>2, <2>3 DEF Holding
<1>5. Holders' = Holders
    BY <1>0, <1>4 DEF Holders
<1>6. A \in SUBSET Schedules
    OBVIOUS
<1> HIDE DEF A
<1>7. Lease!Reclaim(A)
    BY <1>1, <1>3, <1>5 DEF Lease!Reclaim, Taken, Holders
<1> QED
    BY <1>6, <1>7 DEF Lease!Reclaim

\* The releases, and the steps that fail.
LEMMA LeaseEnds ==
    ASSUME ClaimInv, NEW r \in Replicas, NEW s \in Schedules,
           ReleaseWrite(r, s) \/ DisableWrite(r, s) \/ WriteFails(r, s)
    PROVE  [Lease!Next]_(Lease!lease)
<1>0. /\ TypeOK /\ TypeOK' /\ job[r][s] \in Job /\ row[s] \in Row
      /\ clock \in 0..MaxTime /\ exposed' = exposed /\ SetJob(r, s, NoJob)
    BY JobType DEF ClaimInv, TypeOK, JobStep, ReleaseWrite, DisableWrite, WriteFails
<1>1. CASE s \in exposed
    <2>1. \A z \in Schedules : z # s => row'[z] = row[z]
        BY <1>0 DEF TypeOK, ReleaseWrite, DisableWrite, WriteFails
    <2>2. \A q \in Replicas, z \in Schedules : z # s => (Holding(q, z)' <=> Holding(q, z))
        BY <1>0, NullTypes, SetJobEffect DEF Holding
    <2> QED
        BY <1>0, <1>1, <2>1, <2>2, LeaseStutter
<1>2. CASE ReleaseWrite(r, s) /\ s \notin exposed
    <2>1. Holding(r, s)
        BY <1>2, ReleaserHolds DEF ReleaseWrite
    <2>2. NextRun(job[r][s].cadence, job[r][s].at) \in Nat
        BY <1>0, NextRunLater DEF Job
    <2>3. row' = [row EXCEPT ![s] =
                    Released(row[s], NextRun(job[r][s].cadence, job[r][s].at))]
        BY <1>2, <2>1, HeldNotStuck DEF ReleaseWrite
    <2>4. Lease!GiveBack(r, s)
        BY <1>0, <1>2, <2>1, <2>2, <2>3, ReleasedFields, LeaseGivenBack
    <2> QED
        BY <2>4 DEF Lease!Next
<1>3. CASE DisableWrite(r, s) /\ s \notin exposed
    <2>1. Holding(r, s)
        BY <1>3, ReleaserHolds DEF DisableWrite
    <2>2. row' = [row EXCEPT ![s] = Disabled(row[s])]
        BY <1>3, <2>1, HeldNotStuck DEF DisableWrite
    <2>3. Lease!GiveBack(r, s)
        BY <1>0, <1>3, <2>1, <2>2, DisabledFields, LeaseGivenBack
    <2> QED
        BY <2>3 DEF Lease!Next
<1>4. CASE WriteFails(r, s) /\ s \notin exposed /\ Holding(r, s)
    <2>1. \A q \in Replicas, z \in Schedules \ exposed :
            Holding(q, z)' <=> Holding(q, z) /\ z \notin {s}
        BY <1>0, <1>4, SetJobEffect, NullTypes DEF ClaimInv, HoldAlone, Holding, NoJob
    <2>2. Lease!Abandon(r, {s})
        BY <1>0, <1>4, <2>1, LeaseAbandoned DEF WriteFails
    <2> QED
        BY <2>2 DEF Lease!Next
<1>5. CASE WriteFails(r, s) /\ ~Holding(r, s)
    <2>1. \A q \in Replicas, z \in Schedules : Holding(q, z)' <=> Holding(q, z)
        BY <1>0, <1>5, SetJobEffect, NullTypes DEF Holding, NoJob
    <2> QED
        BY <1>0, <1>5, <2>1, LeaseStutter DEF WriteFails
<1> QED
    BY <1>1, <1>2, <1>3, <1>4, <1>5

LEMMA LeaseJob ==
    ASSUME ClaimInv, NEW r \in Replicas, NEW s \in Schedules,
           \/ JobStep(r, s) \/ DispatchEnds(r, s)
           \/ Unschedulable(r, s) \/ WriteFails(r, s)
    PROVE  [Lease!Next]_(Lease!lease)
<1>0. /\ TypeOK /\ TypeOK' /\ job[r][s] \in Job /\ row[s] \in Row
      /\ clock \in 0..MaxTime /\ DispatchTimeout \in Nat \ {0}
    BY JobType, SettingsAssumption DEF ClaimInv, TypeOK
<1>1. ASSUME NEW j \in Job, SetJob(r, s, j), row' = row,
             exposed' = exposed \/ exposed' = exposed \cup {s},
             j.won /\ j.pc \in {"dispatch", "settled", "advancing", "disabling"}
                <=> Holding(r, s)
      PROVE  [Lease!Next]_(Lease!lease)
    <2>1. \A q \in Replicas, z \in Schedules : Holding(q, z)' <=> Holding(q, z)
        BY <1>0, <1>1, SetJobEffect DEF Holding
    <2> QED
        BY <1>1, <2>1, LeaseStutter, LeaseForgotten
<1>2. CASE EnterSlot(r, s)
    <2>1. clock + DispatchTimeout \in Nat
        BY <1>0, BoundsAssumption
    <2>2. exposed' = exposed \/ exposed' = exposed \cup {s}
        BY <1>2 DEF EnterSlot
    <2> QED
        BY <1>0, <1>1, <1>2, <2>1, <2>2, EnteredFields DEF EnterSlot, Holding
<1>3. CASE ClaimLost(r, s)
    BY <1>1, <1>3, NullTypes DEF ClaimLost, Holding, NoJob
<1>4. CASE DispatchEnds(r, s)
    BY <1>0, <1>1, <1>4, SettledFields DEF DispatchEnds, Holding
<1>5. CASE Unschedulable(r, s)
    BY <1>0, <1>1, <1>5, MovedFields DEF Unschedulable, Holding
<1>6. CASE ReleaseRead(r, s)
    <2>1. row[s].cadence \in Cadences
        BY <1>0 DEF Row
    <2>2. exposed' = exposed \/ exposed' = exposed \cup {s}
        BY <1>6 DEF ReleaseRead
    <2> QED
        BY <1>0, <1>1, <1>6, <2>1, <2>2, AdvancingFields DEF ReleaseRead, Holding
<1>7. CASE DispatchTimesOut(r, s)
    <2>1. job[r][s].won => job[r][s].pc \in {"dispatch", "settled", "advancing", "disabling"}
        BY <1>7 DEF DispatchTimesOut, ClaimInv, JobsInPlace, InSlot
    <2> QED
        BY <1>0, <1>1, <1>7, <2>1, InterruptedFields DEF DispatchTimesOut, Holding
<1>8. CASE ClaimWon(r, s) /\ s \notin exposed
    BY <1>8, LeaseTaken DEF Lease!Next
<1>9. CASE ClaimWon(r, s) /\ s \in exposed
    <2>1. PICK j \in Job : SetJob(r, s, j)
        BY <1>0, <1>9, WonFields
    <2>2. /\ exposed' = exposed
          /\ \A q \in Replicas, z \in Schedules : z # s => (Holding(q, z)' <=> Holding(q, z))
          /\ \A z \in Schedules : z # s => row'[z] = row[z]
        BY <1>0, <1>9, <2>1, SetJobEffect DEF Holding, ClaimWon, TypeOK
    <2> QED
        BY <1>9, <2>2, LeaseStutter
<1> QED
    BY <1>2, <1>3, <1>4, <1>5, <1>6, <1>7, <1>8, <1>9, LeaseEnds DEF JobStep

LEMMA LeasePoll ==
    ASSUME ClaimInv, NEW r \in Replicas,
           PollBegin(r) \/ PollEnd(r) \/ PollFails(r) \/ TickEnd(r)
    PROVE  [Lease!Next]_(Lease!lease)
<1>0. TypeOK
    BY DEF ClaimInv
<1>1. CASE PollEnd(r)
    BY <1>1, LeaseReclaimed DEF Lease!Next
<1>2. CASE TickEnd(r)
    BY <1>2, LeaseStutter DEF TickEnd, Holding
<1>3. CASE PollBegin(r) \/ PollFails(r)
    <2>1. row' = row /\ exposed' = exposed /\ \A q \in Replicas : q # r => job'[q] = job[q]
        BY <1>0, <1>3 DEF PollBegin, PollFails, TypeOK
    <2>2. \A s \in Schedules : job'[r][s].pc \in {"none", "stuck"}
        BY <1>0, <1>3, BoundsAssumption, ListedFields DEF PollBegin, PollFails, TypeOK, NoJob
    <2>3. loop[r] \notin {"dispatching", "stopping"}
        BY <1>3 DEF PollBegin, PollFails
    <2>4. \A s \in Schedules : ~Holding(r, s)
        BY <2>3 DEF ClaimInv, JobsInPlace, Holding, InSlot
    <2>5. \A q \in Replicas, s \in Schedules : Holding(q, s)' <=> Holding(q, s)
        BY <2>1, <2>2, <2>4 DEF Holding
    <2> QED
        BY <2>1, <2>5, LeaseStutter
<1> QED
    BY <1>1, <1>2, <1>3

LEMMA LeaseFault ==
    ASSUME ClaimInv, NEW r \in Replicas, Stop(r) \/ Exit(r) \/ Crash(r) \/ Start(r)
    PROVE  [Lease!Next]_(Lease!lease)
<1>0. TypeOK /\ clock \in 0..MaxTime
    BY DEF ClaimInv, TypeOK
<1>1. CASE Exit(r) \/ Start(r)
    BY <1>1, LeaseStutter DEF Exit, Start, Holding
<1>2. CASE Stop(r) \/ Crash(r)
    <2>0. PICK A \in SUBSET (Schedules \ exposed) :
            A = {s \in Schedules \ exposed : Holding(r, s) /\ job'[r][s].pc = "none"}
        OBVIOUS
    <2>1. /\ row' = row /\ exposed' = exposed
          /\ \A q \in Replicas : q # r => job'[q] = job[q]
        BY <1>0, <1>2 DEF Stop, Crash, TypeOK
    <2>2. \A s \in Schedules :
            \/ job'[r][s].pc = "none"
            \/ /\ job[r][s].pc \in InSlot /\ job'[r][s].pc = "settled"
               /\ job'[r][s].won = job[r][s].won
        <3> SUFFICES ASSUME NEW s \in Schedules
                     PROVE  \/ job'[r][s].pc = "none"
                            \/ /\ job[r][s].pc \in InSlot /\ job'[r][s].pc = "settled"
                               /\ job'[r][s].won = job[r][s].won
            OBVIOUS
        <3>1. \/ Cancelled(job[r][s]) = NoJob
              \/ /\ job[r][s].pc \in InSlot /\ Cancelled(job[r][s]).pc = "settled"
                 /\ Cancelled(job[r][s]).won = job[r][s].won
            BY <1>0, InterruptedFields DEF Cancelled, TypeOK
        <3>2. job'[r][s] = NoJob \/ job'[r][s] = Cancelled(job[r][s])
            BY <1>0, <1>2 DEF Stop, Crash, TypeOK
        <3> QED
            BY <3>1, <3>2 DEF NoJob
    <2>3. \A s \in Schedules : job[r][s].pc \in InSlot /\ job[r][s].won =>
            job[r][s].pc \in {"dispatch", "settled", "advancing", "disabling"}
        BY DEF ClaimInv, JobsInPlace, InSlot
    <2>4. \A s \in Schedules \ exposed : Holding(r, s)' <=> Holding(r, s) /\ s \notin A
        BY <2>0, <2>2, <2>3 DEF Holding
    <2>5. \A q \in Replicas, s \in Schedules \ exposed : q # r =>
            (Holding(q, s)' <=> Holding(q, s) /\ s \notin A)
        BY <2>0, <2>1 DEF Holding, ClaimInv, HoldAlone
    <2>6. \A s \in A : Holding(r, s)
        BY <2>0
    <2>7. \A q \in Replicas, s \in Schedules \ exposed :
            Holding(q, s)' <=> Holding(q, s) /\ s \notin A
        BY <2>4, <2>5
    <2>8. Lease!Abandon(r, A)
        BY <2>1, <2>6, <2>7, LeaseAbandoned
    <2>9. A \in SUBSET Schedules
        OBVIOUS
    <2> QED
        BY <2>8, <2>9 DEF Lease!Next
<1> QED
    BY <1>1, <1>2

LEMMA LeaseEdit ==
    ASSUME ClaimInv, NEW s \in Schedules,
           \/ EnableRead(s) \/ DisableRead(s) \/ EditWrite(s)
           \/ \E c \in Cadences : UpsertRead(s, c) \/ DemandRetimes(s, c)
    PROVE  UNCHANGED Lease!lease
<1>1. /\ UNCHANGED <<job, exposed>>
      /\ \A z \in Schedules : row'[z].started = row[z].started
    BY EditKeepsClaim DEF ClaimInv
<1> QED
    BY <1>1, LeaseStutter DEF Holding

LEMMA LeaseStep == ClaimInv /\ [Next]_vars => [Lease!Next]_(Lease!lease)
<1>1. ClaimInv /\ Scheduler => [Lease!Next]_(Lease!lease)
    BY LeasePoll, LeaseJob, LeaseFault DEF Scheduler, Poll
<1>2. ClaimInv /\ Environment => [Lease!Next]_(Lease!lease)
    BY LeaseFault, LeaseEdit DEF Environment
<1>3. Advance \/ UNCHANGED vars => UNCHANGED Lease!lease
    BY LeaseStutter DEF Advance, vars, environment, Holding
<1> QED
    BY <1>1, <1>2, <1>3 DEF Next

LEMMA LeaseInit == Init => Lease!Init
<1> SUFFICES ASSUME Init PROVE Lease!Init
    OBVIOUS
<1>1. \A s \in Schedules : row[s].started = Unclaimed
    BY DEF Init
<1>2. \A r \in Replicas, s \in Schedules : ~Holding(r, s)
    BY DEF Init, NoJob, Holding
<1> QED
    BY <1>1, <1>2 DEF Lease!Init

\* The claim column is a lease: one dispatcher of a schedule at a time, and only
\* abandoned claims are reaped, for every schedule up to the step that exposes it.
THEOREM ClaimIsLease == Spec => ImplementsLease
BY LeaseInit, LeaseStep, InitClaim, NextClaim, PTL DEF Spec, ImplementsLease, Lease!Spec

=============================================================================
