-------------------------- MODULE PlayPoll_proofs --------------------------
(***************************************************************************)
(* Proofs about PlayPoll, for any number of demand triggers, any caps and   *)
(* stretch, and any length of behaviour:                                    *)
(*   - type correctness, with every stored interval between the floor and   *)
(*     a cap;                                                               *)
(*   - ImplementsLease, when no import outlives the lease's TTL;            *)
(*   - NoLostFold, when moreover none outlives the demand staleness bound;  *)
(*   - Covered, when no import outlives the TTL, the TTL fits the longest   *)
(*     interval and the caps are whole minutes.                             *)
(***************************************************************************)
EXTENDS PlayPoll, TLAPS

-----------------------------------------------------------------------------
(* The inductive invariants.                                               *)

\* An empty outcome was only reached below the bound on the streak.
EmptyInBound == \A p \in Pollers :
    task[p].pc = "finishing" /\ task[p].outcome = "empty" => task[p].state.empty < MaxEmpty

TypeInv == TypeOK /\ EmptyInBound

\* The condition under which a holder's lease does not run out.
PollsWithinTTL == PollBound <= ClaimTTL

\* The lease column names the instant its holder was triggered at.
HolderStamped == \A p \in Pollers : Holding(p) => lease = task[p].now

OneHolder == \A p, q \in Pollers : Holding(p) /\ Holding(q) => p = q

ClaimIsNow == \A p \in Pollers : task[p].pc \in {"claiming", "starting"} => task[p].now = clock

HoldIsBounded == \A p \in Pollers : Holding(p) => clock <= task[p].now + PollBound

LeaseInv ==
    PollsWithinTTL /\ TypeInv /\ HolderStamped /\ OneHolder /\ ClaimIsNow /\ HoldIsBounded

\* The condition under which a claim notices a poll that ended since the read.
PollsWithinAge == PollBound <= DemandMaxAge

SamePayload(p) == task[p].state.empty = state.empty /\ task[p].state.gap = state.gap

\* A payload that was overtaken is one whose claim will be refused.
OvertakenIsRefused == \A p \in Pollers : task[p].pc = "claiming" =>
    SamePayload(p) \/ (polled # Never /\ polled >= task[p].now - DemandMaxAge)

FoldInv == PollsWithinAge /\ LeaseInv /\ NoLostFold /\ OvertakenIsRefused

-----------------------------------------------------------------------------
(* What the operators the actions are built from do.                       *)

LEMMA Times == Time \subseteq Nat /\ Stamp \subseteq Int /\ Never \in Stamp /\ Never \notin Time
BY BoundsAssumption DEF Time, Stamp, Never

LEMMA DivNat ==
    ASSUME NEW a \in Nat, NEW b \in Nat \ {0}
    PROVE  a \div b \in Nat
OBVIOUS

LEMMA RoundedNat == ASSUME NEW i \in Nat PROVE Rounded(i) \in Nat
<1> DEFINE m == i \div Minute
<1>1. m \in Nat
    BY DivNat, CadenceAssumption
<1> HIDE DEF m
<1> DEFINE n(up) == Greater(1, IF up THEN m + 1 ELSE m)
<1>2. \A up \in BOOLEAN : n(up) \in Nat
    BY <1>1 DEF Greater
<1> HIDE DEF n
<1>3. \A up \in BOOLEAN : Minute * n(up) \in Nat
    BY <1>2, CadenceAssumption
<1>4. PICK up \in BOOLEAN : Rounded(i) = Minute * n(up)
    BY DEF Rounded, n, m
<1> QED
    BY <1>3, <1>4

LEMMA NextRunNat == ASSUME NEW t \in Nat, NEW i \in Nat PROVE NextRun(t, i) \in Nat
<1>1. t + i \in Nat
    OBVIOUS
<1> DEFINE m == (t + i) \div Minute
<1>2. m \in Nat
    BY <1>1, DivNat, CadenceAssumption
<1> HIDE DEF m
<1>3. m * Minute \in Nat
    BY <1>2, CadenceAssumption
<1> QED
    BY <1>3 DEF NextRun, m

\* Whatever the law computes is clamped between the floor and the cap.
LEMMA ClampedRange ==
    ASSUME NEW i \in Nat, NEW cap \in Caps
    PROVE  Clamped(i, cap) \in MinInterval..cap
BY CadenceAssumption DEF Clamped, Greater, Lesser

LEMMA EffectiveRange ==
    ASSUME NEW s \in PollState, NEW cap \in Caps
    PROVE  Effective(s, cap) \in MinInterval..cap
<1>1. (IF s.interval = 0 THEN BaseInterval ELSE s.interval) \in Nat
    BY CadenceAssumption DEF PollState
<1> QED
    BY <1>1, ClampedRange DEF Effective

LEMMA FoldFields ==
    ASSUME NEW s \in PollState, NEW o \in Outcomes, NEW cap \in Caps,
           o = "empty" => s.empty < MaxEmpty
    PROVE  /\ Fold(s, o, cap) \in PollState
           /\ Fold(s, o, cap).interval \in MinInterval..cap
           /\ o = "failed" => /\ Fold(s, o, cap).empty = s.empty
                              /\ Fold(s, o, cap).gap = s.gap
<1>1. NextInterval(s, o, cap) \in Nat
    <2>1. CASE o = "failed"
        BY <2>1, EffectiveRange, CadenceAssumption DEF NextInterval
    <2>2. CASE o \in {"gap", "adopted"}
        BY <2>2, CadenceAssumption DEF NextInterval
    <2>3. CASE o = "near"
        <3>1. Effective(s, cap) \in Nat
            BY EffectiveRange, CadenceAssumption
        <3>2. Effective(s, cap) \div 2 \in Nat
            BY <3>1
        <3> QED
            BY <2>3, <3>2, CadenceAssumption DEF NextInterval, Greater
    <2>4. CASE o = "productive"
        BY <2>4, CadenceAssumption DEF NextInterval
    <2>5. CASE o = "empty"
        <3>1. s.empty + 1 \in 0..MaxEmpty
            BY <2>5, BoundsAssumption DEF PollState
        <3>2. Stretch(s.empty + 1) \in Nat
            BY <3>1, StretchAssumption
        <3> QED
            BY <2>5, <3>2, CadenceAssumption DEF NextInterval, Lesser
    <2> QED
        BY <2>1, <2>2, <2>3, <2>4, <2>5 DEF Outcomes
<1>2. Clamped(NextInterval(s, o, cap), cap) \in MinInterval..cap
    BY <1>1, ClampedRange
<1>3. NextEmpty(s, o) \in 0..MaxEmpty
    BY BoundsAssumption DEF NextEmpty, PollState, Outcomes
<1>4. NextGap(s, o) \in BOOLEAN
    BY DEF NextGap, PollState
<1>5. o = "failed" => NextEmpty(s, o) = s.empty /\ NextGap(s, o) = s.gap
    BY DEF NextEmpty, NextGap, PollState
<1> DEFINE i == Clamped(NextInterval(s, o, cap), cap)
           e == NextEmpty(s, o)
           g == NextGap(s, o)
<1>6. i \in Nat
    BY <1>2, CadenceAssumption
<1>7. Fold(s, o, cap) = [interval |-> i, empty |-> e, gap |-> g]
    BY DEF Fold
<1> HIDE DEF i, e, g
<1> QED
    BY <1>2, <1>3, <1>4, <1>5, <1>6, <1>7 DEF PollState, i, e, g

LEMMA NoTaskFields == NoTask \in Task /\ NoTask.pc = "idle" /\ NoTask.outcome = "failed"
<1>1. AnyCap \in Caps
    BY CadenceAssumption DEF AnyCap
<1>2. Unset \in PollState
    BY BoundsAssumption DEF Unset, PollState
<1> QED
    BY <1>1, <1>2, BoundsAssumption DEF NoTask, Task, Time, Outcomes

LEMMA MovedFields ==
    ASSUME NEW t \in Task, NEW pc \in {"idle", "polling"} \cup InTransaction
    PROVE  /\ [t EXCEPT !.pc = pc] \in Task
           /\ [t EXCEPT !.pc = pc].pc = pc
           /\ [t EXCEPT !.pc = pc].now = t.now
           /\ [t EXCEPT !.pc = pc].state = t.state
           /\ [t EXCEPT !.pc = pc].cap = t.cap
           /\ [t EXCEPT !.pc = pc].outcome = t.outcome
BY DEF Task

LEMMA EndedFields ==
    ASSUME NEW t \in Task, NEW o \in Outcomes
    PROVE  LET u == [t EXCEPT !.pc = "finishing", !.outcome = o]
           IN  /\ u \in Task /\ u.pc = "finishing" /\ u.outcome = o
               /\ u.now = t.now /\ u.state = t.state
<1> DEFINE v == [t EXCEPT !.pc = "finishing"]
<1>1. v \in Task /\ v.pc = "finishing" /\ v.now = t.now /\ v.state = t.state
    BY MovedFields DEF InTransaction
<1> HIDE DEF v
<1> DEFINE u == [v EXCEPT !.outcome = o]
<1>2. u \in Task /\ u.pc = "finishing" /\ u.outcome = o /\ u.now = t.now /\ u.state = t.state
    BY <1>1 DEF Task
<1> QED
    BY <1>2 DEF v

LEMMA PayloadFields ==
    ASSUME TypeOK, NEW cap \in Caps
    PROVE  /\ Payload(cap) \in Task /\ Payload(cap).pc = "claiming"
           /\ Payload(cap).now = clock /\ Payload(cap).state = state
<1> DEFINE v == [NoTask EXCEPT !.pc = "claiming"]
           u == [v EXCEPT !.now = clock]
           w == [u EXCEPT !.cap = cap]
           x == [w EXCEPT !.state = state]
<1>1. v \in Task /\ v.pc = "claiming"
    BY NoTaskFields, MovedFields DEF InTransaction
<1> HIDE DEF v
<1>2. u \in Task /\ u.pc = "claiming" /\ u.now = clock
    BY <1>1 DEF Task, TypeOK
<1> HIDE DEF u
<1>3. w \in Task /\ w.pc = "claiming" /\ w.now = clock
    BY <1>2 DEF Task
<1> HIDE DEF w
<1>4. x \in Task /\ x.pc = "claiming" /\ x.now = clock /\ x.state = state
    BY <1>3 DEF Task, TypeOK
<1>5. Payload(cap) = x
    BY DEF Payload, x, w, u, v
<1> QED
    BY <1>4, <1>5

\* One step of one poller changes its task only.
LEMMA SetTaskEffect ==
    ASSUME TypeOK, NEW p \in Pollers, NEW t \in Task, SetTask(p, t)
    PROVE  /\ task' \in [Pollers -> Task]
           /\ task'[p] = t
           /\ \A q \in Pollers : q # p => task'[q] = task[q]
BY DEF TypeOK, SetTask

LEMMA StepEffect ==
    ASSUME TypeOK, NEW p \in Pollers,
           NEW pc \in {"idle", "polling"} \cup InTransaction, Step(p, pc)
    PROVE  /\ task' \in [Pollers -> Task]
           /\ task'[p].pc = pc /\ task'[p].now = task[p].now /\ task'[p].state = task[p].state
           /\ \A q \in Pollers : q # p => task'[q] = task[q]
<1> DEFINE t == [task[p] EXCEPT !.pc = pc]
<1>1. t \in Task /\ t.pc = pc /\ t.now = task[p].now /\ t.state = task[p].state
    BY MovedFields DEF TypeOK
<1>2. SetTask(p, t)
    BY DEF Step
<1> HIDE DEF t
<1> QED
    BY <1>1, <1>2, SetTaskEffect

LEMMA LeaveEffect ==
    ASSUME TypeOK, NEW p \in Pollers, Leave(p)
    PROVE  /\ task' \in [Pollers -> Task]
           /\ task'[p].pc \in {"idle", "releasing"}
           /\ \A q \in Pollers : q # p => task'[q] = task[q]
<1> DEFINE t == IF p = Heartbeat THEN [NoTask EXCEPT !.pc = "releasing"] ELSE NoTask
<1>1. t \in Task /\ t.pc \in {"idle", "releasing"}
    BY NoTaskFields, MovedFields DEF InTransaction
<1>2. SetTask(p, t)
    BY DEF Leave
<1> HIDE DEF t
<1> QED
    BY <1>1, <1>2, SetTaskEffect

LEMMA HeartbeatPolls == Heartbeat \in Pollers
BY DEF Pollers

\* The writes to the schedule row.
LEMMA AdvancedType ==
    ASSUME TypeOK, NEW i \in Nat
    PROVE  Advanced(i) \in Schedule
<1> DEFINE n == NextRun(clock, i)
<1>1. n \in Nat
    BY NextRunNat, Times DEF TypeOK
<1>2. Advanced(i) = [schedule EXCEPT !.claimed = Never, !.next = n]
    BY DEF Advanced
<1> HIDE DEF n
<1> QED
    BY <1>1, <1>2, Times DEF TypeOK, Schedule

LEMMA RetimedType ==
    ASSUME TypeOK, NEW p \in Pollers, NEW i \in Nat
    PROVE  Retimed(p, i) \in Schedule
<1> DEFINE r == Rounded(i)
<1>1. r \in Nat
    BY RoundedNat
<1>2. task[p].now + i \in Nat
    <2>1. task[p].now \in Time
        BY DEF TypeOK, Task
    <2>2. PICK t \in Nat : t = task[p].now
        BY <2>1, Times
    <2> QED
        BY <2>2
<1>3. Retimed(p, i) = IF p = Heartbeat
                      THEN [schedule EXCEPT !.interval = r]
                      ELSE [schedule EXCEPT !.interval = r, !.next = task[p].now + i]
    BY DEF Retimed
<1> HIDE DEF r
<1> QED
    BY <1>1, <1>2, <1>3 DEF TypeOK, Schedule

LEMMA EditedType ==
    ASSUME TypeOK
    PROVE  Enabled \in Schedule /\ Disabled \in Schedule
BY CadenceAssumption, Times DEF TypeOK, Schedule, Enabled, Disabled
-----------------------------------------------------------------------------
(* Types.                                                                  *)

LEMMA TypeInit == Init => TypeInv
<1> SUFFICES ASSUME Init PROVE TypeInv
    OBVIOUS
<1>1. TypeOK
    BY NoTaskFields, Times, CadenceAssumption, BoundsAssumption
    DEF Init, TypeOK, Unset, PollState, Schedule, Time, Stamp, Never
<1>2. EmptyInBound
    BY NoTaskFields DEF Init, EmptyInBound
<1> QED
    BY <1>1, <1>2 DEF TypeInv

\* What a step that only moves one task has to show.
LEMMA TaskStepType ==
    ASSUME TypeInv, NEW p \in Pollers,
           task' \in [Pollers -> Task],
           task'[p].pc = "finishing" /\ task'[p].outcome = "empty"
               => task'[p].state.empty < MaxEmpty,
           \A q \in Pollers : q # p => task'[q] = task[q]
    PROVE  EmptyInBound'
BY DEF TypeInv, EmptyInBound

LEMMA TypeStep == TypeInv /\ [Next]_vars => TypeInv'
<1> SUFFICES ASSUME TypeInv, [Next]_vars PROVE TypeInv'
    OBVIOUS
<1> USE DEF TypeInv
<1>1. ASSUME NEW p \in Pollers, NEW cap \in Caps, Decide(p, cap) PROVE TypeInv'
    <2>1. SetTask(p, Payload(cap)) /\ UNCHANGED <<clock, checkpoint, schedule, attempted, environment>>
        BY <1>1 DEF Decide
    <2>2. task' \in [Pollers -> Task] /\ task'[p].pc = "claiming"
          /\ \A q \in Pollers : q # p => task'[q] = task[q]
        BY <2>1, PayloadFields, SetTaskEffect
    <2> QED
        BY <2>1, <2>2, TaskStepType DEF TypeOK, checkpoint, environment
<1>2. ASSUME NEW p \in Pollers, ClaimWon(p) PROVE TypeInv'
    <2>1. task' \in [Pollers -> Task] /\ task'[p].pc = "starting"
          /\ \A q \in Pollers : q # p => task'[q] = task[q]
        BY <1>2, StepEffect DEF ClaimWon, InTransaction
    <2>2. task[p].now \in Time /\ task[p].now \in Stamp
        BY DEF TypeOK, Task, Stamp
    <2> QED
        BY <1>2, <2>1, <2>2, TaskStepType DEF ClaimWon, TypeOK, environment
<1>3. ASSUME NEW p \in Pollers, ClaimLost(p) \/ StatementFails(p) PROVE TypeInv'
    <2>1. Leave(p)
        BY <1>3 DEF ClaimLost, StatementFails
    <2> QED
        BY <1>3, <2>1, LeaveEffect, TaskStepType, BoundsAssumption
        DEF ClaimLost, StatementFails, TypeOK, checkpoint, environment
<1>4. ASSUME NEW p \in Pollers, StartRun(p) PROVE TypeInv'
    <2>1. task' \in [Pollers -> Task] /\ task'[p].pc = "polling"
          /\ \A q \in Pollers : q # p => task'[q] = task[q]
        BY <1>4, StepEffect DEF StartRun
    <2> QED
        BY <1>4, <2>1, TaskStepType DEF StartRun, TypeOK, checkpoint, environment
<1>5. ASSUME NEW p \in Pollers, NEW o \in Outcomes, PollEnds(p, o) PROVE TypeInv'
    <2> DEFINE t == [task[p] EXCEPT !.pc = "finishing", !.outcome = o]
    <2>1. t \in Task /\ t.outcome = o /\ t.state = task[p].state
        BY EndedFields DEF TypeOK
    <2>2. SetTask(p, t) /\ (o = "empty" => task[p].state.empty < MaxEmpty)
          /\ UNCHANGED <<clock, checkpoint, schedule, attempted, environment>>
        BY <1>5 DEF PollEnds
    <2> HIDE DEF t
    <2>3. task' \in [Pollers -> Task] /\ task'[p] = t
          /\ \A q \in Pollers : q # p => task'[q] = task[q]
        BY <2>1, <2>2, SetTaskEffect
    <2> QED
        BY <2>1, <2>2, <2>3, TaskStepType DEF TypeOK, checkpoint, environment
<1>6. ASSUME NEW p \in Pollers, FinishPoll(p) PROVE TypeInv'
    <2> DEFINE s == Fold(task[p].state, task[p].outcome, task[p].cap)
    <2>1. task[p].state \in PollState /\ task[p].outcome \in Outcomes /\ task[p].cap \in Caps
          /\ task[p].now \in Stamp
        BY DEF TypeOK, Task, Stamp
    <2>2. task[p].outcome = "empty" => task[p].state.empty < MaxEmpty
        BY <1>6 DEF FinishPoll, EmptyInBound
    <2>3. s \in PollState /\ s.interval \in MinInterval..task[p].cap
        BY <2>1, <2>2, FoldFields
    <2>4. state' = s /\ schedule' = Retimed(p, state'.interval)
        BY <1>6 DEF FinishPoll
    <2> HIDE DEF s
    <2>5. schedule' \in Schedule
        <3>1. s.interval \in Nat
            BY <2>3 DEF PollState
        <3> QED
            BY <2>4, <3>1, RetimedType
    <2>6. task' \in [Pollers -> Task] /\ task'[p].pc # "finishing"
          /\ \A q \in Pollers : q # p => task'[q] = task[q]
        BY <1>6, LeaveEffect DEF FinishPoll
    <2>7. lease' \in Stamp /\ polled' \in Stamp
        BY <1>6, <2>1, Times DEF FinishPoll, TypeOK
    <2>8. UNCHANGED <<clock, attempted, environment>>
        BY <1>6 DEF FinishPoll
    <2> QED
        BY <2>1, <2>3, <2>4, <2>5, <2>6, <2>7, <2>8, TaskStepType DEF TypeOK, environment
<1>7. ASSUME NEW p \in Pollers, Crash(p) PROVE TypeInv'
    <2>1. task' \in [Pollers -> Task] /\ task'[p].pc = "idle"
          /\ \A q \in Pollers : q # p => task'[q] = task[q]
        BY <1>7, NoTaskFields, SetTaskEffect DEF Crash
    <2> QED
        BY <1>7, <2>1, TaskStepType, BoundsAssumption DEF Crash, TypeOK, checkpoint
<1>8. CASE BeatDue
    <2>1. task' \in [Pollers -> Task] /\ task'[Heartbeat].pc = "beating"
          /\ \A q \in Pollers : q # Heartbeat => task'[q] = task[q]
        BY <1>8, StepEffect, HeartbeatPolls DEF BeatDue, InTransaction
    <2>2. schedule' \in Schedule
        BY <1>8 DEF BeatDue, TypeOK, Schedule, Stamp
    <2> QED
        BY <1>8, <2>1, <2>2, TaskStepType, HeartbeatPolls DEF BeatDue, TypeOK, checkpoint, environment
<1>9. ASSUME NEW cap \in Caps, Vetoed(cap) PROVE TypeInv'
    BY <1>9, LeaveEffect, TaskStepType, HeartbeatPolls DEF Vetoed, TypeOK, checkpoint, environment
<1>10. CASE ReleaseRead
    <2> DEFINE v == [NoTask EXCEPT !.pc = "advancing"]
               t == [v EXCEPT !.interval = schedule.interval]
    <2>1. v \in Task /\ v.pc = "advancing"
        BY NoTaskFields, MovedFields DEF InTransaction
    <2> HIDE DEF v
    <2>2. t \in Task /\ t.pc = "advancing"
        BY <2>1 DEF Task, TypeOK, Schedule
    <2>3. SetTask(Heartbeat, t)
        BY <1>10 DEF ReleaseRead, v
    <2> HIDE DEF t
    <2>4. task' \in [Pollers -> Task] /\ task'[Heartbeat].pc = "advancing"
          /\ \A q \in Pollers : q # Heartbeat => task'[q] = task[q]
        BY <2>2, <2>3, SetTaskEffect, HeartbeatPolls
    <2> QED
        BY <1>10, <2>4, TaskStepType, HeartbeatPolls DEF ReleaseRead, TypeOK, checkpoint, environment
<1>11. ASSUME ReleaseWrite \/ ReleaseFails PROVE TypeInv'
    <2>1. task' \in [Pollers -> Task] /\ task'[Heartbeat].pc = "idle"
          /\ \A q \in Pollers : q # Heartbeat => task'[q] = task[q]
        BY <1>11, NoTaskFields, SetTaskEffect, HeartbeatPolls DEF ReleaseWrite, ReleaseFails
    <2>2. schedule' \in Schedule
        <3>1. task[Heartbeat].interval \in Nat
            BY HeartbeatPolls DEF TypeOK, Task
        <3> QED
            BY <1>11, <3>1, AdvancedType DEF ReleaseWrite, ReleaseFails, TypeOK
    <2> QED
        BY <1>11, <2>1, <2>2, TaskStepType, HeartbeatPolls, BoundsAssumption
        DEF ReleaseWrite, ReleaseFails, TypeOK, checkpoint, environment
<1>12. CASE Reap
    <2>1. schedule' \in Schedule
        BY <1>12, AdvancedType DEF Reap, TypeOK, Schedule
    <2> QED
        BY <1>12, <2>1 DEF Reap, TypeOK, EmptyInBound, checkpoint, environment
<1>13. ASSUME NEW grant \in BOOLEAN, NEW row \in Schedule, Edit(grant, row) PROVE TypeInv'
    <2>1. attempted' \in Time /\ edits' \in 0..MaxEdits
        BY <1>13, BoundsAssumption DEF Edit, TypeOK
    <2> QED
        BY <1>13, <2>1 DEF Edit, TypeOK, EmptyInBound, checkpoint
<1>14. CASE Toggle \/ Connect \/ Disconnect
    <2>1. schedule \in Schedule /\ granted \in BOOLEAN
        BY DEF TypeOK
    <2> QED
        BY <1>13, <1>14, <2>1, EditedType DEF Toggle, Connect, Disconnect
<1>15. CASE Advance
    <2>1. clock' \in Time
        BY <1>15, BoundsAssumption DEF Advance, TypeOK, Time
    <2> QED
        BY <1>15, <2>1 DEF Advance, TypeOK, EmptyInBound, checkpoint, environment
<1>16. CASE UNCHANGED vars
    BY <1>16 DEF vars, TypeOK, EmptyInBound
<1> QED
    BY <1>1, <1>2, <1>3, <1>4, <1>5, <1>6, <1>7, <1>8, <1>9, <1>10, <1>11, <1>12, <1>14, <1>15, <1>16
    DEF Next, Poll, Beat

\* Every reachable state is well typed: whatever a poll ends in, the stored
\* interval stays between the floor and a cap, and times stay within bounds.
THEOREM PollTypeCorrect == Spec => []TypeOK
<1>1. TypeInv => TypeOK
    BY DEF TypeInv
<1> QED
    BY <1>1, TypeInit, TypeStep, PTL DEF Spec

-----------------------------------------------------------------------------
(* The steps, as far as the lease is concerned.                            *)

Others(p) == \A q \in Pollers : q # p => task'[q] = task[q]

\* A poller reads and decides to poll; a holder goes on; a poller without the
\* lease moves, or a holder gives up without releasing it.
Reads(p) ==
    task'[p].pc = "claiming" /\ task'[p].now = clock /\ task'[p].state = state

Proceeds(p) ==
    /\ Holding(p)
    /\ task'[p].pc \in {"polling", "finishing"}
    /\ task'[p].now = task[p].now /\ task'[p].state = task[p].state

Quits(p) == task'[p].pc \in {"idle", "beating", "releasing", "advancing"}

Moves(p) ==
    /\ UNCHANGED <<clock, lease, polled, state>>
    /\ Others(p)
    /\ Reads(p) \/ Proceeds(p) \/ Quits(p)

Rests == UNCHANGED <<clock, lease, polled, state, task>>

LEMMA StepMoves ==
    ASSUME TypeInv, [Next]_vars
    PROVE  \/ Rests \/ Advance
           \/ \E p \in Pollers : Moves(p) \/ ClaimWon(p) \/ FinishPoll(p)
<1> USE DEF TypeInv, checkpoint, environment
<1>1. ASSUME NEW p \in Pollers, NEW cap \in Caps, Decide(p, cap) PROVE Moves(p)
    BY <1>1, PayloadFields, SetTaskEffect DEF Decide, Moves, Others, Reads
<1>2. ASSUME NEW p \in Pollers, ClaimLost(p) \/ StatementFails(p) PROVE Moves(p)
    BY <1>2, LeaveEffect DEF ClaimLost, StatementFails, Moves, Others, Quits
<1>3. ASSUME NEW p \in Pollers, StartRun(p) PROVE Moves(p)
    BY <1>3, StepEffect DEF StartRun, Moves, Others, Proceeds, Holding
<1>4. ASSUME NEW p \in Pollers, NEW o \in Outcomes, PollEnds(p, o) PROVE Moves(p)
    <2> DEFINE t == [task[p] EXCEPT !.pc = "finishing", !.outcome = o]
    <2>1. t \in Task /\ t.pc = "finishing" /\ t.now = task[p].now /\ t.state = task[p].state
        BY EndedFields DEF TypeOK
    <2>2. SetTask(p, t) /\ task[p].pc = "polling" /\ UNCHANGED <<clock, lease, polled, state>>
        BY <1>4 DEF PollEnds
    <2> HIDE DEF t
    <2>3. task'[p] = t /\ Others(p)
        BY <2>1, <2>2, SetTaskEffect DEF Others
    <2> QED
        BY <2>1, <2>2, <2>3 DEF Moves, Proceeds, Holding
<1>5. ASSUME NEW p \in Pollers, Crash(p) PROVE Moves(p)
    BY <1>5, NoTaskFields, SetTaskEffect DEF Crash, Moves, Others, Quits
<1>6. CASE BeatDue
    BY <1>6, StepEffect, HeartbeatPolls DEF BeatDue, InTransaction, Moves, Others, Quits
<1>7. ASSUME NEW cap \in Caps, Vetoed(cap) PROVE Moves(Heartbeat)
    BY <1>7, LeaveEffect, HeartbeatPolls DEF Vetoed, Moves, Others, Quits
<1>8. CASE ReleaseRead
    <2> DEFINE v == [NoTask EXCEPT !.pc = "advancing"]
               t == [v EXCEPT !.interval = schedule.interval]
    <2>1. v \in Task /\ v.pc = "advancing"
        BY NoTaskFields, MovedFields DEF InTransaction
    <2> HIDE DEF v
    <2>2. t \in Task /\ t.pc = "advancing"
        BY <2>1 DEF Task, TypeOK, Schedule
    <2>3. SetTask(Heartbeat, t) /\ UNCHANGED <<clock, lease, polled, state>>
        BY <1>8 DEF ReleaseRead, v
    <2> HIDE DEF t
    <2> QED
        BY <2>2, <2>3, SetTaskEffect, HeartbeatPolls DEF Moves, Others, Quits
<1>9. ASSUME ReleaseWrite \/ ReleaseFails PROVE Moves(Heartbeat)
    BY <1>9, NoTaskFields, SetTaskEffect, HeartbeatPolls
    DEF ReleaseWrite, ReleaseFails, Moves, Others, Quits
<1>10. CASE Reap \/ Toggle \/ Connect \/ Disconnect \/ UNCHANGED vars
    BY <1>10 DEF Reap, Toggle, Connect, Disconnect, Edit, vars, Rests
<1> QED
    BY <1>1, <1>2, <1>3, <1>4, <1>5, <1>6, <1>7, <1>8, <1>9, <1>10, HeartbeatPolls
    DEF Next, Poll, Beat

LEMMA ClaimEffect ==
    ASSUME TypeInv, NEW p \in Pollers, ClaimWon(p)
    PROVE  /\ Others(p) /\ UNCHANGED <<clock, polled, state>>
           /\ lease' = task[p].now
           /\ task'[p].pc = "starting" /\ task'[p].now = task[p].now
           /\ task'[p].state = task[p].state
BY StepEffect DEF TypeInv, ClaimWon, InTransaction, Others

LEMMA FinishEffect ==
    ASSUME TypeInv, NEW p \in Pollers, FinishPoll(p)
    PROVE  /\ Others(p) /\ Quits(p) /\ Holding(p) /\ clock' = clock /\ lease' = Never
BY LeaveEffect DEF TypeInv, FinishPoll, Others, Quits, Holding

\* A claim is only won while nobody holds the lease: it is free or run out.
LEMMA ClaimFindsNobody ==
    ASSUME LeaseInv, NEW p \in Pollers, ClaimWon(p)
    PROVE  /\ \A q \in Pollers : ~Holding(q)
           /\ lease = Never \/ lease + ClaimTTL < clock
<1>1. task[p].now = clock /\ clock \in Nat /\ lease \in Int
    BY Times DEF LeaseInv, TypeInv, TypeOK, ClaimIsNow, ClaimWon
<1>2. lease = Never \/ lease + ClaimTTL < clock
    BY <1>1, LeaseAssumption DEF ClaimWon, Claimable
<1>3. ASSUME NEW q \in Pollers, Holding(q) PROVE FALSE
    <2>1. lease = task[q].now /\ task[q].now \in Time /\ clock <= task[q].now + PollBound
        BY <1>3 DEF LeaseInv, HolderStamped, HoldIsBounded, TypeInv, TypeOK, Task
    <2> QED
        BY <1>1, <1>2, <2>1, Times, LeaseAssumption DEF LeaseInv, PollsWithinTTL
<1> QED
    BY <1>2, <1>3

LEMMA LeaseInvInit == PollsWithinTTL /\ Init => LeaseInv
BY TypeInit, NoTaskFields
DEF Init, LeaseInv, HolderStamped, OneHolder, ClaimIsNow, HoldIsBounded, Holding

LEMMA LeaseInvStep == LeaseInv /\ [Next]_vars => LeaseInv'
<1> SUFFICES ASSUME LeaseInv, [Next]_vars PROVE LeaseInv'
    OBVIOUS
<1>1. TypeInv /\ TypeInv' /\ PollsWithinTTL'
    BY TypeStep DEF LeaseInv, PollsWithinTTL
<1> DEFINE Rest == HolderStamped /\ OneHolder /\ ClaimIsNow /\ HoldIsBounded
<1>2. ASSUME NEW p \in Pollers, Moves(p) PROVE Rest'
    <2>1. \A q \in Pollers : Holding(q)' =>
            Holding(q) /\ task'[q].now = task[q].now
        BY <1>2 DEF Moves, Others, Reads, Proceeds, Quits, Holding
    <2>2. \A q \in Pollers : task'[q].pc \in {"claiming", "starting"} => task'[q].now = clock
        BY <1>2 DEF Moves, Others, Reads, Proceeds, Quits, LeaseInv, ClaimIsNow
    <2> QED
        BY <1>2, <2>1, <2>2
        DEF Moves, LeaseInv, HolderStamped, OneHolder, ClaimIsNow, HoldIsBounded
<1>3. ASSUME NEW p \in Pollers, ClaimWon(p) PROVE Rest'
    <2>1. \A q \in Pollers : ~Holding(q)
        BY <1>3, ClaimFindsNobody
    <2>2. /\ Others(p) /\ clock' = clock /\ lease' = task[p].now
          /\ task'[p].pc = "starting" /\ task'[p].now = task[p].now
        BY <1>1, <1>3, ClaimEffect
    <2>3. \A q \in Pollers : Holding(q)' => q = p
        BY <2>1, <2>2 DEF Others, Holding
    <2>4. task[p].now = clock /\ clock <= clock + PollBound
        BY <1>1, <1>3, Times, LeaseAssumption DEF LeaseInv, ClaimIsNow, ClaimWon, TypeInv, TypeOK
    <2>5. ClaimIsNow'
        BY <2>2, <2>4 DEF LeaseInv, ClaimIsNow, Others
    <2> QED
        BY <2>2, <2>3, <2>4, <2>5 DEF HolderStamped, OneHolder, HoldIsBounded
<1>4. ASSUME NEW p \in Pollers, FinishPoll(p) PROVE Rest'
    <2>1. Others(p) /\ Quits(p) /\ Holding(p) /\ clock' = clock
        BY <1>1, <1>4, FinishEffect
    <2>2. \A q \in Pollers : ~Holding(q)'
        BY <2>1 DEF Others, Quits, Holding, LeaseInv, OneHolder
    <2>3. ClaimIsNow'
        BY <2>1 DEF LeaseInv, ClaimIsNow, Others, Quits
    <2> QED
        BY <2>2, <2>3 DEF HolderStamped, OneHolder, HoldIsBounded
<1>5. ASSUME Advance PROVE Rest'
    <2>1. task' = task /\ lease' = lease /\ clock' = clock + 1
        BY <1>5 DEF Advance, checkpoint
    <2>2. \A q \in Pollers : Holding(q) => clock + 1 <= task[q].now + PollBound
        <3>1. ASSUME NEW q \in Pollers, Holding(q) PROVE clock + 1 <= task[q].now + PollBound
            <4>1. clock < task[q].now + PollBound
                BY <1>5, <3>1 DEF Advance, Holding, InTransaction
            <4>2. task[q].now \in Time /\ clock \in Time
                BY <1>1 DEF TypeInv, TypeOK, Task
            <4>3. PICK m \in Nat, n \in Nat : m = task[q].now /\ n = clock
                BY <4>2, Times
            <4> QED
                BY <4>1, <4>3, LeaseAssumption
        <3> QED
            BY <3>1
    <2>3. ClaimIsNow'
        BY <1>5, <2>1 DEF Advance, ClaimIsNow, InTransaction
    <2> QED
        BY <2>1, <2>2, <2>3 DEF LeaseInv, HolderStamped, OneHolder, HoldIsBounded, Holding
<1>6. ASSUME Rests PROVE Rest'
    BY <1>6 DEF Rests, LeaseInv, HolderStamped, OneHolder, ClaimIsNow, HoldIsBounded, Holding
<1>7. Rest'
    BY <1>1, <1>2, <1>3, <1>4, <1>5, <1>6, StepMoves
<1> QED
    BY <1>1, <1>7 DEF LeaseInv

-----------------------------------------------------------------------------
(* No fold is lost.                                                        *)

\* What finish_poll writes: a failed poll keeps streak, flag and poll time,
\* any other stamps the checkpoint with its trigger.
LEMMA FinishWrites ==
    ASSUME LeaseInv, NoLostFold, NEW p \in Pollers, FinishPoll(p)
    PROVE  \/ state'.empty = state.empty /\ state'.gap = state.gap /\ polled' = polled
           \/ polled' = task[p].now
<1>1. CASE task[p].outcome = "failed"
    <2>1. task[p].state \in PollState /\ task[p].outcome \in Outcomes /\ task[p].cap \in Caps
        BY DEF LeaseInv, TypeInv, TypeOK, Task
    <2>2. state' = Fold(task[p].state, task[p].outcome, task[p].cap) /\ polled' = polled
        BY <1>1 DEF FinishPoll
    <2>3. state'.empty = task[p].state.empty /\ state'.gap = task[p].state.gap
        BY <1>1, <2>1, <2>2, FoldFields
    <2>4. SamePayload(p)
        BY FinishEffect DEF LeaseInv, NoLostFold, SamePayload
    <2> QED
        BY <2>2, <2>3, <2>4 DEF SamePayload
<1>2. CASE task[p].outcome # "failed"
    BY <1>2 DEF FinishPoll
<1> QED
    BY <1>1, <1>2

\* A claim that is won was not overtaken.
LEMMA ClaimIsFresh ==
    ASSUME FoldInv, NEW p \in Pollers, ClaimWon(p)
    PROVE  SamePayload(p)
<1> DEFINE age == MaxAge(p, task[p].state, task[p].cap)
<1>1. age \in Nat /\ DemandMaxAge <= age
    <2>1. task[p].state \in PollState /\ task[p].cap \in Caps
        BY DEF FoldInv, LeaseInv, TypeInv, TypeOK, Task
    <2>2. Effective(task[p].state, task[p].cap) \in MinInterval..task[p].cap
        BY <2>1, EffectiveRange
    <2> QED
        BY <2>1, <2>2, CadenceAssumption, LeaseAssumption DEF MaxAge
<1>2. polled = Never \/ polled < task[p].now - age
    BY DEF ClaimWon, Claimable
<1> HIDE DEF age
<1>3. PICK n \in Nat, m \in Int : n = task[p].now /\ m = polled
    BY Times DEF FoldInv, LeaseInv, TypeInv, TypeOK, Task
<1>4. polled # Never => ~(polled >= task[p].now - DemandMaxAge)
    BY <1>1, <1>2, <1>3, LeaseAssumption
<1> QED
    BY <1>4 DEF FoldInv, OvertakenIsRefused, ClaimWon

LEMMA FoldInvInit == PollsWithinAge /\ PollsWithinTTL /\ Init => FoldInv
BY LeaseInvInit, NoTaskFields DEF Init, FoldInv, NoLostFold, OvertakenIsRefused, Holding

LEMMA FoldInvStep == FoldInv /\ [Next]_vars => FoldInv'
<1> SUFFICES ASSUME FoldInv, [Next]_vars PROVE FoldInv'
    OBVIOUS
<1>1. LeaseInv /\ LeaseInv' /\ PollsWithinAge'
    BY LeaseInvStep DEF FoldInv, PollsWithinAge
<1>2. TypeInv
    BY <1>1 DEF LeaseInv
<1> DEFINE Fresh == NoLostFold /\ OvertakenIsRefused
<1>3. ASSUME NEW p \in Pollers, Moves(p) PROVE Fresh'
    <2>1. NoLostFold'
        BY <1>3 DEF FoldInv, NoLostFold, Moves, Others, Reads, Proceeds, Quits, Holding
    <2>2. OvertakenIsRefused'
        BY <1>3 DEF FoldInv, OvertakenIsRefused, SamePayload,
                    Moves, Others, Reads, Proceeds, Quits
    <2> QED
        BY <2>1, <2>2
<1>4. ASSUME NEW p \in Pollers, ClaimWon(p) PROVE Fresh'
    <2>1. SamePayload(p)
        BY <1>4, ClaimIsFresh
    <2>2. /\ Others(p) /\ UNCHANGED <<polled, state>>
          /\ task'[p].pc = "starting" /\ task'[p].state = task[p].state
        BY <1>2, <1>4, ClaimEffect
    <2>3. NoLostFold'
        BY <2>1, <2>2 DEF FoldInv, NoLostFold, SamePayload, Others, Holding
    <2>4. OvertakenIsRefused'
        BY <2>2 DEF FoldInv, OvertakenIsRefused, SamePayload, Others
    <2> QED
        BY <2>3, <2>4
<1>5. ASSUME NEW p \in Pollers, FinishPoll(p) PROVE Fresh'
    <2>1. Others(p) /\ Quits(p) /\ Holding(p)
        BY <1>2, <1>5, FinishEffect
    <2>2. \A q \in Pollers : ~Holding(q)'
        BY <1>1, <2>1 DEF Others, Quits, Holding, LeaseInv, OneHolder
    <2>3. ASSUME NEW q \in Pollers, task'[q].pc = "claiming"
          PROVE  \/ SamePayload(q)'
                 \/ polled' # Never /\ polled' >= task'[q].now - DemandMaxAge
        <3>1. q # p /\ task'[q] = task[q] /\ task[q].pc = "claiming"
            BY <2>1, <2>3 DEF Others, Quits
        <3>2. CASE state'.empty = state.empty /\ state'.gap = state.gap /\ polled' = polled
            BY <3>1, <3>2 DEF FoldInv, OvertakenIsRefused, SamePayload
        <3>3. CASE polled' = task[p].now
            <4>1. task[p].now \in Time /\ task[q].now = clock /\ clock \in Time
                  /\ clock <= task[p].now + PollBound
                BY <1>1, <1>2, <2>1, <3>1
                DEF LeaseInv, ClaimIsNow, HoldIsBounded, TypeInv, TypeOK, Task
            <4>2. PICK m \in Nat, n \in Nat : m = task[p].now /\ n = clock
                BY <4>1, Times
            <4>3. polled' >= task'[q].now - DemandMaxAge
                BY <3>1, <3>3, <4>1, <4>2, LeaseAssumption DEF FoldInv, PollsWithinAge
            <4>4. polled' # Never
                BY <3>3, <4>1, Times
            <4> QED
                BY <4>3, <4>4
        <3> QED
            BY <1>1, <1>5, <3>2, <3>3, FinishWrites DEF FoldInv
    <2> QED
        BY <2>2, <2>3 DEF NoLostFold, OvertakenIsRefused
<1>6. ASSUME Advance \/ Rests PROVE Fresh'
    BY <1>6 DEF Advance, Rests, checkpoint, FoldInv, NoLostFold, OvertakenIsRefused,
                SamePayload, Holding
<1>7. Fresh'
    BY <1>2, <1>3, <1>4, <1>5, <1>6, StepMoves
<1> QED
    BY <1>1, <1>7 DEF FoldInv

\* While imports end within the demand staleness bound and the TTL, every poll
\* folds its outcome into the state that is stored: a poll that ended between
\* another trigger's read and its claim makes the claim fail.
THEOREM FoldNeverLost == PollsWithinAge /\ PollsWithinTTL /\ Spec => []NoLostFold
<1>1. FoldInv => NoLostFold
    BY DEF FoldInv
<1>2. PollsWithinAge /\ PollsWithinTTL /\ Spec => []FoldInv
    BY FoldInvInit, FoldInvStep, PTL DEF Spec
<1> QED
    BY <1>1, <1>2, PTL

-----------------------------------------------------------------------------
(* The lease column is a lease.                                            *)

Taken == IF lease # Never /\ clock <= lease + ClaimTTL THEN {"poll"} ELSE {}
Holders == [s \in {"poll"} |-> {p \in Pollers : Holding(p)}]

LEMMA HolderHasLease ==
    ASSUME LeaseInv, NEW p \in Pollers, Holding(p)
    PROVE  Taken = {"poll"} /\ {q \in Pollers : Holding(q)} = {p}
<1>1. lease = task[p].now /\ task[p].now \in Time /\ clock \in Time
      /\ clock <= task[p].now + PollBound
    BY DEF LeaseInv, HolderStamped, HoldIsBounded, TypeInv, TypeOK, Task
<1>2. PICK m \in Nat, n \in Nat : m = task[p].now /\ n = clock
    BY <1>1, Times
<1>3. clock <= lease + ClaimTTL
    BY <1>1, <1>2, LeaseAssumption DEF LeaseInv, PollsWithinTTL
<1>4. lease # Never
    BY <1>1, Times
<1> QED
    BY <1>3, <1>4 DEF Taken, LeaseInv, OneHolder

LEMMA LeaseInit == Init => Lease!Init
BY NoTaskFields DEF Init, Lease!Init, Holding

LEMMA LeaseStep == LeaseInv /\ LeaseInv' /\ [Next]_vars => [Lease!Next]_(Lease!lease)
<1> SUFFICES ASSUME LeaseInv, LeaseInv', [Next]_vars
             PROVE  Lease!Next \/ (Taken' = Taken /\ Holders' = Holders)
    BY DEF Lease!lease, Taken, Holders
<1> DEFINE holding == {p \in Pollers : Holding(p)}
<1>a. /\ Holders = [s \in {"poll"} |-> holding]
      /\ Holders' = [s \in {"poll"} |-> holding']
    BY DEF Holders
<1>b. TypeInv /\ TypeInv'
    BY DEF LeaseInv
<1>1. ASSUME NEW p \in Pollers, Moves(p)
      PROVE  Lease!Next \/ (Taken' = Taken /\ Holders' = Holders)
    <2>1. Taken' = Taken
        BY <1>1 DEF Moves, Taken
    <2>2. CASE Holding(p)' \/ ~Holding(p)
        <3>1. holding' = holding
            BY <1>1, <2>2 DEF Moves, Others, Reads, Proceeds, Quits, Holding
        <3> QED
            BY <1>a, <2>1, <3>1
    <2>3. CASE Holding(p) /\ ~Holding(p)'
        <3>1. Taken = {"poll"} /\ holding = {p}
            BY <2>3, HolderHasLease
        <3>2. holding' = {}
            BY <1>1, <2>3, <3>1 DEF Moves, Others, Holding
        <3>3. Lease!Abandon(p, {"poll"})
            BY <1>a, <2>1, <3>1, <3>2 DEF Lease!Abandon, Taken, Holders
        <3> QED
            BY <3>3 DEF Lease!Next
    <2> QED
        BY <2>2, <2>3
<1>2. ASSUME NEW p \in Pollers, ClaimWon(p) PROVE Lease!Next
    <2>1. holding = {} /\ Taken = {}
        <3>1. \A q \in Pollers : ~Holding(q)
            BY <1>2, ClaimFindsNobody
        <3>2. lease = Never \/ lease + ClaimTTL < clock
            BY <1>2, ClaimFindsNobody
        <3>3. clock \in Int /\ lease \in Int
            BY <1>b, Times DEF TypeInv, TypeOK
        <3> QED
            BY <3>1, <3>2, <3>3, LeaseAssumption DEF Taken
    <2>2. Others(p) /\ Holding(p)'
        BY <1>2, <1>b, ClaimEffect DEF Holding
    <2>3. Taken' = {"poll"} /\ holding' = {p}
        <3>1. lease' = clock /\ clock' = clock /\ clock \in Time
            BY <1>2, <1>b, ClaimEffect DEF LeaseInv, ClaimIsNow, ClaimWon, TypeInv, TypeOK
        <3>2. lease' # Never /\ clock' <= lease' + ClaimTTL
            BY <3>1, Times, LeaseAssumption
        <3> QED
            BY <2>1, <2>2, <3>2 DEF Taken, Others, Holding
    <2>4. Lease!Take(p, "poll")
        BY <1>a, <2>1, <2>3 DEF Lease!Take, Taken, Holders
    <2> QED
        BY <2>4 DEF Lease!Next
<1>3. ASSUME NEW p \in Pollers, FinishPoll(p) PROVE Lease!Next
    <2>1. Others(p) /\ Quits(p) /\ Holding(p) /\ lease' = Never
        BY <1>3, <1>b, FinishEffect
    <2>2. Taken = {"poll"} /\ holding = {p}
        BY <2>1, HolderHasLease
    <2>3. Taken' = {} /\ holding' = {}
        BY <2>1, <2>2 DEF Taken, Others, Quits, Holding
    <2>4. Lease!GiveBack(p, "poll")
        BY <1>a, <2>2, <2>3 DEF Lease!GiveBack, Taken, Holders
    <2> QED
        BY <2>4 DEF Lease!Next
<1>4. ASSUME Advance PROVE Lease!Next \/ (Taken' = Taken /\ Holders' = Holders)
    <2>1. task' = task /\ lease' = lease /\ clock' = clock + 1
        BY <1>4 DEF Advance, checkpoint
    <2>2. holding' = holding
        BY <2>1 DEF Holding
    <2>3. Taken' = Taken \/ (Taken = {"poll"} /\ Taken' = {})
        <3>1. PICK n \in Nat, m \in Int : n = clock /\ m = lease
            BY <1>b, Times DEF TypeInv, TypeOK
        <3>2. clock + 1 <= lease + ClaimTTL => clock <= lease + ClaimTTL
            BY <3>1, LeaseAssumption
        <3> QED
            BY <2>1, <3>2 DEF Taken
    <2>4. CASE Taken = {"poll"} /\ Taken' = {}
        <3>1. holding = {}
            <4>1. ASSUME NEW q \in Pollers, Holding(q) PROVE FALSE
                <5>1. lease' = task[q].now /\ task[q].now \in Time
                      /\ clock' <= task[q].now + PollBound /\ clock' \in Time
                    BY <1>b, <2>1, <4>1
                    DEF LeaseInv, HolderStamped, HoldIsBounded, Holding, TypeInv, TypeOK, Task
                <5>2. PICK m \in Nat, n \in Nat : m = task[q].now /\ n = clock'
                    BY <5>1, Times
                <5>3. lease' # Never /\ clock' <= lease' + ClaimTTL
                    BY <5>1, <5>2, Times, LeaseAssumption DEF LeaseInv, PollsWithinTTL
                <5> QED
                    BY <2>4, <5>3 DEF Taken
            <4> QED
                BY <4>1
        <3>2. Lease!Reclaim({"poll"})
            BY <1>a, <2>2, <2>4, <3>1 DEF Lease!Reclaim, Taken, Holders
        <3> QED
            BY <3>2 DEF Lease!Next
    <2> QED
        BY <1>a, <2>2, <2>3, <2>4
<1>5. ASSUME Rests PROVE Taken' = Taken /\ Holders' = Holders
    BY <1>5 DEF Rests, Taken, Holders, Holding
<1> QED
    BY <1>b, <1>1, <1>2, <1>3, <1>4, <1>5, StepMoves

\* While imports end within the TTL the poll lease is a lease: every behaviour
\* of triggers, crashes and expiries is one of DispatchLease.
THEOREM PollIsLease == PollsWithinTTL /\ Spec => ImplementsLease
<1>1. PollsWithinTTL /\ Spec => []LeaseInv
    BY LeaseInvInit, LeaseInvStep, PTL DEF Spec
<1> QED
    BY <1>1, LeaseInit, LeaseStep, PTL DEF Spec, ImplementsLease, Lease!Spec

-----------------------------------------------------------------------------
(* Coverage.                                                               *)

\* The caps are whole minutes, one is the largest, and a lease runs out within
\* the longest interval.
CadenceFits ==
    /\ PollsWithinTTL
    /\ ClaimTTL <= LongestInterval
    /\ \E longest \in Caps : \A cap \in Caps : cap <= longest
    /\ \A cap \in Caps : cap % Minute = 0

\* What faults and edits add to the bound.
Credit == faults * (LongestInterval + StuckTimeout + WakeSlack) + (faults + edits) * WakeSlack
Horizon == attempted + Credit

On == granted /\ schedule.enabled
Beating == task[Heartbeat].pc

\* A poll that was decided, claimed or finished is no later than the last one
\* that was attempted; what was attempted is no later than now.
AttemptInv ==
    /\ attempted <= clock /\ polled <= attempted /\ lease <= attempted
    /\ \A p \in Pollers : Holding(p) => task[p].now <= attempted

\* Every interval and fire time in the row is within the longest interval.
RowInv ==
    /\ schedule.interval <= LongestInterval
    /\ Beating = "advancing" => task[Heartbeat].interval <= LongestInterval
    /\ schedule.next <= clock + LongestInterval

\* A heartbeat at work holds the row's claim since its trigger; a claim without
\* one was left by a fault, and every claim ends within the reap delay.
BeatInv ==
    /\ schedule.claimed <= clock
    /\ Beating # "idle" => schedule.claimed # Never /\ clock <= schedule.claimed + PollBound
    /\ Beating = "beating" => schedule.claimed = clock
    /\ Beating \in {"claiming", "starting", "polling", "finishing"} => schedule.claimed = task[Heartbeat].now
    /\ schedule.claimed # Never =>
          /\ clock <= schedule.claimed + StuckTimeout + WakeSlack
          /\ Beating = "idle" => faults >= 1

\* While polling is on, the next wake and the release of the current one come
\* early enough.
HorizonInv == On =>
    /\ clock <= Horizon + 2 * LongestInterval + WakeSlack
    /\ schedule.next <= Horizon + 2 * LongestInterval
    /\ Beating \in {"releasing", "advancing"} => clock <= Horizon + LongestInterval
    /\ schedule.claimed # Never /\ Beating = "idle" =>
          schedule.claimed + StuckTimeout + WakeSlack <= Horizon + LongestInterval

CoverInv == CadenceFits /\ LeaseInv /\ AttemptInv /\ RowInv /\ BeatInv /\ HorizonInv

LEMMA DivMod ==
    ASSUME NEW a \in Nat, NEW b \in Nat \ {0}
    PROVE  a = b * (a \div b) + (a % b) /\ a % b \in 0..(b - 1) /\ a \div b \in Nat
OBVIOUS

\* Rounding to minutes never exceeds a cap, and keeps the cap itself.
LEMMA RoundedWithin ==
    ASSUME NEW i \in Nat, NEW cap \in Nat \ {0}, cap % Minute = 0, i <= cap
    PROVE  Rounded(i) <= cap /\ Rounded(cap) = cap
<1> DEFINE m == i \div Minute
           k == cap \div Minute
           r == i % Minute
<1>1. Minute \in Nat \ {0}
    BY CadenceAssumption
<1>2. /\ m \in Nat /\ k \in Nat /\ r \in 0..(Minute - 1)
      /\ i = Minute * m + r /\ cap = Minute * k
    BY <1>1, DivMod
<1> HIDE DEF m, k, r
<1>3. k >= 1
    BY <1>1, <1>2
<1>4. m <= k /\ (m = k => r = 0)
    <2>1. Minute * m <= Minute * k
        BY <1>1, <1>2
    <2>2. m <= k
        BY <1>1, <1>2, <2>1
    <2> QED
        BY <1>1, <1>2, <2>2
<1>5. Rounded(i) = Minute * Greater(1, IF 2 * r > Minute \/ (2 * r = Minute /\ m % 2 = 1) THEN m + 1 ELSE m)
    BY DEF Rounded, m, r
<1>6. Rounded(cap) = Minute * Greater(1, k)
    BY <1>1, <1>2 DEF Rounded, k
<1>7. PICK n \in Nat : n = Greater(1, IF 2 * r > Minute \/ (2 * r = Minute /\ m % 2 = 1) THEN m + 1 ELSE m)
    BY <1>2 DEF Greater
<1>8. n <= k
    BY <1>1, <1>2, <1>3, <1>4, <1>7 DEF Greater
<1> QED
    BY <1>1, <1>2, <1>3, <1>5, <1>6, <1>7, <1>8 DEF Greater

LEMMA LongestFits ==
    ASSUME CadenceFits
    PROVE  /\ LongestInterval \in Nat
           /\ \A cap \in Caps : cap \in Nat \ {0} /\ cap <= LongestInterval
           /\ \A cap \in Caps, i \in Nat : i <= cap => Rounded(i) <= LongestInterval
<1>1. PICK longest \in Caps : \A cap \in Caps : cap <= longest
    BY DEF CadenceFits
<1>2. \A cap \in Caps : cap \in Nat \ {0} /\ cap % Minute = 0
    BY CadenceAssumption DEF CadenceFits
<1>3. \A cap \in Caps : Rounded(cap) = cap
    BY <1>2, RoundedWithin
<1>4. {Rounded(cap) : cap \in Caps} = Caps
    BY <1>3
<1>5. longest \in {Rounded(cap) : cap \in Caps} /\ \A cap \in Caps : Rounded(cap) <= longest
    BY <1>1, <1>3, <1>4
<1>6. LongestInterval \in {Rounded(cap) : cap \in Caps} /\ \A cap \in Caps : Rounded(cap) <= LongestInterval
    BY <1>5 DEF LongestInterval
<1>7. LongestInterval \in Nat /\ \A cap \in Caps : cap <= LongestInterval
    BY <1>2, <1>3, <1>4, <1>6
<1>8. ASSUME NEW cap \in Caps, NEW i \in Nat, i <= cap PROVE Rounded(i) <= LongestInterval
    <2>1. Rounded(i) <= cap /\ Rounded(i) \in Nat
        BY <1>2, <1>8, RoundedWithin, RoundedNat
    <2> QED
        BY <1>2, <1>7, <2>1
<1> QED
    BY <1>2, <1>7, <1>8

LEMMA NextRunWithin == ASSUME NEW t \in Nat, NEW i \in Nat PROVE NextRun(t, i) <= t + i
<1> DEFINE q == (t + i) \div Minute
           r == (t + i) % Minute
<1>1. Minute \in Nat \ {0} /\ t + i \in Nat
    BY CadenceAssumption
<1>2. t + i = Minute * q + r /\ r \in 0..(Minute - 1) /\ q \in Nat
    BY <1>1, DivMod
<1>3. NextRun(t, i) = q * Minute
    BY DEF NextRun
<1> HIDE DEF q, r
<1>4. q * Minute = Minute * q
    BY <1>1, <1>2
<1>5. Minute * q \in Nat
    BY <1>1, <1>2
<1> QED
    BY <1>1, <1>2, <1>3, <1>4, <1>5

\* The arithmetic of Credit, which is all that the steps need to know of it.
LEMMA CreditEffect ==
    ASSUME CadenceFits, TypeOK
    PROVE  /\ Credit \in Nat
           /\ faults >= 1 => Credit >= LongestInterval + StuckTimeout + 2 * WakeSlack
           /\ UNCHANGED <<faults, edits>> => Credit' = Credit
           /\ faults' = faults + 1 /\ edits' = edits =>
                 Credit' = Credit + LongestInterval + StuckTimeout + 2 * WakeSlack
           /\ faults' = faults /\ edits' = edits + 1 => Credit' = Credit + WakeSlack
<1> DEFINE a == LongestInterval + StuckTimeout + WakeSlack
<1>1. a \in Nat /\ WakeSlack \in Nat
    BY LongestFits, LeaseAssumption
<1>2. faults \in Nat /\ edits \in Nat
    BY BoundsAssumption DEF TypeOK
<1>3. Credit = faults * a + (faults + edits) * WakeSlack
    BY DEF Credit
<1>4. Credit' = faults' * a + (faults' + edits') * WakeSlack
    BY DEF Credit
<1>5. a = LongestInterval + StuckTimeout + WakeSlack /\ LongestInterval \in Nat /\ StuckTimeout \in Nat
    BY LongestFits, LeaseAssumption
<1> HIDE DEF a
<1>6. faults * a \in Nat /\ (faults + edits) * WakeSlack \in Nat
    BY <1>1, <1>2
<1>7. Credit \in Nat
    BY <1>3, <1>6
<1>8. ASSUME faults >= 1 PROVE faults * a >= a /\ (faults + edits) * WakeSlack >= WakeSlack
    BY <1>1, <1>2, <1>8
<1>9. /\ (faults + 1) * a = faults * a + a
      /\ (faults + 1 + edits) * WakeSlack = (faults + edits) * WakeSlack + WakeSlack
      /\ (faults + (edits + 1)) * WakeSlack = (faults + edits) * WakeSlack + WakeSlack
    BY <1>1, <1>2
<1>10. faults >= 1 => Credit >= LongestInterval + StuckTimeout + 2 * WakeSlack
    BY <1>1, <1>3, <1>5, <1>6, <1>8
<1>11. UNCHANGED <<faults, edits>> => Credit' = Credit
    BY <1>3, <1>4
<1>12. faults' = faults + 1 /\ edits' = edits => Credit' = Credit + LongestInterval + StuckTimeout + 2 * WakeSlack
    BY <1>1, <1>3, <1>4, <1>5, <1>6, <1>9
<1>13. faults' = faults /\ edits' = edits + 1 => Credit' = Credit + WakeSlack
    BY <1>1, <1>3, <1>4, <1>6, <1>9
<1> QED
    BY <1>7, <1>10, <1>11, <1>12, <1>13

\* The types of what the invariants compare.
LEMMA CoverTypes ==
    ASSUME CadenceFits, TypeOK
    PROVE  /\ clock \in Nat /\ attempted \in Nat /\ polled \in Int /\ lease \in Int
           /\ schedule.next \in Nat /\ schedule.interval \in Nat /\ schedule.claimed \in Int
           /\ \A p \in Pollers : task[p].now \in Nat /\ task[p].interval \in Nat
           /\ LongestInterval \in Nat /\ StuckTimeout \in Nat /\ WakeSlack \in Nat \ {0}
           /\ PollBound \in Nat /\ ClaimTTL \in Nat
           /\ PollBound <= ClaimTTL /\ ClaimTTL <= LongestInterval /\ PollBound <= StuckTimeout
           /\ Never = -1
<1>1. \A p \in Pollers : task[p] \in Task
    BY DEF TypeOK
<1> QED
    BY <1>1, LongestFits, LeaseAssumption, Times DEF CadenceFits, PollsWithinTTL, TypeOK, Task, Schedule, Never

LEMMA AttemptInit == Init => AttemptInv
BY NoTaskFields DEF Init, AttemptInv, Holding, Never

LEMMA AttemptStep == LeaseInv /\ CadenceFits /\ AttemptInv /\ [Next]_vars => AttemptInv'
<1> SUFFICES ASSUME LeaseInv, CadenceFits, AttemptInv, [Next]_vars PROVE AttemptInv'
    OBVIOUS
<1>1. TypeInv /\ TypeOK /\ TypeOK'
    BY TypeStep DEF LeaseInv, TypeInv
<1>2. /\ clock \in Nat /\ attempted \in Nat /\ polled \in Int /\ lease \in Int
      /\ clock' \in Nat /\ attempted' \in Nat /\ \A p \in Pollers : task[p].now \in Nat
    <2>1. clock' \in Nat /\ attempted' \in Nat
        BY <1>1, Times DEF TypeOK
    <2> QED
        BY <1>1, <2>1, CoverTypes
<1>3. ASSUME attempted' # attempted
      PROVE  attempted' = clock /\ clock' = clock
    <2>1. ASSUME NEW p \in Pollers, ClaimWon(p) PROVE attempted' = clock /\ clock' = clock
        BY <1>1, <2>1, ClaimEffect DEF ClaimWon, LeaseInv, ClaimIsNow
    <2>2. ASSUME NEW p \in Pollers, Poll(p), ~ClaimWon(p) PROVE attempted' = attempted
        BY <2>2 DEF Poll, Decide, ClaimLost, StartRun, PollEnds, FinishPoll, StatementFails, Crash
    <2>3. CASE Beat \/ Advance \/ UNCHANGED vars
        BY <1>3, <2>3 DEF Beat, BeatDue, Vetoed, ReleaseRead, ReleaseWrite, ReleaseFails, Reap, Advance, vars
    <2>4. CASE Toggle \/ Connect \/ Disconnect
        BY <1>3, <2>4 DEF Toggle, Connect, Disconnect, Edit
    <2> QED
        BY <1>3, <2>1, <2>2, <2>3, <2>4 DEF Next
<1>4. attempted <= attempted'
    BY <1>2, <1>3 DEF AttemptInv
<1>5. ASSUME NEW p \in Pollers, Moves(p) PROVE AttemptInv'
    <2>1. \A q \in Pollers : Holding(q)' => Holding(q) /\ task'[q].now = task[q].now
        BY <1>5 DEF Moves, Others, Reads, Proceeds, Quits, Holding
    <2>2. attempted' <= clock /\ polled <= attempted' /\ lease <= attempted'
        BY <1>2, <1>3, <1>4 DEF AttemptInv
    <2>3. \A q \in Pollers : Holding(q) => task[q].now <= attempted'
        BY <1>2, <1>4 DEF AttemptInv
    <2> QED
        BY <1>5, <2>1, <2>2, <2>3 DEF Moves, AttemptInv
<1>6. ASSUME NEW p \in Pollers, ClaimWon(p) PROVE AttemptInv'
    <2>1. attempted' = clock /\ task[p].now = clock
        BY <1>6 DEF ClaimWon, LeaseInv, ClaimIsNow
    <2>2. /\ Others(p) /\ UNCHANGED <<clock, polled>> /\ lease' = task[p].now
          /\ task'[p].pc = "starting" /\ task'[p].now = task[p].now
        BY <1>1, <1>6, ClaimEffect
    <2>3. \A q \in Pollers : Holding(q) => task[q].now <= clock
        BY <1>2 DEF AttemptInv
    <2>4. \A q \in Pollers : Holding(q)' => task'[q].now <= clock
        BY <1>2, <2>1, <2>2, <2>3 DEF Others, Holding
    <2>5. polled <= clock
        BY <1>2 DEF AttemptInv
    <2> QED
        BY <1>2, <2>1, <2>2, <2>4, <2>5 DEF AttemptInv
<1>7. ASSUME NEW p \in Pollers, FinishPoll(p) PROVE AttemptInv'
    <2>1. Others(p) /\ Quits(p) /\ Holding(p) /\ clock' = clock /\ lease' = Never /\ attempted' = attempted
        BY <1>1, <1>7, FinishEffect DEF FinishPoll
    <2>2. polled' = polled \/ polled' = task[p].now
        BY <1>7 DEF FinishPoll
    <2>3. polled' <= attempted /\ Never <= attempted
        BY <1>2, <2>1, <2>2 DEF AttemptInv, Never
    <2>4. \A q \in Pollers : Holding(q)' => Holding(q) /\ task'[q].now = task[q].now
        BY <2>1 DEF Others, Quits, Holding
    <2> QED
        BY <2>1, <2>3, <2>4 DEF AttemptInv
<1>8. ASSUME Advance PROVE AttemptInv'
    <2>1. clock' = clock + 1 /\ UNCHANGED <<attempted, polled, lease, task>>
        BY <1>8 DEF Advance, checkpoint
    <2> QED
        BY <1>2, <2>1 DEF AttemptInv, Holding
<1>9. ASSUME Rests PROVE AttemptInv'
    BY <1>2, <1>3, <1>4, <1>9 DEF Rests, AttemptInv, Holding
<1> QED
    BY <1>1, <1>5, <1>6, <1>7, <1>8, <1>9, StepMoves

\* What the steps do to the row, the heartbeat's task, the history and the
\* bound: nothing that matters, or a fault elsewhere ...
Elsewhere ==
    /\ task'[Heartbeat] = task[Heartbeat]
    /\ UNCHANGED <<clock, schedule, granted, attempted, edits>>
    /\ faults' \in {faults, faults + 1}

\* ... a claim is won, by the heartbeat or not ...
Attempts ==
    /\ UNCHANGED <<clock, schedule, granted, faults, edits>>
    /\ attempted' = clock
    /\ \/ task'[Heartbeat] = task[Heartbeat]
       \/ /\ Beating = "claiming" /\ task'[Heartbeat].pc = "starting"
          /\ task'[Heartbeat].now = task[Heartbeat].now

\* ... a demand poll re-times the row ...
Retimes ==
    /\ task'[Heartbeat] = task[Heartbeat]
    /\ UNCHANGED <<clock, granted, attempted, faults, edits>>
    /\ schedule'.enabled = schedule.enabled /\ schedule'.claimed = schedule.claimed
    /\ schedule'.interval <= LongestInterval
    /\ schedule'.next <= attempted + LongestInterval

\* ... the heartbeat goes on, and is over, without having polled too late ...
Beats ==
    /\ UNCHANGED <<clock, granted, attempted, faults, edits>>
    /\ schedule'.enabled = schedule.enabled
    /\ \/ /\ Due /\ Beating = "idle" /\ task'[Heartbeat].pc = "beating"
          /\ schedule'.claimed = clock /\ schedule'.next = schedule.next
          /\ schedule'.interval = schedule.interval
       \/ /\ Beating = "beating" /\ task'[Heartbeat].pc = "claiming" /\ task'[Heartbeat].now = clock
          /\ UNCHANGED schedule
       \/ /\ Beating \in {"starting", "polling"} /\ task'[Heartbeat].pc \in {"polling", "finishing"}
          /\ task'[Heartbeat].now = task[Heartbeat].now /\ UNCHANGED schedule
       \/ /\ Beating \in {"beating", "claiming"} /\ task'[Heartbeat].pc = "releasing"
          /\ ~granted \/ clock <= attempted + LongestInterval
          /\ UNCHANGED schedule
       \/ /\ Beating = "finishing" /\ task'[Heartbeat].pc = "releasing"
          /\ schedule'.claimed = schedule.claimed /\ schedule'.next = schedule.next
          /\ schedule'.interval <= LongestInterval
       \/ /\ Beating = "releasing" /\ task'[Heartbeat].pc = "advancing"
          /\ task'[Heartbeat].interval = schedule.interval /\ UNCHANGED schedule
       \/ /\ Beating = "advancing" /\ task'[Heartbeat].pc = "idle"
          /\ schedule'.interval = schedule.interval
          /\ \/ UNCHANGED schedule /\ schedule.claimed = Never
             \/ schedule'.claimed = Never /\ schedule'.next <= clock + task[Heartbeat].interval

\* ... or fails, with or without its release ...
BeatFails ==
    /\ UNCHANGED <<clock, schedule, granted, attempted, edits>>
    /\ faults' = faults + 1 /\ Beating # "idle"
    /\ \/ Beating \in {"beating", "claiming", "starting", "finishing"} /\ task'[Heartbeat].pc = "releasing"
       \/ task'[Heartbeat].pc = "idle"

\* ... its claim is reaped ...
Reaps ==
    /\ UNCHANGED <<clock, task, granted, attempted, faults, edits>>
    /\ Stuck /\ schedule'.claimed = Never /\ schedule'.enabled = schedule.enabled
    /\ schedule'.interval = schedule.interval /\ schedule'.next <= clock + schedule.interval

\* ... or the user edits grant and row.
Edits ==
    /\ UNCHANGED <<clock, task, faults>> /\ edits' = edits + 1
    /\ attempted' = IF On THEN attempted ELSE clock
    /\ schedule'.claimed = schedule.claimed
    /\ \/ schedule'.enabled /\ schedule'.interval = BaseInterval /\ schedule'.next = clock
       \/ schedule'.interval = schedule.interval /\ schedule'.next = schedule.next

\* A poller that is refused was told so by a recent poll or a live lease.
LEMMA RefusedIsRecent ==
    ASSUME CadenceFits, LeaseInv, AttemptInv, NEW p \in Pollers
    PROVE  /\ \A cap \in Caps : TooFresh(p, cap) => clock <= attempted + LongestInterval
           /\ ClaimLost(p) => clock <= attempted + LongestInterval
<1>1. TypeOK
    BY DEF LeaseInv, TypeInv
<1>2. /\ clock \in Nat /\ attempted \in Nat /\ polled \in Int /\ lease \in Int
      /\ LongestInterval \in Nat /\ ClaimTTL \in Nat /\ ClaimTTL <= LongestInterval
      /\ polled <= attempted /\ lease <= attempted
    BY <1>1, CoverTypes DEF AttemptInv
<1>3. ASSUME NEW s \in PollState, NEW cap \in Caps
      PROVE  MaxAge(p, s, cap) \in Nat /\ MaxAge(p, s, cap) <= LongestInterval
    <2>1. Effective(s, cap) \in MinInterval..cap /\ cap \in Nat /\ cap <= LongestInterval
        BY EffectiveRange, LongestFits
    <2> QED
        BY <1>2, <2>1, CadenceAssumption, LeaseAssumption DEF MaxAge
<1>4. ASSUME NEW cap \in Caps, TooFresh(p, cap) PROVE clock <= attempted + LongestInterval
    <2> DEFINE age == MaxAge(p, state, cap)
    <2>1. age \in Nat /\ age <= LongestInterval
        BY <1>1, <1>3 DEF TypeOK
    <2>2. clock - polled < age
        BY <1>4 DEF TooFresh
    <2> HIDE DEF age
    <2> QED
        BY <1>2, <2>1, <2>2
<1>5. ASSUME ClaimLost(p) PROVE clock <= attempted + LongestInterval
    <2> DEFINE age == MaxAge(p, task[p].state, task[p].cap)
    <2>1. task[p].state \in PollState /\ task[p].cap \in Caps
        BY <1>1 DEF TypeOK, Task
    <2>2. age \in Nat /\ age <= LongestInterval
        BY <1>3, <2>1
    <2>3. task[p].now = clock
        BY <1>5 DEF ClaimLost, LeaseInv, ClaimIsNow
    <2>4. lease >= clock - ClaimTTL \/ polled >= clock - age
        <3>1. ~(lease < clock - ClaimTTL) \/ ~(polled < clock - age)
            BY <1>5, <2>3 DEF ClaimLost, Claimable
        <3> HIDE DEF age
        <3> QED
            BY <1>2, <2>2, <3>1
    <2> HIDE DEF age
    <2> QED
        BY <1>2, <2>2, <2>4
<1> QED
    BY <1>4, <1>5

LEMMA LeaveBeat ==
    ASSUME TypeOK, Leave(Heartbeat)
    PROVE  task'[Heartbeat].pc = "releasing"
<1> DEFINE t == [NoTask EXCEPT !.pc = "releasing"]
<1>1. t \in Task /\ t.pc = "releasing"
    BY NoTaskFields, MovedFields DEF InTransaction
<1>2. SetTask(Heartbeat, t)
    BY DEF Leave
<1> HIDE DEF t
<1> QED
    BY <1>1, <1>2, SetTaskEffect, HeartbeatPolls

\* The writes to the row, field by field.
LEMMA RetimedFields ==
    ASSUME CadenceFits, TypeOK, NEW p \in Pollers, NEW i \in Nat, NEW cap \in Caps, i <= cap
    PROVE  /\ Retimed(p, i).enabled = schedule.enabled /\ Retimed(p, i).claimed = schedule.claimed
           /\ Retimed(p, i).interval <= LongestInterval
           /\ p = Heartbeat => Retimed(p, i).next = schedule.next
           /\ p # Heartbeat => Retimed(p, i).next = task[p].now + i
<1> DEFINE r == Rounded(i)
           n == task[p].now + i
<1>1. r <= LongestInterval
    BY LongestFits
<1>2. Retimed(p, i) = IF p = Heartbeat THEN [schedule EXCEPT !.interval = r]
                      ELSE [schedule EXCEPT !.interval = r, !.next = n]
    BY DEF Retimed
<1> HIDE DEF r, n
<1>3. schedule \in Schedule
    BY DEF TypeOK
<1>4. CASE p = Heartbeat
    <2>1. Retimed(p, i) = [schedule EXCEPT !.interval = r]
        BY <1>2, <1>4
    <2> QED
        BY <1>1, <1>3, <1>4, <2>1 DEF Schedule
<1>5. CASE p # Heartbeat
    <2>1. Retimed(p, i) = [schedule EXCEPT !.interval = r, !.next = n]
        BY <1>2, <1>5
    <2> QED
        BY <1>1, <1>3, <1>5, <2>1 DEF Schedule, n
<1> QED
    BY <1>4, <1>5

LEMMA AdvancedFields ==
    ASSUME TypeOK, NEW i \in Nat
    PROVE  /\ Advanced(i).enabled = schedule.enabled /\ Advanced(i).claimed = Never
           /\ Advanced(i).interval = schedule.interval /\ Advanced(i).next <= clock + i
<1> DEFINE n == NextRun(clock, i)
<1>1. clock \in Nat
    BY Times DEF TypeOK
<1>2. n <= clock + i
    BY <1>1, NextRunWithin
<1>3. Advanced(i) = [schedule EXCEPT !.claimed = Never, !.next = n]
    BY DEF Advanced
<1> HIDE DEF n
<1> QED
    BY <1>2, <1>3 DEF TypeOK, Schedule

LEMMA CoverMoves ==
    ASSUME CadenceFits, LeaseInv, AttemptInv, [Next]_vars
    PROVE  Elsewhere \/ Attempts \/ Retimes \/ Beats \/ BeatFails \/ Reaps \/ Edits \/ Advance
<1> USE DEF checkpoint, environment, Beating
<1>0. /\ TypeInv /\ TypeOK /\ Heartbeat \in Pollers /\ faults \in Nat
      /\ \A p \in Pollers : task[p] \in Task
    BY HeartbeatPolls, BoundsAssumption DEF LeaseInv, TypeInv, TypeOK
<1>1. ASSUME NEW p \in Pollers, NEW cap \in Caps, Decide(p, cap) PROVE Elsewhere \/ Beats
    <2>1. task'[p].pc = "claiming" /\ task'[p].now = clock /\ Others(p)
        BY <1>0, <1>1, PayloadFields, SetTaskEffect DEF Decide, Others
    <2> QED
        BY <1>0, <1>1, <2>1 DEF Decide, Others, Elsewhere, Beats
<1>2. ASSUME NEW p \in Pollers, ClaimWon(p) PROVE Attempts
    <2>1. task[p].now = clock
        BY <1>2 DEF ClaimWon, LeaseInv, ClaimIsNow
    <2> QED
        BY <1>0, <1>2, <2>1, ClaimEffect DEF ClaimWon, Others, Attempts
<1>3. ASSUME NEW p \in Pollers, ClaimLost(p) PROVE Elsewhere \/ Beats
    <2>1. clock <= attempted + LongestInterval
        BY <1>3, RefusedIsRecent
    <2>2. Others(p) /\ (p = Heartbeat => task'[Heartbeat].pc = "releasing")
        BY <1>0, <1>3, LeaveEffect, LeaveBeat DEF ClaimLost, Others
    <2> QED
        BY <1>0, <1>3, <2>1, <2>2 DEF ClaimLost, Others, Elsewhere, Beats
<1>4. ASSUME NEW p \in Pollers, StartRun(p) PROVE Elsewhere \/ Beats
    BY <1>0, <1>4, StepEffect DEF StartRun, Elsewhere, Beats
<1>5. ASSUME NEW p \in Pollers, NEW o \in Outcomes, PollEnds(p, o) PROVE Elsewhere \/ Beats
    <2> DEFINE t == [task[p] EXCEPT !.pc = "finishing", !.outcome = o]
    <2>1. t \in Task /\ t.pc = "finishing" /\ t.now = task[p].now
        BY <1>0, EndedFields
    <2>2. SetTask(p, t) /\ task[p].pc = "polling"
          /\ UNCHANGED <<clock, schedule, granted, attempted, faults, edits>>
        BY <1>5 DEF PollEnds
    <2> HIDE DEF t
    <2>3. task'[p] = t /\ Others(p)
        BY <1>0, <2>1, <2>2, SetTaskEffect DEF Others
    <2> QED
        BY <1>0, <2>1, <2>2, <2>3 DEF Others, Elsewhere, Beats
<1>6. ASSUME NEW p \in Pollers, FinishPoll(p) PROVE Retimes \/ Beats
    <2>1. /\ task[p].state \in PollState /\ task[p].outcome \in Outcomes /\ task[p].cap \in Caps
          /\ task[p].outcome = "empty" => task[p].state.empty < MaxEmpty
        BY <1>0, <1>6 DEF Task, FinishPoll, TypeInv, EmptyInBound
    <2>2. state' = Fold(task[p].state, task[p].outcome, task[p].cap) /\ schedule' = Retimed(p, state'.interval)
        BY <1>6 DEF FinishPoll
    <2>3. PICK i \in Nat : i = state'.interval /\ i <= task[p].cap
        <3>1. state'.interval \in MinInterval..task[p].cap
            BY <2>1, <2>2, FoldFields
        <3> QED
            BY <2>1, <3>1, CadenceAssumption
    <2>4. /\ schedule'.enabled = schedule.enabled /\ schedule'.claimed = schedule.claimed
          /\ schedule'.interval <= LongestInterval
          /\ p = Heartbeat => schedule'.next = schedule.next
          /\ p # Heartbeat => schedule'.next = task[p].now + i
        BY <1>0, <2>1, <2>2, <2>3, RetimedFields
    <2>5. task[p].now + i <= attempted + LongestInterval
        <3>1. task[p].now <= attempted
            BY <1>6 DEF AttemptInv, FinishPoll, Holding
        <3>2. task[p].cap \in Nat /\ task[p].cap <= LongestInterval
            BY <2>1, LongestFits
        <3> QED
            BY <1>0, <2>3, <3>1, <3>2, CoverTypes
    <2>6. Others(p) /\ (p = Heartbeat => task'[Heartbeat].pc = "releasing")
        BY <1>0, <1>6, LeaveEffect, LeaveBeat DEF FinishPoll, Others
    <2> QED
        BY <1>0, <1>6, <2>4, <2>5, <2>6 DEF FinishPoll, Others, Retimes, Beats
<1>7. ASSUME NEW p \in Pollers, StatementFails(p) \/ Crash(p) PROVE Elsewhere \/ BeatFails
    <2>1. CASE StatementFails(p)
        <3>1. Others(p) /\ (p = Heartbeat => task'[Heartbeat].pc = "releasing")
            BY <1>0, <2>1, LeaveEffect, LeaveBeat DEF StatementFails, Others
        <3> QED
            BY <1>0, <2>1, <3>1 DEF StatementFails, Others, Elsewhere, BeatFails
    <2>2. CASE Crash(p)
        BY <1>0, <2>2, NoTaskFields, SetTaskEffect DEF Crash, Elsewhere, BeatFails
    <2> QED
        BY <1>7, <2>1, <2>2
<1>8. CASE BeatDue
    <2>1. task'[Heartbeat].pc = "beating"
        BY <1>0, <1>8, StepEffect DEF BeatDue, InTransaction
    <2>2. /\ schedule'.claimed = clock /\ schedule'.next = schedule.next
          /\ schedule'.interval = schedule.interval /\ schedule'.enabled = schedule.enabled
        BY <1>0, <1>8 DEF BeatDue, TypeOK, Schedule
    <2> QED
        BY <1>8, <2>1, <2>2 DEF BeatDue, Beats
<1>9. ASSUME NEW cap \in Caps, Vetoed(cap) PROVE Beats
    <2>1. task'[Heartbeat].pc = "releasing"
        BY <1>0, <1>9, LeaveBeat DEF Vetoed
    <2>2. ~granted \/ clock <= attempted + LongestInterval
        BY <1>0, <1>9, RefusedIsRecent DEF Vetoed
    <2> QED
        BY <1>9, <2>1, <2>2 DEF Vetoed, Beats
<1>10. CASE ReleaseRead
    <2> DEFINE v == [NoTask EXCEPT !.pc = "advancing"]
               t == [v EXCEPT !.interval = schedule.interval]
    <2>1. v \in Task /\ v.pc = "advancing"
        BY NoTaskFields, MovedFields DEF InTransaction
    <2> HIDE DEF v
    <2>2. t \in Task /\ t.pc = "advancing" /\ t.interval = schedule.interval
        BY <1>0, <2>1 DEF Task, TypeOK, Schedule
    <2>3. SetTask(Heartbeat, t)
        BY <1>10 DEF ReleaseRead, v
    <2> HIDE DEF t
    <2> QED
        BY <1>0, <1>10, <2>2, <2>3, SetTaskEffect DEF ReleaseRead, Beats
<1>11. CASE ReleaseWrite
    <2>1. task'[Heartbeat].pc = "idle"
        BY <1>0, <1>11, NoTaskFields, SetTaskEffect DEF ReleaseWrite
    <2>2. PICK i \in Nat : i = task[Heartbeat].interval
        BY <1>0, CoverTypes
    <2>3. \/ schedule' = schedule /\ schedule.claimed = Never
          \/ schedule' = Advanced(i)
        BY <1>11, <2>2 DEF ReleaseWrite
    <2> QED
        BY <1>0, <1>11, <2>1, <2>2, <2>3, AdvancedFields DEF ReleaseWrite, Beats
<1>12. CASE ReleaseFails
    BY <1>0, <1>12, NoTaskFields, SetTaskEffect DEF ReleaseFails, BeatFails
<1>13. CASE Reap
    <2>1. schedule.interval \in Nat
        BY <1>0, CoverTypes
    <2> QED
        BY <1>0, <1>13, <2>1, AdvancedFields DEF Reap, Reaps
<1>14. CASE Toggle \/ Connect \/ Disconnect
    <2>1. ASSUME NEW grant \in BOOLEAN, NEW row, row \in {schedule, Enabled, Disabled}, Edit(grant, row) PROVE Edits
        <3>1. schedule' = row /\ edits' = edits + 1 /\ UNCHANGED <<clock, task, faults>>
              /\ attempted' = IF On THEN attempted ELSE clock
            BY <2>1 DEF Edit, On
        <3>2. row.claimed = schedule.claimed
            BY <1>0, <2>1 DEF Enabled, Disabled, TypeOK, Schedule
        <3>3. \/ row.enabled /\ row.interval = BaseInterval /\ row.next = clock
              \/ row.interval = schedule.interval /\ row.next = schedule.next
            BY <1>0, <2>1 DEF Enabled, Disabled, TypeOK, Schedule
        <3> QED
            BY <3>1, <3>2, <3>3 DEF Edits
    <2>2. granted \in BOOLEAN
        BY <1>0 DEF TypeOK
    <2> QED
        BY <1>14, <2>1, <2>2 DEF Toggle, Connect, Disconnect
<1>15. CASE UNCHANGED vars
    BY <1>15 DEF vars, Elsewhere
<1> QED
    BY <1>1, <1>2, <1>3, <1>4, <1>5, <1>6, <1>7, <1>8, <1>9, <1>10, <1>11, <1>12, <1>13, <1>14, <1>15
    DEF Next, Poll, Beat

CoverMove == Elsewhere \/ Attempts \/ Retimes \/ Beats \/ BeatFails \/ Reaps \/ Edits \/ Advance

\* What Advance says of the row and of the heartbeat.
LEMMA AdvanceEffect ==
    ASSUME TypeOK, Advance
    PROVE  /\ clock' = clock + 1 /\ UNCHANGED <<schedule, task, attempted, granted, faults, edits>>
           /\ Beating \in {"idle", "polling"}
           /\ Beating = "polling" => clock < task[Heartbeat].now + PollBound
           /\ Due => clock < schedule.next + WakeSlack
           /\ Stuck => clock < schedule.claimed + StuckTimeout + WakeSlack
<1>1. task[Heartbeat].pc \in {"idle", "polling"} \cup InTransaction
    BY HeartbeatPolls DEF TypeOK, Task
<1> QED
    BY <1>1, HeartbeatPolls DEF Advance, checkpoint, environment, Beating

LEMMA RowStep ==
    ASSUME CadenceFits, TypeOK, TypeOK', AttemptInv, RowInv, CoverMove
    PROVE  RowInv'
<1> USE DEF Beating
<1>1. /\ clock \in Nat /\ attempted \in Nat /\ attempted <= clock
      /\ schedule.next \in Nat /\ schedule.interval \in Nat /\ task[Heartbeat].interval \in Nat
      /\ LongestInterval \in Nat /\ BaseInterval <= LongestInterval
      /\ schedule'.next \in Nat /\ schedule'.interval \in Nat
    <2>1. PICK cap \in Caps : BaseInterval <= cap /\ cap \in Nat /\ cap <= LongestInterval
        BY CadenceAssumption, LongestFits
    <2>2. schedule'.next \in Nat /\ schedule'.interval \in Nat
        BY DEF TypeOK, Schedule
    <2> QED
        BY <2>1, <2>2, CoverTypes, HeartbeatPolls, CadenceAssumption DEF AttemptInv
<1>2. CASE Elsewhere \/ Attempts \/ BeatFails
    BY <1>2 DEF Elsewhere, Attempts, BeatFails, RowInv
<1>3. CASE Retimes
    BY <1>1, <1>3 DEF Retimes, RowInv
<1>4. CASE Beats
    BY <1>1, <1>4 DEF Beats, RowInv
<1>5. CASE Reaps
    BY <1>1, <1>5 DEF Reaps, RowInv
<1>6. CASE Edits
    BY <1>1, <1>6 DEF Edits, RowInv
<1>7. CASE Advance
    BY <1>1, <1>7, AdvanceEffect DEF RowInv
<1> QED
    BY <1>2, <1>3, <1>4, <1>5, <1>6, <1>7 DEF CoverMove

LEMMA BeatStep ==
    ASSUME CadenceFits, TypeOK, TypeOK', LeaseInv, BeatInv, CoverMove
    PROVE  BeatInv'
<1> USE DEF Beating
<1>1. /\ clock \in Nat /\ schedule.claimed \in Int /\ task[Heartbeat].now \in Nat /\ Never = -1
      /\ PollBound \in Nat /\ StuckTimeout \in Nat /\ WakeSlack \in Nat \ {0} /\ PollBound <= StuckTimeout
      /\ faults \in Nat
    BY CoverTypes, HeartbeatPolls, BoundsAssumption DEF TypeOK
<1>2. /\ Beating = "claiming" => task[Heartbeat].now = clock
      /\ Beating \in {"starting", "polling", "finishing"} => clock <= task[Heartbeat].now + PollBound
    BY HeartbeatPolls DEF LeaseInv, ClaimIsNow, HoldIsBounded, Holding
<1>3. CASE Elsewhere
    BY <1>1, <1>3 DEF Elsewhere, BeatInv
<1>4. CASE Attempts
    BY <1>1, <1>4 DEF Attempts, BeatInv
<1>5. CASE Retimes
    BY <1>1, <1>5 DEF Retimes, BeatInv
<1>6. CASE Beats
    BY <1>1, <1>2, <1>6 DEF Beats, BeatInv, Due
<1>7. CASE BeatFails
    BY <1>1, <1>7 DEF BeatFails, BeatInv
<1>8. CASE Reaps
    BY <1>1, <1>8 DEF Reaps, BeatInv, Stuck
<1>9. CASE Edits
    BY <1>1, <1>9 DEF Edits, BeatInv
<1>10. CASE Advance
    BY <1>1, <1>10, AdvanceEffect DEF BeatInv, Stuck
<1> QED
    BY <1>3, <1>4, <1>5, <1>6, <1>7, <1>8, <1>9, <1>10 DEF CoverMove

LEMMA HorizonStep ==
    ASSUME CadenceFits, TypeOK, TypeOK', LeaseInv, AttemptInv, RowInv, BeatInv, HorizonInv, CoverMove
    PROVE  HorizonInv'
<1> SUFFICES ASSUME On' PROVE
        /\ clock' <= Horizon' + 2 * LongestInterval + WakeSlack
        /\ schedule'.next <= Horizon' + 2 * LongestInterval
        /\ Beating' \in {"releasing", "advancing"} => clock' <= Horizon' + LongestInterval
        /\ schedule'.claimed # Never /\ Beating' = "idle" =>
              schedule'.claimed + StuckTimeout + WakeSlack <= Horizon' + LongestInterval
    BY DEF HorizonInv
<1> USE DEF Beating, Horizon
<1>1. /\ clock \in Nat /\ attempted \in Nat /\ attempted <= clock /\ Credit \in Nat
      /\ schedule.next \in Nat /\ schedule.interval \in Nat /\ schedule.claimed \in Int
      /\ task[Heartbeat].interval \in Nat /\ task[Heartbeat].now \in Nat
      /\ LongestInterval \in Nat /\ StuckTimeout \in Nat /\ WakeSlack \in Nat \ {0}
      /\ PollBound \in Nat /\ PollBound <= LongestInterval /\ PollBound <= StuckTimeout /\ Never = -1
      /\ schedule'.next \in Nat /\ schedule'.interval \in Nat /\ schedule'.claimed \in Int
    <2>1. schedule'.next \in Nat /\ schedule'.interval \in Nat /\ schedule'.claimed \in Int
        BY Times DEF TypeOK, Schedule
    <2> QED
        BY <2>1, CoverTypes, CreditEffect, HeartbeatPolls DEF AttemptInv
<1>2. /\ schedule.next <= clock + LongestInterval /\ schedule.interval <= LongestInterval
      /\ Beating = "advancing" => task[Heartbeat].interval <= LongestInterval
      /\ schedule.claimed <= clock
    BY DEF RowInv, BeatInv
<1>3. Beating \in {"starting", "polling", "finishing"} =>
          clock <= attempted + LongestInterval /\ schedule.claimed <= attempted
    <2>1. ASSUME Beating \in {"starting", "polling", "finishing"}
          PROVE  task[Heartbeat].now <= attempted /\ clock <= task[Heartbeat].now + PollBound
                 /\ schedule.claimed = task[Heartbeat].now
        BY <2>1, HeartbeatPolls DEF LeaseInv, HoldIsBounded, AttemptInv, BeatInv, Holding
    <2> QED
        BY <1>1, <2>1
<1>4. On => /\ clock <= Horizon + 2 * LongestInterval + WakeSlack
            /\ schedule.next <= Horizon + 2 * LongestInterval
            /\ Beating \in {"releasing", "advancing"} => clock <= Horizon + LongestInterval
            /\ schedule.claimed # Never /\ Beating = "idle" =>
                  schedule.claimed + StuckTimeout + WakeSlack <= Horizon + LongestInterval
    BY DEF HorizonInv
<1>5. CASE Elsewhere
    <2>1. On /\ UNCHANGED <<clock, schedule, attempted, edits>> /\ Beating' = Beating
        BY <1>5 DEF Elsewhere, On
    <2>2. PICK credit \in Nat : credit = Credit' /\ Credit <= credit
        BY <1>1, <1>5, CreditEffect DEF Elsewhere
    <2>3. credit \in Nat /\ Credit <= credit
        BY <2>2
    <2>4. /\ clock <= attempted + Credit + 2 * LongestInterval + WakeSlack
          /\ schedule.next <= attempted + Credit + 2 * LongestInterval
          /\ Beating \in {"releasing", "advancing"} => clock <= attempted + Credit + LongestInterval
          /\ schedule.claimed # Never /\ Beating = "idle" =>
                schedule.claimed + StuckTimeout + WakeSlack <= attempted + Credit + LongestInterval
        BY <1>4, <2>1
    <2>5. /\ clock <= attempted + credit + 2 * LongestInterval + WakeSlack
          /\ schedule.next <= attempted + credit + 2 * LongestInterval
          /\ Beating \in {"releasing", "advancing"} => clock <= attempted + credit + LongestInterval
          /\ schedule.claimed # Never /\ Beating = "idle" =>
                schedule.claimed + StuckTimeout + WakeSlack <= attempted + credit + LongestInterval
        BY <1>1, <2>3, <2>4
    <2>6. /\ clock' = clock /\ schedule' = schedule /\ attempted' = attempted /\ Beating' = Beating
        BY <2>1
    <2> QED
        BY <2>2, <2>5, <2>6
<1>6. CASE Attempts
    <2>1. On /\ UNCHANGED <<clock, schedule, faults, edits>> /\ attempted' = clock
          /\ (Beating' = Beating \/ Beating' = "starting")
        BY <1>6 DEF Attempts, On
    <2>2. Credit' = Credit
        BY <2>1, CreditEffect
    <2> QED
        BY <1>1, <1>4, <2>1, <2>2
<1>7. CASE Retimes
    <2>1. On /\ Credit' = Credit /\ UNCHANGED <<clock, attempted>> /\ Beating' = Beating
        BY <1>7, CreditEffect DEF Retimes, On
    <2> QED
        BY <1>1, <1>4, <1>7, <2>1 DEF Retimes
<1>8. CASE Beats
    <2>1. On /\ Credit' = Credit /\ UNCHANGED <<clock, attempted>> /\ granted
        BY <1>8, CreditEffect DEF Beats, On
    <2>2. schedule'.next <= Horizon + 2 * LongestInterval
        BY <1>1, <1>2, <1>4, <1>8, <2>1 DEF Beats
    <2>3. Beating' \in {"releasing", "advancing"} => clock <= Horizon + LongestInterval
        BY <1>1, <1>3, <1>4, <1>8, <2>1 DEF Beats
    <2>4. ~(schedule'.claimed # Never /\ Beating' = "idle")
        BY <1>8 DEF Beats
    <2> QED
        BY <1>1, <1>4, <2>1, <2>2, <2>3, <2>4
<1>9. CASE BeatFails
    <2>1. On /\ UNCHANGED <<clock, schedule, attempted>>
          /\ Credit' = Credit + LongestInterval + StuckTimeout + 2 * WakeSlack
        BY <1>9, CreditEffect DEF BeatFails, On
    <2> QED
        BY <1>1, <1>2, <1>4, <2>1
<1>10. CASE Reaps
    <2>1. On /\ Credit' = Credit /\ UNCHANGED <<clock, attempted, task>>
        BY <1>10, CreditEffect DEF Reaps, On
    <2>2. Beating = "idle" /\ schedule.claimed # Never /\ clock <= schedule.claimed + StuckTimeout + WakeSlack
        BY <1>1, <1>10 DEF Reaps, Stuck, BeatInv
    <2> QED
        BY <1>1, <1>2, <1>4, <1>10, <2>1, <2>2 DEF Reaps
<1>11. CASE Edits
    <2>1. /\ Credit' = Credit + WakeSlack /\ UNCHANGED <<clock, task>>
          /\ attempted' = IF On THEN attempted ELSE clock
          /\ schedule'.claimed = schedule.claimed
          /\ schedule'.next = clock \/ schedule'.next = schedule.next
        BY <1>11, CreditEffect DEF Edits
    <2>2. CASE On
        BY <1>1, <1>4, <2>1, <2>2
    <2>3. CASE ~On
        <3>1. schedule.claimed # Never /\ Beating = "idle" => Credit >= LongestInterval + StuckTimeout + 2 * WakeSlack
            BY CreditEffect DEF BeatInv
        <3> QED
            BY <1>1, <1>2, <2>1, <2>3, <3>1
    <2> QED
        BY <2>2, <2>3
<1>12. CASE Advance
    <2>1. /\ On /\ Credit' = Credit /\ clock' = clock + 1 /\ UNCHANGED <<schedule, task, attempted>>
          /\ Beating \in {"idle", "polling"}
          /\ Beating = "polling" => clock < task[Heartbeat].now + PollBound
          /\ Due => clock < schedule.next + WakeSlack
          /\ Stuck => clock < schedule.claimed + StuckTimeout + WakeSlack
        BY <1>12, AdvanceEffect, CreditEffect DEF On
    <2>2. CASE Beating = "polling"
        <3>1. task[Heartbeat].now <= attempted
            BY <2>2, HeartbeatPolls DEF AttemptInv, Holding
        <3> QED
            BY <1>1, <1>4, <2>1, <2>2, <3>1
    <2>3. CASE Beating = "idle" /\ schedule.claimed # Never
        BY <1>1, <1>4, <2>1, <2>3 DEF Stuck
    <2>4. CASE Beating = "idle" /\ schedule.claimed = Never
        <3>1. clock + 1 <= schedule.next + WakeSlack
            BY <1>1, <2>1, <2>4 DEF Due, On
        <3> QED
            BY <1>1, <1>4, <2>1, <2>4, <3>1
    <2> QED
        BY <2>1, <2>2, <2>3, <2>4
<1> QED
    BY <1>5, <1>6, <1>7, <1>8, <1>9, <1>10, <1>11, <1>12 DEF CoverMove

LEMMA CoverInit == CadenceFits /\ Init => CoverInv
<1> SUFFICES ASSUME CadenceFits, Init PROVE CoverInv
    OBVIOUS
<1>1. LeaseInv /\ AttemptInv /\ TypeOK
    BY LeaseInvInit, AttemptInit, TypeInit DEF CadenceFits, TypeInv
<1>2. PICK cap \in Caps : BaseInterval <= cap /\ cap \in Nat /\ cap <= LongestInterval
    BY CadenceAssumption, LongestFits
<1>3. Beating = "idle"
    BY NoTaskFields, HeartbeatPolls DEF Init, Beating
<1>4. RowInv
    BY <1>2, <1>3, LongestFits, CadenceAssumption DEF Init, RowInv
<1>5. BeatInv
    BY <1>1, <1>3, CoverTypes DEF Init, BeatInv
<1>6. HorizonInv
    <2>1. Credit \in Nat /\ LongestInterval \in Nat /\ WakeSlack \in Nat
        BY <1>1, CreditEffect, CoverTypes
    <2> QED
        BY <1>3, <2>1 DEF Init, HorizonInv, Horizon
<1> QED
    BY <1>1, <1>4, <1>5, <1>6 DEF CoverInv

LEMMA CoverStep == CoverInv /\ [Next]_vars => CoverInv'
<1> SUFFICES ASSUME CoverInv, [Next]_vars PROVE CoverInv'
    OBVIOUS
<1>1. CadenceFits /\ CadenceFits' /\ LeaseInv /\ LeaseInv' /\ AttemptInv /\ RowInv /\ BeatInv /\ HorizonInv
    BY LeaseInvStep DEF CoverInv, CadenceFits, PollsWithinTTL
<1>2. TypeOK /\ TypeOK' /\ AttemptInv'
    BY <1>1, AttemptStep DEF LeaseInv, TypeInv
<1>3. CoverMove
    BY <1>1, CoverMoves DEF CoverMove
<1> QED
    BY <1>1, <1>2, <1>3, RowStep, BeatStep, HorizonStep DEF CoverInv

\* While polling is on, a poll is attempted, answered or refused, within two of
\* the longest intervals, and one more, with the reap delay, for every fault:
\* demand polls, vetoes, lost claims, crashes and edits never push the next
\* attempt further away.
THEOREM AlwaysCovered == CadenceFits /\ Spec => []Covered
<1>1. CoverInv => Covered
    <2> SUFFICES ASSUME CoverInv, On PROVE Covered
        BY DEF On, Covered
    <2>1. TypeOK /\ CadenceFits
        BY DEF CoverInv, LeaseInv, TypeInv
    <2>2. clock <= attempted + Credit + 2 * LongestInterval + WakeSlack
        BY DEF CoverInv, HorizonInv, Horizon
    <2> DEFINE a == faults * (LongestInterval + StuckTimeout + WakeSlack)
    <2>3. /\ clock \in Nat /\ attempted \in Nat /\ LongestInterval \in Nat /\ WakeSlack \in Nat
          /\ a \in Nat /\ faults + edits \in Nat
        <3>1. faults \in Nat /\ edits \in Nat
            BY <2>1, BoundsAssumption DEF TypeOK
        <3>2. LongestInterval + StuckTimeout + WakeSlack \in Nat
            BY <2>1, CoverTypes
        <3> QED
            BY <2>1, <3>1, <3>2, CoverTypes
    <2>4. Credit = a + (faults + edits) * WakeSlack
        BY DEF Credit
    <2>5. (1 + faults + edits) * WakeSlack = (faults + edits) * WakeSlack + WakeSlack
        <3>1. PICK n \in Nat : n = faults + edits
            BY <2>3
        <3>2. 1 + faults + edits = n + 1
            BY <2>1, <3>1, BoundsAssumption DEF TypeOK
        <3>3. (n + 1) * WakeSlack = n * WakeSlack + WakeSlack
            BY <2>3
        <3> QED
            BY <3>1, <3>2, <3>3
    <2>6. Covered <=> (granted /\ schedule.enabled =>
              clock <= attempted + 2 * LongestInterval + a + (1 + faults + edits) * WakeSlack)
        BY DEF Covered
    <2> HIDE DEF a
    <2>7. (faults + edits) * WakeSlack \in Nat
        BY <2>3
    <2> QED
        BY <2>2, <2>3, <2>4, <2>5, <2>6, <2>7
<1>2. CadenceFits /\ Spec => []CoverInv
    BY CoverInit, CoverStep, PTL DEF Spec
<1> QED
    BY <1>1, <1>2, PTL
=============================================================================
