------------------------- MODULE RateLimiter_proofs -------------------------
(***************************************************************************)
(* Proofs about RateLimiter, for any number of callers, any rate, capacity  *)
(* and pause, and any length of behaviour: type correctness, PauseRespected *)
(* and Paced.                                                              *)
(***************************************************************************)
EXTENDS RateLimiter, TLAPS

-----------------------------------------------------------------------------
(* The inductive invariants.                                               *)

Sleeping == {"pausing", "pacing"}

\* acquire() holds its lock across its sleeps.
OneSleeper == \A c, d \in Callers : phase[c] \in Sleeping /\ phase[d] \in Sleeping => c = d

\* What a caller that sleeps for its token has put into the bucket.
TokenBooked == \A c \in Callers : phase[c] = "pacing" => credit = Interval

AttemptLeft == \A c \in Callers : phase[c] # "calling" => attempt[c] < MaxAttempts

TypeInv == TypeOK /\ OneSleeper /\ TokenBooked /\ AttemptLeft

\* What the service still grants, with a bucket for each cancelled caller.
Grant == allowance + cancels * Full

\* The credit that the next caller finds.
FreeCovered == ~Locked => Grant >= Accrued(credit, lead)

\* Whoever sits out a pause starts from an empty bucket.
PauseCovered == \A c \in Callers : phase[c] = "pausing" => Grant >= 0

\* The cursor runs ahead of now by just what is missing of the booked token.
SleepCovered == \A c \in Callers : phase[c] = "pacing" /\ wake[c] > 0 =>
    lead = wake[c] /\ Grant >= Interval - lead

\* A caller that oversleeps: its token, and what accrued since.
OversleepCovered == \A c \in Callers : phase[c] = "pacing" /\ wake[c] = 0 =>
    lead <= 0 /\ Grant >= Interval + Least(Full, -lead)

PaceInv == TypeInv /\ FreeCovered /\ PauseCovered /\ SleepCovered /\ OversleepCovered

-----------------------------------------------------------------------------
(* Arithmetic, and what an entry into acquire() does.                      *)

LEMMA FullFacts == Full \in Nat /\ Interval <= Full
<1>1. Capacity * Interval = (Capacity - 1) * Interval + Interval
    BY LimiterAssumption
<1>2. (Capacity - 1) * Interval \in Nat
    BY LimiterAssumption
<1> QED
    BY <1>1, <1>2, LimiterAssumption DEF Full

LEMMA AccruedRange ==
    ASSUME NEW n \in 0..Full, NEW ld \in (-Full)..Interval
    PROVE  Accrued(n, ld) \in 0..Full
BY FullFacts, LimiterAssumption DEF Accrued, Least, Greatest

\* One bucket more for one more cancelled caller.
LEMMA GrantFacts ==
    ASSUME TypeOK
    PROVE  /\ Grant \in Int
           /\ cancels * Full \in Nat
           /\ (cancels + 1) * Full = cancels * Full + Full
BY FullFacts DEF TypeOK, Grant

\* The callers that do not move.
Others(c) == \A d \in Callers : d # c =>
    phase'[d] = phase[d] /\ wake'[d] = wake[d] /\ attempt'[d] = attempt[d]

NoOtherSleeper(c) == \A d \in Callers : d # c => phase[d] \notin Sleeping

\* An entry into the loop ends in a sleep before the pause, in a sleep for a
\* token that is booked, or with a request.
LEMMA AcquireEffect ==
    ASSUME TypeOK, NEW c \in Callers, NEW n \in 0..Full, NEW ld \in (-Full)..Interval,
           attempt[c] < MaxAttempts, Acquire(c, n, ld)
    PROVE  /\ credit' \in 0..Full /\ lead' \in (-Full)..Interval
           /\ phase' \in [Callers -> {"idle", "queued", "pausing", "pacing", "calling", "backoff"}]
           /\ wake' \in [Callers -> 0..Greatest(Interval, MaxPause)]
           /\ attempt' \in [Callers -> 0..MaxAttempts]
           /\ allowance' \in Int
           /\ Others(c)
           /\ \/ /\ pause > 0 /\ phase'[c] = "pausing" /\ attempt'[c] = attempt[c]
                 /\ allowance' = allowance
              \/ /\ pause = 0 /\ phase'[c] = "pacing" /\ attempt'[c] = attempt[c]
                 /\ credit' = Interval /\ lead' = Interval - Accrued(n, ld)
                 /\ wake'[c] = lead' /\ lead' > 0 /\ allowance' = allowance
              \/ /\ pause = 0 /\ phase'[c] = "calling"
                 /\ credit' = Accrued(n, ld) - Interval /\ lead' = 0
                 /\ allowance' = allowance - Interval
<1> DEFINE a == Accrued(n, ld)
<1>1. a \in 0..Full
    BY AccruedRange
<1>2. CASE pause > 0 /\ credit' = n /\ lead' = ld /\ Asleep(c, "pausing", pause)
    BY <1>2, LimiterAssumption DEF Asleep, TypeOK, Others, Greatest
<1>3. CASE pause = 0 /\ a < Interval /\ credit' = Interval /\ lead' = Interval - a
           /\ Asleep(c, "pacing", Interval - a)
    <2> HIDE DEF a
    <2>1. Interval - a \in 1..Interval /\ Interval \in 0..Full
        BY <1>1, <1>3, FullFacts, LimiterAssumption
    <2>2. 1..Interval \subseteq 0..Greatest(Interval, MaxPause)
        BY LimiterAssumption DEF Greatest
    <2>3. wake' \in [Callers -> 0..Greatest(Interval, MaxPause)] /\ wake'[c] = Interval - a
        BY <1>3, <2>1, <2>2 DEF Asleep, TypeOK
    <2>4. lead' \in (-Full)..Interval /\ lead' > 0
        BY <1>3, <2>1, FullFacts, LimiterAssumption
    <2> QED
        BY <1>3, <2>1, <2>3, <2>4 DEF Asleep, TypeOK, Others, a
<1>4. CASE pause = 0 /\ a >= Interval /\ credit' = a - Interval /\ lead' = 0 /\ Started(c)
    <2> HIDE DEF a
    <2>1. a - Interval \in 0..Full /\ 0 \in (-Full)..Interval
        BY <1>1, <1>4, FullFacts, LimiterAssumption
    <2>2. attempt[c] + 1 \in 0..MaxAttempts
        BY LimiterAssumption DEF TypeOK
    <2>3. allowance - Interval \in Int
        BY LimiterAssumption DEF TypeOK
    <2> QED
        BY <1>4, <2>1, <2>2, <2>3 DEF Started, TypeOK, Others, a
<1> QED
    BY <1>2, <1>3, <1>4 DEF Acquire

LEMMA AcquireType ==
    ASSUME TypeInv, NEW c \in Callers, NEW n \in 0..Full, NEW ld \in (-Full)..Interval,
           NoOtherSleeper(c), attempt[c] < MaxAttempts, Acquire(c, n, ld),
           UNCHANGED <<pause, brakes, cancels>>
    PROVE  TypeInv'
<1>1. TypeOK'
    BY AcquireEffect DEF TypeInv, TypeOK
<1>2. \A d \in Callers : d # c => phase'[d] \notin Sleeping /\ phase'[d] = phase[d]
                                   /\ attempt'[d] = attempt[d]
    BY AcquireEffect DEF TypeInv, Others, NoOtherSleeper
<1>3. OneSleeper' /\ TokenBooked' /\ AttemptLeft'
    BY <1>2, AcquireEffect DEF TypeInv, OneSleeper, TokenBooked, AttemptLeft, Sleeping
<1> QED
    BY <1>1, <1>3 DEF TypeInv

\* The step of a caller that does not sleep, before or after.
LEMMA AwakeType ==
    ASSUME TypeInv, NEW c \in Callers, NEW p,
           phase' = [phase EXCEPT ![c] = p],
           p \in {"idle", "queued", "backoff"},
           wake' \in [Callers -> 0..Greatest(Interval, MaxPause)],
           attempt' \in [Callers -> 0..MaxAttempts],
           attempt'[c] < MaxAttempts,
           \A d \in Callers : d # c => attempt'[d] = attempt[d],
           pause' \in 0..MaxPause, brakes' \in 0..MaxBrakes, cancels' \in 0..MaxCancels,
           UNCHANGED <<credit, lead, allowance>>
    PROVE  TypeInv'
<1>1. phase' \in [Callers -> {"idle", "queued", "pausing", "pacing", "calling", "backoff"}]
    BY DEF TypeInv, TypeOK
<1>2. TypeOK'
    BY <1>1 DEF TypeInv, TypeOK
<1>3. phase'[c] = p /\ \A d \in Callers : d # c => phase'[d] = phase[d]
    BY DEF TypeInv, TypeOK
<1>4. OneSleeper' /\ TokenBooked' /\ AttemptLeft'
    BY <1>3 DEF TypeInv, OneSleeper, TokenBooked, AttemptLeft, Sleeping
<1> QED
    BY <1>2, <1>4 DEF TypeInv

LEMMA BrakeType ==
    ASSUME TypeOK, HeaderBrake
    PROVE  pause' \in 0..MaxPause /\ brakes' \in 0..MaxBrakes
BY LimiterAssumption DEF TypeOK, HeaderBrake, Paused, Greatest

-----------------------------------------------------------------------------
(* Types.                                                                  *)

LEMMA TypeInit == Init => TypeInv
<1> SUFFICES ASSUME Init PROVE TypeInv
    OBVIOUS
<1>1. 0 \in 0..Greatest(Interval, MaxPause)
    BY LimiterAssumption DEF Greatest
<1>2. Full \in 0..Full /\ Full \in Int /\ 0 \in (-Full)..Interval
    BY FullFacts, LimiterAssumption
<1>3. TypeOK
    BY <1>1, <1>2, LimiterAssumption DEF Init, TypeOK
<1> QED
    BY <1>3, LimiterAssumption
    DEF Init, TypeInv, OneSleeper, TokenBooked, AttemptLeft, Sleeping

LEMMA TypeStep == TypeInv /\ [Next]_vars => TypeInv'
<1> SUFFICES ASSUME TypeInv, [Next]_vars PROVE TypeInv'
    OBVIOUS
<1>a. TypeOK
    BY DEF TypeInv
<1>1. ASSUME NEW c \in Callers, Call(c) \/ BackoffOver(c) PROVE TypeInv'
    <2>1. attempt[c] < MaxAttempts
        BY <1>1 DEF TypeInv, AttemptLeft, Call, BackoffOver
    <2> QED
        BY <1>1, <1>a, <2>1, AwakeType DEF Call, BackoffOver, TypeOK
<1>2. ASSUME NEW c \in Callers, LockGranted(c) PROVE TypeInv'
    <2>1. NoOtherSleeper(c)
        BY <1>2 DEF LockGranted, Locked, NoOtherSleeper, Sleeping
    <2>2. attempt[c] < MaxAttempts
        BY <1>2 DEF TypeInv, AttemptLeft, LockGranted
    <2> QED
        BY <1>2, <1>a, <2>1, <2>2, AcquireType DEF LockGranted, TypeOK
<1>3. ASSUME NEW c \in Callers, PauseOver(c) PROVE TypeInv'
    <2>1. NoOtherSleeper(c) /\ attempt[c] < MaxAttempts
        BY <1>3 DEF PauseOver, TypeInv, OneSleeper, AttemptLeft, NoOtherSleeper, Sleeping
    <2>2. 0 \in 0..Full /\ 0 \in (-Full)..Interval
        BY FullFacts, LimiterAssumption
    <2> QED
        BY <1>3, <2>1, <2>2, AcquireType DEF PauseOver
<1>4. ASSUME NEW c \in Callers, TokenReady(c) PROVE TypeInv'
    <2>1. NoOtherSleeper(c) /\ attempt[c] < MaxAttempts /\ credit = Interval
        BY <1>4 DEF TokenReady, TypeInv, OneSleeper, AttemptLeft, TokenBooked, NoOtherSleeper, Sleeping
    <2>2. CASE Acquire(c, credit, lead)
        BY <1>4, <1>a, <2>1, <2>2, AcquireType DEF TokenReady, TypeOK
    <2>3. CASE credit' = credit - Interval /\ Started(c) /\ UNCHANGED lead
        <3>1. credit' = 0 /\ credit' \in 0..Full /\ allowance - Interval \in Int
              /\ attempt[c] + 1 \in 0..MaxAttempts
            BY <1>a, <2>1, <2>3, FullFacts, LimiterAssumption DEF TypeOK
        <3>2. TypeOK'
            BY <1>4, <1>a, <2>3, <3>1 DEF TypeOK, Started, TokenReady
        <3>3. phase'[c] = "calling" /\ \A d \in Callers : d # c =>
                  phase'[d] = phase[d] /\ attempt'[d] = attempt[d]
            BY <1>a, <2>3 DEF TypeOK, Started
        <3> QED
            BY <2>1, <3>2, <3>3
            DEF TypeInv, OneSleeper, TokenBooked, AttemptLeft, NoOtherSleeper, Sleeping
    <2> QED
        BY <1>4, <2>2, <2>3 DEF TokenReady
<1>5. ASSUME NEW c \in Callers, Answered(c) PROVE TypeInv'
    <2>1. /\ attempt' \in [Callers -> 0..MaxAttempts] /\ attempt'[c] < MaxAttempts
          /\ \A d \in Callers : d # c => attempt'[d] = attempt[d]
        BY <1>5, <1>a, LimiterAssumption DEF Answered, TypeOK
    <2> QED
        BY <1>5, <1>a, <2>1, AwakeType, BrakeType DEF Answered, TypeOK
<1>6. ASSUME NEW c \in Callers, Limited(c) PROVE TypeInv'
    <2>1. PICK p \in 1..MaxPause, q \in 1..MaxPause :
              /\ pause' = Paused(q)
              /\ phase' = [phase EXCEPT ![c] = "backoff"]
              /\ wake' = [wake EXCEPT ![c] = Least(p + 1, MaxPause)]
        BY <1>6 DEF Limited
    <2>2. pause' \in 0..MaxPause /\ brakes' \in 0..MaxBrakes
        BY <1>6, <1>a, <2>1, LimiterAssumption DEF Limited, TypeOK, Paused, Greatest
    <2>3. Least(p + 1, MaxPause) \in 0..Greatest(Interval, MaxPause)
        BY LimiterAssumption DEF Least, Greatest
    <2> QED
        BY <1>6, <1>a, <2>1, <2>2, <2>3, AwakeType DEF Limited, TypeOK
<1>7. ASSUME NEW c \in Callers, Failed(c) PROVE TypeInv'
    <2>1. PICK d \in 0..MaxPause : phase' = [phase EXCEPT ![c] = "backoff"]
                                   /\ wake' = [wake EXCEPT ![c] = d]
        BY <1>7 DEF Failed
    <2>2. d \in 0..Greatest(Interval, MaxPause)
        BY LimiterAssumption DEF Greatest
    <2> QED
        BY <1>7, <1>a, <2>1, <2>2, AwakeType, BrakeType DEF Failed, TypeOK
<1>8. ASSUME NEW c \in Callers, Cancel(c) PROVE TypeInv'
    <2>1. cancels' \in 0..MaxCancels /\ 0 \in 0..Greatest(Interval, MaxPause)
        BY <1>8, <1>a, LimiterAssumption DEF Cancel, TypeOK, Greatest
    <2>2. /\ attempt' \in [Callers -> 0..MaxAttempts] /\ attempt'[c] < MaxAttempts
          /\ \A d \in Callers : d # c => attempt'[d] = attempt[d]
        BY <1>8, <1>a, LimiterAssumption DEF Cancel, TypeOK
    <2>3. wake' \in [Callers -> 0..Greatest(Interval, MaxPause)]
        BY <1>8, <1>a, <2>1 DEF Cancel, TypeOK
    <2> QED
        BY <1>8, <1>a, <2>1, <2>2, <2>3, AwakeType DEF Cancel, TypeOK
<1>9. ASSUME Tick PROVE TypeInv'
    <2>1. lead' \in (-Full)..Interval /\ pause' \in 0..MaxPause
        BY <1>9, <1>a, FullFacts, LimiterAssumption DEF Tick, TypeOK, Greatest
    <2>2. wake' \in [Callers -> 0..Greatest(Interval, MaxPause)]
        <3>1. \A d \in Callers : Greatest(0, wake[d] - 1) \in 0..Greatest(Interval, MaxPause)
            BY <1>a, LimiterAssumption DEF TypeOK, Greatest
        <3> QED
            BY <1>9, <3>1 DEF Tick
    <2>3. allowance' \in Int
        BY <1>9, <1>a, FullFacts, LimiterAssumption DEF Tick, TypeOK, Least, Brim
    <2> QED
        BY <1>9, <1>a, <2>1, <2>2, <2>3
        DEF Tick, TypeInv, TypeOK, OneSleeper, TokenBooked, AttemptLeft
<1>10. ASSUME UNCHANGED vars PROVE TypeInv'
    BY <1>10 DEF vars, TypeInv, TypeOK, OneSleeper, TokenBooked, AttemptLeft
<1> QED
    BY <1>1, <1>2, <1>3, <1>4, <1>5, <1>6, <1>7, <1>8, <1>9, <1>10
    DEF Next, AcquireStep, AnswerStep

\* Every variable has its type: the credit stays between nothing and a bucket,
\* and no call is tried more often than its retry policy says.
THEOREM LimiterTypeCorrect == Spec => []TypeOK
<1>1. TypeInv => TypeOK
    BY DEF TypeInv
<1> QED
    BY <1>1, TypeInit, TypeStep, PTL DEF Spec

-----------------------------------------------------------------------------
(* PauseRespected.                                                         *)

\* Only the last exit of acquire(), and the one after a token, starts a call.
LEMMA StartsOutsidePause ==
    ASSUME TypeOK, [Next]_vars, NEW c \in Callers,
           phase[c] # "calling", phase'[c] = "calling"
    PROVE  pause = 0
<1>1. CASE \E d \in Callers : AcquireStep(d)
    <2>1. PICK d \in Callers : AcquireStep(d)
        BY <1>1
    <2>2. ASSUME NEW n, NEW ld, Acquire(d, n, ld) PROVE pause = 0
        BY <2>2 DEF Acquire, Asleep, TypeOK
    <2> QED
        BY <2>1, <2>2 DEF AcquireStep, LockGranted, PauseOver, TokenReady
<1>2. CASE \E d \in Callers : Call(d) \/ AnswerStep(d) \/ Cancel(d)
    BY <1>2 DEF AnswerStep, Answered, Limited, Failed, BackoffOver, Call, Cancel, TypeOK
<1>3. CASE Tick \/ UNCHANGED vars
    BY <1>3 DEF Tick, vars
<1> QED
    BY <1>1, <1>2, <1>3 DEF Next

\* No request goes out inside a pause, for any number of callers and however
\* pauses, tokens and cancellations interleave.
THEOREM NoCallInPause == Spec => PauseRespected
<1>1. TypeOK /\ [Next]_vars =>
          [\A c \in Callers : phase[c] # "calling" /\ phase'[c] = "calling" => pause = 0]_vars
    BY StartsOutsidePause
<1> QED
    BY <1>1, LimiterTypeCorrect, PTL DEF Spec, PauseRespected

-----------------------------------------------------------------------------
(* Paced.                                                                  *)

\* An entry into acquire() leaves the service's bucket covered.
LEMMA AcquirePace ==
    ASSUME TypeInv, NEW c \in Callers, NEW n \in 0..Full, NEW ld \in (-Full)..Interval,
           NoOtherSleeper(c), attempt[c] < MaxAttempts, Acquire(c, n, ld),
           UNCHANGED <<pause, brakes, cancels>>,
           Grant >= 0, pause = 0 => Grant >= Accrued(n, ld)
    PROVE  PaceInv'
<1>1. TypeInv'
    BY AcquireType
<1>2. \A d \in Callers : d # c => phase'[d] \notin Sleeping
    BY AcquireEffect DEF TypeInv, Others, NoOtherSleeper
<1>3. Grant' = Grant + (allowance' - allowance) /\ Grant \in Int
    BY GrantFacts, AcquireEffect DEF Grant, TypeInv, TypeOK
<1>4. Accrued(n, ld) \in 0..Full
    BY AccruedRange
<1>5. CASE phase'[c] = "pausing"
    <2>1. Grant' = Grant
        BY <1>3, <1>5, AcquireEffect DEF TypeInv, TypeOK
    <2> QED
        BY <1>1, <1>2, <1>5, <2>1
        DEF PaceInv, FreeCovered, PauseCovered, SleepCovered, OversleepCovered, Locked, Sleeping
<1>6. CASE phase'[c] = "pacing"
    <2>1. Grant' = Grant /\ pause = 0 /\ lead' = Interval - Accrued(n, ld)
          /\ wake'[c] = lead' /\ lead' > 0
        BY <1>3, <1>6, AcquireEffect DEF TypeInv, TypeOK
    <2>2. Grant' >= Interval - lead'
        BY <1>3, <1>4, <2>1, LimiterAssumption
    <2>3. wake'[c] # 0
        BY <1>4, <2>1, LimiterAssumption
    <2> QED
        BY <1>1, <1>2, <1>6, <2>1, <2>2, <2>3
        DEF PaceInv, FreeCovered, PauseCovered, SleepCovered, OversleepCovered, Locked, Sleeping
<1>7. CASE phase'[c] = "calling"
    <2>1. pause = 0 /\ credit' = Accrued(n, ld) - Interval /\ lead' = 0
          /\ allowance' = allowance - Interval
        BY <1>7, AcquireEffect DEF TypeInv, TypeOK
    <2>2. Grant' = Grant - Interval
        BY <1>3, <2>1, LimiterAssumption DEF TypeInv, TypeOK
    <2>3. Accrued(credit', lead') <= credit'
        BY <1>4, <2>1, FullFacts, LimiterAssumption DEF Accrued, Least, Greatest
    <2>4. Grant' >= Accrued(credit', lead')
        BY <1>3, <1>4, <2>1, <2>2, <2>3, LimiterAssumption, FullFacts DEF Accrued, Least, Greatest
    <2> QED
        BY <1>1, <1>2, <1>7, <2>4
        DEF PaceInv, FreeCovered, PauseCovered, SleepCovered, OversleepCovered, Sleeping
<1> QED
    BY <1>5, <1>6, <1>7, AcquireEffect DEF TypeInv

\* A sleeper is never short of what it sleeps for.
LEMMA GrantNonNegative ==
    ASSUME PaceInv
    PROVE  Grant >= 0 /\ Grant \in Int
<1> USE DEF PaceInv, TypeInv
<1>1. Grant \in Int
    BY GrantFacts
<1>2. CASE ~Locked
    <2>1. Accrued(credit, lead) \in 0..Full
        BY AccruedRange DEF TypeOK
    <2> QED
        BY <1>1, <1>2, <2>1, FullFacts DEF FreeCovered
<1>3. CASE Locked
    <2>1. PICK c \in Callers : phase[c] \in {"pausing", "pacing"}
        BY <1>3 DEF Locked
    <2>2. CASE phase[c] = "pausing"
        BY <1>1, <2>2 DEF PauseCovered
    <2>3. CASE phase[c] = "pacing" /\ wake[c] > 0
        BY <1>1, <2>3, LimiterAssumption DEF SleepCovered, TypeOK
    <2>4. CASE phase[c] = "pacing" /\ wake[c] = 0
        <3>1. lead \in Int /\ lead <= 0 /\ Grant >= Interval + Least(Full, -lead)
            BY <2>4, FullFacts, LimiterAssumption DEF OversleepCovered, TypeOK
        <3> QED
            BY <1>1, <3>1, FullFacts, LimiterAssumption DEF Least
    <2>5. wake[c] \in Nat
        BY LimiterAssumption DEF TypeOK, Greatest
    <2> QED
        BY <2>1, <2>2, <2>3, <2>4, <2>5
<1> QED
    BY <1>1, <1>2, <1>3

LEMMA PaceInit == Init => PaceInv
<1> SUFFICES ASSUME Init PROVE PaceInv
    OBVIOUS
<1>1. TypeInv
    BY TypeInit
<1>2. Grant = Full /\ Accrued(credit, lead) <= Full
    BY FullFacts, LimiterAssumption DEF Init, Grant, Accrued, Least, Greatest
<1> QED
    BY <1>1, <1>2, FullFacts
    DEF Init, PaceInv, FreeCovered, PauseCovered, SleepCovered, OversleepCovered

\* A step of a caller that does not sleep changes nothing of the account.
LEMMA AwakePace ==
    ASSUME PaceInv, TypeInv', NEW c \in Callers, phase[c] \notin Sleeping,
           phase'[c] \notin Sleeping,
           \A d \in Callers : d # c => phase'[d] = phase[d] /\ wake'[d] = wake[d],
           UNCHANGED <<credit, lead, allowance, cancels>>
    PROVE  PaceInv'
<1>1. Grant' = Grant /\ Locked' = Locked
    BY DEF Grant, Locked, Sleeping
<1>2. FreeCovered'
    BY <1>1 DEF PaceInv, FreeCovered, Accrued
<1> QED
    BY <1>1, <1>2
    DEF PaceInv, PauseCovered, SleepCovered, OversleepCovered, Sleeping, Least

\* A cancelled caller costs a bucket, which is more than it can have left.
LEMMA CancelPace ==
    ASSUME PaceInv, TypeInv', NEW c \in Callers, Cancel(c)
    PROVE  PaceInv'
<1>1. Grant >= 0 /\ Grant \in Int
    BY GrantNonNegative
<1>2. Grant' = Grant + Full
    BY GrantFacts, FullFacts DEF Cancel, Grant, PaceInv, TypeInv, TypeOK
<1>3. Accrued(credit', lead') \in 0..Full
    <2>1. credit' \in 0..Full /\ lead' \in (-Full)..Interval
        BY DEF TypeInv, TypeOK
    <2> QED
        BY <2>1, AccruedRange
<1>4. FreeCovered'
    BY <1>1, <1>2, <1>3, FullFacts DEF FreeCovered, Accrued, Least, Greatest
<1>5. \A d \in Callers : phase'[d] \in Sleeping => phase'[d] = phase[d] /\ wake'[d] = wake[d]
    BY DEF Cancel, PaceInv, TypeInv, TypeOK, Sleeping
<1>6. UNCHANGED lead
    BY DEF Cancel
<1>7. PauseCovered'
    BY <1>1, <1>2, FullFacts DEF PauseCovered
<1>8. SleepCovered'
    <2> SUFFICES ASSUME NEW d \in Callers, phase'[d] = "pacing", wake'[d] > 0
                 PROVE  lead' = wake'[d] /\ Grant' >= Interval - lead'
        BY DEF SleepCovered
    <2>1. lead = wake[d] /\ Grant >= Interval - lead
        BY <1>5 DEF PaceInv, SleepCovered, Sleeping
    <2> QED
        BY <1>1, <1>2, <1>5, <1>6, <2>1, FullFacts, LimiterAssumption
        DEF PaceInv, TypeInv, TypeOK, Sleeping
<1>9. OversleepCovered'
    <2> SUFFICES ASSUME NEW d \in Callers, phase'[d] = "pacing", wake'[d] = 0
                 PROVE  lead' <= 0 /\ Grant' >= Interval + Least(Full, -lead')
        BY DEF OversleepCovered
    <2>1. lead <= 0 /\ Grant >= Interval + Least(Full, -lead)
        BY <1>5 DEF PaceInv, OversleepCovered, Sleeping
    <2>2. Interval + Least(Full, -lead) \in Int
        BY FullFacts, LimiterAssumption DEF PaceInv, TypeInv, TypeOK, Least
    <2> QED
        BY <1>1, <1>2, <1>6, <2>1, <2>2, FullFacts
<1> QED
    BY <1>4, <1>7, <1>8, <1>9 DEF PaceInv

\* A tick in which nobody sits out a pause: the service grants a tick more, up to
\* a full bucket and one token.
LEMMA TickGrant ==
    ASSUME PaceInv, Tick, \A c \in Callers : phase[c] # "pausing"
    PROVE  (Grant' >= Brim \/ Grant' >= Grant + 1) /\ Grant' \in Int
<1> USE DEF PaceInv, TypeInv
<1>1. Brim \in Nat
    BY FullFacts, LimiterAssumption DEF Brim
<1>2. allowance' = Least(Brim, allowance + 1) /\ UNCHANGED cancels
    BY DEF Tick
<1>3. allowance' = Brim \/ allowance' = allowance + 1
    BY <1>2 DEF Least
<1>4. Grant' = allowance' + cancels * Full
    BY <1>2 DEF Grant
<1>5. allowance \in Int /\ cancels * Full \in Nat
    BY GrantFacts DEF TypeOK
<1> QED
    BY <1>1, <1>3, <1>4, <1>5 DEF Grant

LEMMA TickPace ==
    ASSUME PaceInv, TypeInv', Tick
    PROVE  PaceInv'
<1> USE DEF PaceInv, TypeInv
<1>1. Grant >= 0 /\ Grant \in Int /\ Full \in Nat /\ Interval \in Nat /\ Interval <= Full
      /\ Brim = Full + Interval
    BY GrantNonNegative, FullFacts, LimiterAssumption DEF Brim
<1>2. /\ UNCHANGED <<credit, phase>> /\ lead' = Greatest(-Full, lead - 1)
      /\ \A c \in Callers : wake'[c] = Greatest(0, wake[c] - 1)
    BY DEF Tick
<1>3. credit \in Nat /\ lead \in Int /\ lead >= -Full /\ \A c \in Callers : wake[c] \in Nat
    BY <1>1, LimiterAssumption DEF TypeOK, Greatest
<1>4. FreeCovered'
    <2> SUFFICES ASSUME ~Locked PROVE Grant' >= Accrued(credit, lead')
        BY <1>2 DEF FreeCovered, Locked, Accrued
    <2>1. Grant' >= Full \/ Grant' >= Grant + 1
        BY <1>1, TickGrant DEF Locked
    <2>2. Grant >= Accrued(credit, lead) /\ Grant' \in Int
        BY TickGrant DEF FreeCovered, Locked
    <2>3. Accrued(credit, lead') <= Full /\ Accrued(credit, lead') <= Accrued(credit, lead) + 1
        BY <1>1, <1>2, <1>3 DEF Accrued, Least, Greatest
    <2>4. Accrued(credit, lead') \in Int /\ Accrued(credit, lead) \in Int
        BY <1>1, <1>2, <1>3 DEF Accrued, Least, Greatest
    <2> QED
        BY <1>1, <2>1, <2>2, <2>3, <2>4
<1>5. Grant' >= 0
    <2>1. allowance' \in {allowance, 0, Brim, allowance + 1}
        BY DEF Tick, Least
    <2>2. Grant' = allowance' + cancels * Full
        BY DEF Tick, Grant
    <2>3. Brim \in Nat
        BY <1>1
    <2>4. allowance \in Int /\ cancels * Full \in Nat
        BY GrantFacts DEF TypeOK
    <2> QED
        BY <1>1, <2>1, <2>2, <2>3, <2>4 DEF Grant
<1>6. PauseCovered'
    BY <1>5 DEF PauseCovered
<1>7. ASSUME NEW c \in Callers, phase[c] = "pacing"
      PROVE  (Grant' >= Brim \/ Grant' >= Grant + 1) /\ Grant' \in Int
    BY <1>7, TickGrant DEF OneSleeper, Sleeping
<1>8. SleepCovered'
    <2> SUFFICES ASSUME NEW c \in Callers, phase[c] = "pacing", wake'[c] > 0
                 PROVE  lead' = wake'[c] /\ Grant' >= Interval - lead'
        BY <1>2 DEF SleepCovered
    <2>1. wake[c] > 1 /\ wake'[c] = wake[c] - 1
        BY <1>2, <1>3 DEF Greatest
    <2>2. lead = wake[c] /\ Grant >= Interval - lead
        BY <1>3, <2>1 DEF SleepCovered
    <2>3. lead' = lead - 1
        BY <1>1, <1>2, <1>3, <2>1, <2>2 DEF Greatest
    <2> QED
        BY <1>1, <1>3, <1>7, <2>1, <2>2, <2>3
<1>9. OversleepCovered'
    <2> SUFFICES ASSUME NEW c \in Callers, phase[c] = "pacing", wake'[c] = 0
                 PROVE  lead' <= 0 /\ Grant' >= Interval + Least(Full, -lead')
        BY <1>2 DEF OversleepCovered
    <2>1. wake[c] \in {0, 1}
        BY <1>2, <1>3 DEF Greatest
    <2>2. CASE wake[c] = 1
        <3>1. lead = 1 /\ Grant >= Interval - 1
            BY <2>2 DEF SleepCovered
        <3>2. lead' = 0
            BY <1>1, <1>2, <3>1 DEF Greatest
        <3>3. Least(Full, -lead') <= 0
            <4>1. \A m \in Int : m = 0 => Least(Full, -m) <= 0
                BY <1>1 DEF Least
            <4> QED
                BY <3>2, <4>1
        <3>4. Least(Full, -lead') \in Int
            <4>1. \A m \in Int : Least(Full, -m) \in Int
                BY <1>1 DEF Least
            <4> QED
                BY <3>2, <4>1
        <3> QED
            BY <1>1, <1>7, <3>1, <3>2, <3>3, <3>4
    <2>3. CASE wake[c] = 0
        <3>1. lead <= 0 /\ Grant >= Interval + Least(Full, -lead)
            BY <2>3 DEF OversleepCovered
        <3>3. lead' \in Int /\ lead' <= 0
            BY <1>1, <1>2, <1>3, <3>1 DEF Greatest
        <3>4. Least(Full, -lead') <= Full /\ Least(Full, -lead') <= Least(Full, -lead) + 1
            BY <1>1, <1>2, <1>3, <3>1 DEF Greatest, Least
        <3>5. Least(Full, -lead') \in Int /\ Least(Full, -lead) \in Int
            <4>1. \A m \in Int : -m \in Int /\ Least(Full, -m) \in Int
                BY <1>1 DEF Least
            <4> QED
                BY <1>3, <3>3, <4>1
        <3> QED
            BY <1>1, <1>7, <3>1, <3>3, <3>4, <3>5
    <2> QED
        BY <2>1, <2>2, <2>3
<1> QED
    BY <1>4, <1>6, <1>8, <1>9

LEMMA PaceStep == PaceInv /\ [Next]_vars => PaceInv'
<1> SUFFICES ASSUME PaceInv, [Next]_vars PROVE PaceInv'
    OBVIOUS
<1>a. TypeInv /\ TypeOK /\ TypeInv' /\ Grant >= 0
    BY TypeStep, GrantNonNegative DEF PaceInv, TypeInv
<1>1. ASSUME NEW c \in Callers, Call(c) \/ AnswerStep(c) PROVE PaceInv'
    <2>1. phase[c] \notin Sleeping /\ phase'[c] \notin Sleeping
        BY <1>1, <1>a
        DEF Call, AnswerStep, Answered, Limited, Failed, BackoffOver, TypeOK, Sleeping
    <2>2. \A d \in Callers : d # c => phase'[d] = phase[d] /\ wake'[d] = wake[d]
        BY <1>1, <1>a DEF Call, AnswerStep, Answered, Limited, Failed, BackoffOver, TypeOK
    <2>3. UNCHANGED <<credit, lead, allowance, cancels>>
        BY <1>1 DEF Call, AnswerStep, Answered, Limited, Failed, BackoffOver
    <2> QED
        BY <1>a, <2>1, <2>2, <2>3, AwakePace
<1>2. ASSUME NEW c \in Callers, LockGranted(c) PROVE PaceInv'
    <2>1. NoOtherSleeper(c) /\ attempt[c] < MaxAttempts
        BY <1>2, <1>a
        DEF LockGranted, Locked, NoOtherSleeper, Sleeping, TypeInv, AttemptLeft
    <2>2. Grant >= Accrued(credit, lead)
        BY <1>2 DEF LockGranted, PaceInv, FreeCovered
    <2> QED
        BY <1>2, <1>a, <2>1, <2>2, AcquirePace DEF LockGranted, TypeOK
<1>3. ASSUME NEW c \in Callers, PauseOver(c) PROVE PaceInv'
    <2>1. NoOtherSleeper(c) /\ attempt[c] < MaxAttempts
        BY <1>3, <1>a DEF PauseOver, TypeInv, OneSleeper, AttemptLeft, NoOtherSleeper, Sleeping
    <2>2. 0 \in 0..Full /\ 0 \in (-Full)..Interval /\ Accrued(0, 0) = 0
        BY FullFacts, LimiterAssumption DEF Accrued, Least, Greatest
    <2> QED
        BY <1>3, <1>a, <2>1, <2>2, AcquirePace DEF PauseOver
<1>4. ASSUME NEW c \in Callers, TokenReady(c) PROVE PaceInv'
    <2>1. NoOtherSleeper(c) /\ attempt[c] < MaxAttempts /\ credit = Interval
        BY <1>4, <1>a
        DEF TokenReady, TypeInv, OneSleeper, AttemptLeft, TokenBooked, NoOtherSleeper, Sleeping
    <2>2. CASE pause > 0 /\ Acquire(c, credit, lead)
        <3>1. pause # 0
            BY <2>2
        <3> QED
            BY <1>4, <1>a, <2>1, <2>2, <3>1, AcquirePace DEF TokenReady, TypeOK
    <2>3. CASE pause = 0 /\ credit' = credit - Interval /\ Started(c) /\ UNCHANGED lead
        <3>1. lead <= 0 /\ Grant >= Interval + Least(Full, -lead)
            BY <1>4 DEF TokenReady, PaceInv, OversleepCovered
        <3>2. \A d \in Callers : phase'[d] \notin Sleeping
            BY <1>a, <2>1, <2>3 DEF Started, TypeOK, NoOtherSleeper, Sleeping
        <3>3. Grant' = Grant - Interval
            BY <1>4, <1>a, <2>3, GrantFacts, LimiterAssumption
            DEF TokenReady, Started, Grant, TypeOK
        <3>4. credit' = 0 /\ lead' = lead /\ lead \in Int
            BY <1>a, <2>1, <2>3, LimiterAssumption, FullFacts DEF TypeOK
        <3>5. Accrued(credit', lead') = Least(Full, -lead)
            BY <3>1, <3>4, FullFacts DEF Accrued, Least, Greatest
        <3>6. Grant' >= Accrued(credit', lead')
            BY <1>a, <3>1, <3>3, <3>4, <3>5, GrantFacts, FullFacts, LimiterAssumption DEF Least
        <3> QED
            BY <1>a, <3>2, <3>6
            DEF PaceInv, FreeCovered, PauseCovered, SleepCovered, OversleepCovered, Sleeping
    <2> QED
        BY <1>4, <2>2, <2>3 DEF TokenReady
<1>5. ASSUME NEW c \in Callers, Cancel(c) PROVE PaceInv'
    BY <1>5, <1>a, CancelPace
<1>6. ASSUME Tick PROVE PaceInv'
    BY <1>6, <1>a, TickPace
<1>7. ASSUME UNCHANGED vars PROVE PaceInv'
    BY <1>7, <1>a
    DEF vars, PaceInv, FreeCovered, PauseCovered, SleepCovered, OversleepCovered, Grant,
        Locked, Accrued
<1> QED
    BY <1>1, <1>2, <1>3, <1>4, <1>5, <1>6, <1>7 DEF Next, AcquireStep

\* The requests of any window fit one bucket, one token and what accrues in the
\* window, and those after a pause that was sat out what accrues since, plus one
\* bucket for each caller cancelled in its sleep.
THEOREM CallsArePaced == Spec => []Paced
<1>1. PaceInv => Paced
    BY GrantNonNegative DEF Grant, Paced
<1> QED
    BY <1>1, PaceInit, PaceStep, PTL DEF Spec
=============================================================================
