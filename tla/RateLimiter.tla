---------------------------- MODULE RateLimiter ----------------------------
(***************************************************************************)
(* The pacing of one service's outbound requests: the callers that retry,   *)
(* the token bucket they share, and the pause that a 429 or a low headroom  *)
(* header puts on all of them.                                             *)
(*                                                                         *)
(* Time is counted in ticks and relative to now, so there is no clock.  A   *)
(* token is Interval ticks of credit, and credit accrues one per tick; a    *)
(* pause-only limiter has Interval 0.  Sleeps may overshoot.  The cap on    *)
(* simultaneous calls (max_concurrent) is a plain semaphore and left out.   *)
(***************************************************************************)
EXTENDS Integers

CONSTANTS
    Callers,        \* coroutines that call the service
    Interval,       \* 1 / rate_per_second
    Capacity,       \* tokens of a full bucket
    MaxPause,       \* retry_max_delay, which caps a backoff and a Retry-After
                    \* pause; bound: also the longest pause of a header
    MaxAttempts,    \* retry_count
    MaxBrakes,      \* bound: pauses in a behaviour
    MaxCancels      \* bound: cancelled callers in a behaviour

ASSUME LimiterAssumption ==
    /\ Interval \in Nat
    /\ Capacity \in Nat \ {0}
    /\ MaxPause \in Nat \ {0} /\ MaxAttempts \in Nat \ {0}
    /\ MaxBrakes \in Nat /\ MaxCancels \in Nat

Full == Capacity * Interval

VARIABLES
    credit,     \* _tokens
    lead,       \* _updated_at, seen from now
    pause,      \* _paused_until, seen from now; 0 when it is over
    phase,      \* where each caller is
    wake,       \* how long each caller still sleeps
    attempt,    \* attempts each caller has made of its call
    allowance,  \* history: the bucket of the service that the limiter stands for
    brakes, cancels

vars == <<credit, lead, pause, phase, wake, attempt, allowance, brakes, cancels>>

Least(a, b) == IF a < b THEN a ELSE b
Greatest(a, b) == IF a > b THEN a ELSE b

Init ==
    /\ credit = Full
    /\ lead = 0
    /\ pause = 0
    /\ phase = [c \in Callers |-> "idle"]
    /\ wake = [c \in Callers |-> 0]
    /\ attempt = [c \in Callers |-> 0]
    /\ allowance = Full
    /\ brakes = 0
    /\ cancels = 0

\* The lock of acquire() is held across its sleeps and nothing else.
Locked == \E c \in Callers : phase[c] \in {"pausing", "pacing"}

-----------------------------------------------------------------------------
\* A call starts, and every retry of it: the caller queues for the limiter.
Call(c) ==
    /\ phase[c] = "idle"
    /\ phase' = [phase EXCEPT ![c] = "queued"]
    /\ UNCHANGED <<credit, lead, pause, wake, attempt, allowance, brakes, cancels>>

BackoffOver(c) ==
    /\ phase[c] = "backoff" /\ wake[c] = 0
    /\ phase' = [phase EXCEPT ![c] = "queued"]
    /\ UNCHANGED <<credit, lead, pause, wake, attempt, allowance, brakes, cancels>>

\* The request goes out.
Started(c) ==
    /\ phase' = [phase EXCEPT ![c] = "calling"]
    /\ attempt' = [attempt EXCEPT ![c] = @ + 1]
    /\ allowance' = allowance - Interval
    /\ UNCHANGED wake

Asleep(c, why, ticks) ==
    /\ phase' = [phase EXCEPT ![c] = why]
    /\ wake' = [wake EXCEPT ![c] = ticks]
    /\ UNCHANGED <<attempt, allowance>>

\* The credit of a bucket of n whose cursor is at ld: a cursor ahead of now
\* accrues nothing.  Mutant: the bucket has no brim.
AccruedUnbounded(n, ld) == n + Greatest(0, -ld)
Accrued(n, ld) == Least(Full, n + Greatest(0, -ld))

\* The loop of acquire(), entered with credit n and the cursor at ld, up to
\* its next sleep or the return.
Acquire(c, n, ld) ==
    \/ /\ pause > 0
       /\ credit' = n /\ lead' = ld
       /\ Asleep(c, "pausing", pause)
    \/ /\ pause = 0
       /\ Accrued(n, ld) < Interval
       /\ credit' = Interval
       /\ lead' = Interval - Accrued(n, ld)
       /\ Asleep(c, "pacing", Interval - Accrued(n, ld))
    \/ /\ pause = 0
       /\ Accrued(n, ld) >= Interval
       /\ credit' = Accrued(n, ld) - Interval
       /\ lead' = 0
       /\ Started(c)

LockGranted(c) ==
    /\ phase[c] = "queued" /\ ~Locked
    /\ Acquire(c, credit, lead)
    /\ UNCHANGED <<pause, brakes, cancels>>

\* The pause was slept out: the bucket is emptied, and the deadline read again.
\* Mutants: the bucket keeps what it had and accrued; the deadline is the one
\* read before the sleep.
PauseOverAccrued(c) ==
    /\ phase[c] = "pausing" /\ wake[c] = 0
    /\ Acquire(c, credit, lead)
    /\ UNCHANGED <<pause, brakes, cancels>>
PauseOverStale(c) ==
    /\ phase[c] = "pausing" /\ wake[c] = 0
    /\ credit' = 0 /\ lead' = 0
    /\ Asleep(c, "pausing", 1)
    /\ UNCHANGED <<pause, brakes, cancels>>
PauseOver(c) ==
    /\ phase[c] = "pausing" /\ wake[c] = 0
    /\ Acquire(c, 0, 0)
    /\ UNCHANGED <<pause, brakes, cancels>>

\* The token is there; a pause that landed meanwhile outranks it.  Mutant: the
\* token is spent regardless.
TokenReadyRegardless(c) ==
    /\ phase[c] = "pacing" /\ wake[c] = 0
    /\ credit' = credit - Interval /\ Started(c) /\ UNCHANGED lead
    /\ UNCHANGED <<pause, brakes, cancels>>
TokenReady(c) ==
    /\ phase[c] = "pacing" /\ wake[c] = 0
    /\ \/ pause > 0 /\ Acquire(c, credit, lead)
       \/ pause = 0 /\ credit' = credit - Interval /\ Started(c) /\ UNCHANGED lead
    /\ UNCHANGED <<pause, brakes, cancels>>

\* pause_for: the deadline only ever extends.
Paused(p) == Greatest(pause, p)

\* Any response may show a low headroom.
HeaderBrake ==
    \/ UNCHANGED <<pause, brakes>>
    \/ /\ brakes < MaxBrakes /\ brakes' = brakes + 1
       /\ \E p \in 1..MaxPause : pause' = Paused(p)

\* The call is over, with a result or with its last failure.
Answered(c) ==
    /\ phase[c] = "calling"
    /\ phase' = [phase EXCEPT ![c] = "idle"]
    /\ attempt' = [attempt EXCEPT ![c] = 0]
    /\ HeaderBrake
    /\ UNCHANGED <<credit, lead, wake, allowance, cancels>>

\* A 429 with a Retry-After of p, and an attempt left: before_sleep pauses the
\* service, and the caller backs off for a second more than that.  The header of
\* the same response may call for a longer pause.
Limited(c) ==
    /\ phase[c] = "calling" /\ attempt[c] < MaxAttempts
    /\ brakes < MaxBrakes /\ brakes' = brakes + 1
    /\ \E p \in 1..MaxPause, q \in 1..MaxPause :
          /\ q >= p /\ pause' = Paused(q)
          /\ phase' = [phase EXCEPT ![c] = "backoff"]
          /\ wake' = [wake EXCEPT ![c] = Least(p + 1, MaxPause)]
    /\ UNCHANGED <<credit, lead, attempt, allowance, cancels>>

\* Another failure that is retried.
Failed(c) ==
    /\ phase[c] = "calling" /\ attempt[c] < MaxAttempts
    /\ \E d \in 0..MaxPause :
          /\ phase' = [phase EXCEPT ![c] = "backoff"]
          /\ wake' = [wake EXCEPT ![c] = d]
    /\ HeaderBrake
    /\ UNCHANGED <<credit, lead, attempt, allowance, cancels>>

\* The caller is cancelled at whatever it waits for.  The bucket stays as the
\* booking for its sleep left it.
Cancel(c) ==
    /\ phase[c] # "idle"
    /\ cancels < MaxCancels
    /\ cancels' = cancels + 1
    /\ phase' = [phase EXCEPT ![c] = "idle"]
    /\ wake' = [wake EXCEPT ![c] = 0]
    /\ attempt' = [attempt EXCEPT ![c] = 0]
    /\ UNCHANGED <<credit, lead, pause, allowance, brakes>>

\* What the service must stand: a caller that oversleeps has its token booked,
\* and the bucket behind it refills all the same.
Brim == Full + Interval

\* One tick.  The service's own bucket is emptied by a pause somebody sits out.
Tick ==
    /\ pause' = Greatest(0, pause - 1)
    /\ lead' = Greatest(-Full, lead - 1)
    /\ wake' = [c \in Callers |-> Greatest(0, wake[c] - 1)]
    /\ allowance' = IF pause > 0 /\ \E c \in Callers : phase[c] = "pausing"
                    THEN Least(allowance, 0)
                    ELSE Least(Brim, allowance + 1)
    /\ UNCHANGED <<credit, phase, attempt, brakes, cancels>>

AcquireStep(c) == LockGranted(c) \/ PauseOver(c) \/ TokenReady(c)
AnswerStep(c) == Answered(c) \/ Limited(c) \/ Failed(c) \/ BackoffOver(c)

Next ==
    \/ \E c \in Callers : Call(c) \/ AcquireStep(c) \/ AnswerStep(c) \/ Cancel(c)
    \/ Tick

Spec == Init /\ [][Next]_vars

\* Time passes; sleepers wake; requests have a timeout; asyncio.Lock serves its
\* waiters in order, so a waiter that gets its chance again and again takes it.
Fairness ==
    /\ WF_vars(Tick)
    /\ \A c \in Callers : SF_vars(AcquireStep(c)) /\ WF_vars(AnswerStep(c))

FairSpec == Spec /\ Fairness

-----------------------------------------------------------------------------
\* The type of every variable.
TypeOK ==
    /\ credit \in 0..Full
    /\ lead \in (-Full)..Interval
    /\ pause \in 0..MaxPause
    /\ phase \in [Callers -> {"idle", "queued", "pausing", "pacing", "calling", "backoff"}]
    /\ wake \in [Callers -> 0..Greatest(Interval, MaxPause)]
    /\ attempt \in [Callers -> 0..MaxAttempts]
    /\ allowance \in Int
    /\ brakes \in 0..MaxBrakes
    /\ cancels \in 0..MaxCancels

\* No request goes out inside a pause, however long the caller had been waiting
\* for its token, and however the pause was extended meanwhile.
PauseRespected ==
    [][\A c \in Callers : phase[c] # "calling" /\ phase'[c] = "calling" => pause = 0]_vars

\* However callers, sleeps, pauses and answers interleave, any window of w ticks
\* has at most Capacity + 1 + w / Interval requests: one more than a bucket of
\* Capacity, for the caller that overslept its booked token while the bucket
\* refilled.  After a pause that was sat out they resume one at a time.  A
\* cancelled sleeper may let a bucket more through: its booking, or what its
\* pause was to empty.
Paced == allowance + cancels * Full >= 0

\* A call that queues for the limiter goes out, or is cancelled.
CallsServed ==
    \A c \in Callers : phase[c] = "queued" ~> phase[c] \in {"calling", "idle"}
=============================================================================
