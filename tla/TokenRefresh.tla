---------------------------- MODULE TokenRefresh ----------------------------
(***************************************************************************)
(* The refresh of one user's token for one service that rotates refresh     *)
(* tokens: the token managers of all processes, the advisory lock, the      *)
(* stored token, the provider, and the user who connects and disconnects.   *)
(*                                                                         *)
(* A refresh token is a grant and a generation within it.  The provider     *)
(* honours one generation of a grant and revokes the grant when it is sent  *)
(* another.  Access tokens are left out: a manager refreshes because its    *)
(* access token expired or was refused, which can be at any time.  Process  *)
(* clocks are synchronised.                                                *)
(***************************************************************************)
EXTENDS Integers

CONSTANTS
    Managers,       \* token managers: one per process that uses the service
    MaxGrants,      \* bound: connections made by the user
    MaxGeneration,  \* bound: rotations of a grant
    MaxTime,        \* bound: last value of the clock
    MaxFaults       \* bound: crashes and lost answers, commits and connections

Grants == 1..MaxGrants

ASSUME TokenAssumption ==
    /\ MaxGrants \in Nat /\ MaxFaults \in Nat
    /\ MaxGeneration \in Nat \ {0} /\ MaxTime \in Nat \ {0}

VARIABLES
    clock,
    stored,     \* the oauth_tokens row
    honoured,   \* the provider: the generation it honours of each grant
    connected,  \* the grants the user made so far
    cache,      \* _token_info of each manager
    phase,      \* where the refresh of each manager is
    entered,    \* entered_at of each refresh
    fresh,      \* the token a POST came back with
    holder,     \* who holds the advisory lock
    lost,       \* history: grants of which a rotation did not reach the row
    unguarded,  \* history: grants that a manager which had lost the lock sent
                \* to the provider, or deleted from the row
    dropped,    \* history: grants the user disconnected or replaced
    replayed,   \* history: grants revoked because of a replay
    faults

vars == <<clock, stored, honoured, connected, cache, phase, entered, fresh,
          holder, lost, unguarded, dropped, replayed, faults>>

\* No token; a token as the code exchange stores it, and as guard.save does.
\* Mutant: the stamp is in milliseconds.
None == [grant |-> 0, gen |-> 0, stamp |-> 0]
Granted(g) == [grant |-> g, gen |-> 1, stamp |-> 0]
StampedMillis(tok, t) == [tok EXCEPT !.stamp = 1000 * t]
Stamped(tok, t) == [tok EXCEPT !.stamp = t]

SameRefreshToken(a, b) == a.grant = b.grant /\ a.gen = b.gen

Fault == faults < MaxFaults /\ faults' = faults + 1

Init ==
    /\ clock = 1
    /\ stored = None
    /\ honoured = [g \in Grants |-> 0]
    /\ connected = 0
    /\ cache = [m \in Managers |-> None]
    /\ phase = [m \in Managers |-> "idle"]
    /\ entered = [m \in Managers |-> 0]
    /\ fresh = [m \in Managers |-> None]
    /\ holder = {}
    /\ lost = {} /\ unguarded = {} /\ dropped = {} /\ replayed = {}
    /\ faults = 0

-----------------------------------------------------------------------------
(* A token manager.                                                         *)

\* get_valid_token and force_refresh load the row when nothing is cached.
LoadToken(m) ==
    /\ phase[m] = "idle"
    /\ cache[m] = None /\ stored # None
    /\ cache' = [cache EXCEPT ![m] = stored]
    /\ UNCHANGED <<clock, stored, honoured, connected, phase, entered, fresh,
                   holder, lost, unguarded, dropped, replayed, faults>>

\* The access token expired, or was answered with 401.
EnterFlight(m) ==
    /\ phase[m] = "idle"
    /\ cache[m] # None
    /\ phase' = [phase EXCEPT ![m] = "waiting"]
    /\ entered' = [entered EXCEPT ![m] = clock]
    /\ UNCHANGED <<clock, stored, honoured, connected, cache, fresh, holder,
                   lost, unguarded, dropped, replayed, faults>>

FlightAlreadyCompleted(m) ==
    ~SameRefreshToken(stored, cache[m]) \/ stored.stamp > entered[m]

\* The lock is granted and the row re-read under it.  Mutant: the row is not
\* re-read.
TakeLockBlindly(m) ==
    /\ phase[m] = "waiting" /\ holder = {}
    /\ holder' = {m}
    /\ phase' = [phase EXCEPT ![m] = "posting"]
    /\ UNCHANGED <<clock, stored, honoured, connected, cache, entered, fresh,
                   lost, unguarded, dropped, replayed, faults>>
TakeLock(m) ==
    /\ phase[m] = "waiting" /\ holder = {}
    /\ stored = None \/ ~FlightAlreadyCompleted(m)
    /\ holder' = {m}
    /\ phase' = [phase EXCEPT ![m] = "posting"]
    /\ UNCHANGED <<clock, stored, honoured, connected, cache, entered, fresh,
                   lost, unguarded, dropped, replayed, faults>>

\* Another flight completed a refresh: its token is taken over.
Adopt(m) ==
    /\ phase[m] = "waiting" /\ holder = {}
    /\ stored # None /\ FlightAlreadyCompleted(m)
    /\ cache' = [cache EXCEPT ![m] = stored]
    /\ phase' = [phase EXCEPT ![m] = "idle"]
    /\ UNCHANGED <<clock, stored, honoured, connected, entered, fresh, holder,
                   lost, unguarded, dropped, replayed, faults>>

\* lock_timeout expires: TokenRefreshContendedError.
Contended(m) ==
    /\ phase[m] = "waiting" /\ holder # {}
    /\ phase' = [phase EXCEPT ![m] = "idle"]
    /\ UNCHANGED <<clock, stored, honoured, connected, cache, entered, fresh,
                   holder, lost, unguarded, dropped, replayed, faults>>

\* The provider honours the POST, with a rotated refresh token or without one
\* (then the presented one is carried forward).
Honoured(m) == honoured[cache[m].grant] = cache[m].gen

Sent(m) ==
    unguarded' = IF m \in holder THEN unguarded ELSE unguarded \cup {cache[m].grant}

PostAnswered(m) ==
    /\ phase[m] = "posting" /\ Honoured(m)
    /\ \E n \in {cache[m].gen, cache[m].gen + 1} :
          /\ n <= MaxGeneration
          /\ honoured' = [honoured EXCEPT ![cache[m].grant] = n]
          /\ fresh' = [fresh EXCEPT ![m] = [grant |-> cache[m].grant, gen |-> n, stamp |-> 0]]
    /\ phase' = [phase EXCEPT ![m] = "saving"]
    /\ Sent(m)
    /\ UNCHANGED <<clock, stored, connected, cache, entered, holder, lost,
                   dropped, replayed, faults>>

\* The provider refuses it: invalid_grant.  A superseded generation of a grant
\* that is in force reads as a replay.  Mutant: the refusal is retried.
PostRefusedRetried(m) ==
    /\ phase[m] = "posting" /\ ~Honoured(m)
    /\ honoured' = [honoured EXCEPT ![cache[m].grant] = 0]
    /\ replayed' = IF honoured[cache[m].grant] # 0 THEN replayed \cup {cache[m].grant}
                   ELSE replayed
    /\ Sent(m)
    /\ UNCHANGED <<clock, stored, connected, cache, phase, entered, fresh, holder,
                   lost, dropped, faults>>
PostRefused(m) ==
    /\ phase[m] = "posting" /\ ~Honoured(m)
    /\ honoured' = [honoured EXCEPT ![cache[m].grant] = 0]
    /\ replayed' = IF honoured[cache[m].grant] # 0 THEN replayed \cup {cache[m].grant}
                   ELSE replayed
    /\ phase' = [phase EXCEPT ![m] = "refused"]
    /\ Sent(m)
    /\ UNCHANGED <<clock, stored, connected, cache, entered, fresh, holder,
                   lost, dropped, faults>>

\* The transaction of m ends without a write of its own.
Released(m) ==
    /\ holder' = holder \ {m}
    /\ phase' = [phase EXCEPT ![m] = "idle"]
    /\ fresh' = [fresh EXCEPT ![m] = None]

\* No answer arrives; the provider may have rotated all the same.
AnswerLost(m) ==
    \/ UNCHANGED <<honoured, lost>>
    \/ /\ Honoured(m) /\ cache[m].gen < MaxGeneration
       /\ honoured' = [honoured EXCEPT ![cache[m].grant] = cache[m].gen + 1]
       /\ lost' = lost \cup {cache[m].grant}

\* The POST fails for another reason, whether the provider rotated or not.
PostFails(m) ==
    /\ phase[m] = "posting"
    /\ Fault
    /\ AnswerLost(m)
    /\ Released(m)
    /\ UNCHANGED <<clock, stored, connected, cache, entered, unguarded, dropped, replayed>>

\* guard.save: stamped and upserted, not committed.
SaveToken(m) ==
    /\ phase[m] = "saving"
    /\ m \in holder
    /\ fresh' = [fresh EXCEPT ![m] = Stamped(fresh[m], clock)]
    /\ phase' = [phase EXCEPT ![m] = "committing"]
    /\ UNCHANGED <<clock, stored, honoured, connected, cache, entered, holder,
                   lost, unguarded, dropped, replayed, faults>>

\* The commit, which also releases the lock.  Mutant: the lock goes first.
CommitUnlocked(m) ==
    /\ phase[m] = "committing"
    /\ IF m \in holder
       THEN /\ holder' = holder \ {m}
            /\ UNCHANGED <<stored, cache, phase, fresh>>
       ELSE /\ stored' = fresh[m]
            /\ cache' = [cache EXCEPT ![m] = fresh[m]]
            /\ phase' = [phase EXCEPT ![m] = "idle"]
            /\ fresh' = [fresh EXCEPT ![m] = None]
            /\ UNCHANGED holder
    /\ UNCHANGED <<clock, honoured, connected, entered, lost, unguarded, dropped, replayed, faults>>
Commit(m) ==
    /\ phase[m] = "committing"
    /\ stored' = fresh[m]
    /\ cache' = [cache EXCEPT ![m] = fresh[m]]
    /\ Released(m)
    /\ UNCHANGED <<clock, honoured, connected, entered, lost, unguarded, dropped, replayed, faults>>

\* The save or the commit fails, or the connection it needs is gone.
SaveFails(m) ==
    /\ phase[m] \in {"saving", "committing"}
    /\ IF m \in holder THEN Fault ELSE UNCHANGED faults
    /\ lost' = lost \cup {fresh[m].grant}
    /\ Released(m)
    /\ UNCHANGED <<clock, stored, honoured, connected, cache, entered, unguarded, dropped, replayed>>

\* delete_grant_if_unchanged: the comparison, in a session of its own.
CompareGrant(m) ==
    /\ phase[m] = "refused"
    /\ IF SameRefreshToken(stored, cache[m])
       THEN /\ phase' = [phase EXCEPT ![m] = "deleting"]
            /\ UNCHANGED <<cache, fresh, holder>>
       ELSE /\ cache' = [cache EXCEPT ![m] = None]
            /\ Released(m)
    /\ UNCHANGED <<clock, stored, honoured, connected, entered, lost, unguarded, dropped, replayed, faults>>

\* ... and the deletion, in another one: of whatever the row holds by then.
DeleteGrant(m) ==
    /\ phase[m] = "deleting"
    /\ stored' = None
    /\ unguarded' = IF m \in holder \/ stored = None THEN unguarded
                    ELSE unguarded \cup {stored.grant}
    /\ cache' = [cache EXCEPT ![m] = None]
    /\ Released(m)
    /\ UNCHANGED <<clock, honoured, connected, entered, lost, dropped, replayed, faults>>

\* The process of m dies.  What the provider had answered is gone with it.
Crash(m) ==
    /\ cache[m] # None
    /\ Fault
    /\ CASE phase[m] = "posting" -> AnswerLost(m)
         [] phase[m] \in {"saving", "committing"} ->
              lost' = lost \cup {fresh[m].grant} /\ UNCHANGED honoured
         [] OTHER -> UNCHANGED <<honoured, lost>>
    /\ cache' = [cache EXCEPT ![m] = None]
    /\ Released(m)
    /\ UNCHANGED <<clock, stored, connected, entered, unguarded, dropped, replayed>>

\* The database connection of the holder is lost, and the lock with it; the
\* manager goes on with its POST.
ConnectionLost(m) ==
    /\ m \in holder /\ phase[m] = "posting"
    /\ Fault
    /\ holder' = holder \ {m}
    /\ UNCHANGED <<clock, stored, honoured, connected, cache, phase, entered,
                   fresh, lost, unguarded, dropped, replayed>>

-----------------------------------------------------------------------------
(* The user.                                                                *)

RowLocked == \E m \in Managers : phase[m] = "committing"

\* exchange_code, then save_token, which takes no advisory lock.
Connect ==
    /\ connected < MaxGrants /\ ~RowLocked
    /\ connected' = connected + 1
    /\ honoured' = [honoured EXCEPT ![connected + 1] = 1]
    /\ stored' = Granted(connected + 1)
    /\ dropped' = dropped \cup {g \in Grants : g <= connected}
    /\ UNCHANGED <<clock, cache, phase, entered, fresh, holder, lost, unguarded, replayed, faults>>

Disconnect ==
    /\ stored # None /\ ~RowLocked
    /\ stored' = None
    /\ dropped' = dropped \cup {stored.grant}
    /\ UNCHANGED <<clock, honoured, connected, cache, phase, entered, fresh,
                   holder, lost, unguarded, replayed, faults>>

Advance ==
    /\ clock < MaxTime
    /\ clock' = clock + 1
    /\ UNCHANGED <<stored, honoured, connected, cache, phase, entered, fresh,
                   holder, lost, unguarded, dropped, replayed, faults>>

\* A refresh, from its entry on.
FlightStep(m) ==
    \/ TakeLock(m) \/ Adopt(m) \/ Contended(m)
    \/ PostAnswered(m) \/ PostRefused(m) \/ PostFails(m)
    \/ SaveToken(m) \/ Commit(m) \/ SaveFails(m) \/ CompareGrant(m) \/ DeleteGrant(m)

Next ==
    \/ \E m \in Managers :
          LoadToken(m) \/ EnterFlight(m) \/ FlightStep(m) \/ Crash(m) \/ ConnectionLost(m)
    \/ Connect \/ Disconnect \/ Advance

Spec == Init /\ [][Next]_vars

\* The POST has a timeout, a statement too, and so has the wait for the lock.
Fairness == \A m \in Managers : WF_vars(FlightStep(m))

FairSpec == Spec /\ Fairness

-----------------------------------------------------------------------------
Token == [grant : 0..MaxGrants, gen : 0..MaxGeneration, stamp : 0..MaxTime]
Phase == {"idle", "waiting", "posting", "saving", "committing", "refused", "deleting"}

\* The type of every variable.
TypeOK ==
    /\ clock \in 1..MaxTime
    /\ stored \in Token
    /\ honoured \in [Grants -> 0..MaxGeneration]
    /\ connected \in 0..MaxGrants
    /\ cache \in [Managers -> Token]
    /\ phase \in [Managers -> Phase]
    /\ entered \in [Managers -> 0..MaxTime]
    /\ fresh \in [Managers -> Token]
    /\ holder \in SUBSET Managers
    /\ lost \in SUBSET Grants /\ unguarded \in SUBSET Grants
    /\ dropped \in SUBSET Grants /\ replayed \in SUBSET Grants
    /\ faults \in 0..MaxFaults

\* Whatever managers refresh at the same time, from however old a cache, none
\* presents a refresh token that another one has used, with three exceptions.
\* The grant may be revoked if a rotation of it did not reach the row; if a
\* manager lost its connection, and the lock with it, during its POST, and the
\* POST went out or the row was deleted all the same; or if the user had
\* replaced the grant or disconnected it.
NoReplay == replayed \subseteq lost \cup unguarded \cup dropped

\* Between flights the row holds the generation the provider honours, with the
\* same three exceptions: its rotation did not reach the row; it was refreshed,
\* or its row deleted, without the lock; or the grant in the row is one the user
\* had replaced, and a flight wrote it over the newer one.
InHand(g) == \E m \in Managers : phase[m] \in {"saving", "committing"} /\ fresh[m].grant = g

StoredIsLive ==
    stored # None =>
        \/ honoured[stored.grant] = stored.gen
        \/ InHand(stored.grant)
        \/ stored.grant \in lost \cup unguarded \cup dropped

\* Every flight ends, with a token or with an error, and frees the lock.
FlightEnds == \A m \in Managers : phase[m] # "idle" ~> phase[m] = "idle"

=============================================================================
