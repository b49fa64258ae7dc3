------------------------- MODULE TokenRefresh_proofs -------------------------
(***************************************************************************)
(* Proofs about TokenRefresh, for any number of managers, grants, rotations *)
(* and faults: type correctness, NoReplay and StoredIsLive.                 *)
(***************************************************************************)
EXTENDS TokenRefresh, TLAPS

-----------------------------------------------------------------------------
(* The inductive invariant.                                                *)

Holding == {"posting", "saving", "committing", "refused", "deleting"}

\* A manager that works for a refresh has the lock, or has lost it with its
\* connection during the POST; once its POST is sent, its grant is unguarded.
\* It commits under the lock only.
LockInv ==
    /\ \A m, n \in Managers : m \in holder /\ n \in holder => m = n
    /\ \A m \in Managers :
          /\ m \in holder => phase[m] \in Holding
          /\ phase[m] \in Holding \ {"posting"} => m \in holder \/ cache[m].grant \in unguarded
          /\ phase[m] = "committing" => m \in holder

\* What managers, flights and the row know are grants the user made.
GrantInv ==
    /\ \A m \in Managers :
          /\ cache[m] # None => cache[m].grant \in 1..connected
          /\ phase[m] # "idle" => cache[m] # None
          /\ phase[m] \in {"saving", "committing"} =>
                fresh[m].grant = cache[m].grant /\ fresh[m].grant \in 1..connected
    /\ stored # None => stored.grant \in 1..connected
    /\ \A g \in Grants : g > connected => g \notin lost \cup unguarded \cup dropped

\* Only the grant made last can be in order; the others were replaced.
InOrder == connected > 0 /\ connected \notin lost \cup unguarded \cup dropped

Replaced == \A g \in Grants : g < connected => g \in dropped

\* Every cache of the grant holds the generation that the provider honours.
Uniform == \A m \in Managers :
    cache[m].grant = connected => cache[m].gen = honoured[connected]

\* Of a grant in order: it was never revoked; the row holds the generation in
\* force unless a flight is about to write it; a flight under the lock posts the
\* generation in force and brings back the next; older caches are told by the
\* row, and where the row does not tell, there are none.
OrderInv == InOrder =>
    /\ honoured[connected] # 0
    /\ stored.grant = connected => stored.gen = honoured[connected] \/ InHand(connected)
    /\ \A m \in Managers : cache[m].grant = connected =>
          /\ phase[m] = "posting" /\ m \in holder => cache[m].gen = honoured[connected]
          /\ phase[m] \in {"saving", "committing"} => fresh[m].gen = honoured[connected]
          /\ phase[m] \notin {"refused", "deleting"}
    /\ stored.grant # connected => Uniform \/ InHand(connected)
    /\ \A h \in holder : cache[h].grant # connected => Uniform

RefreshInv == TypeOK /\ LockInv /\ GrantInv /\ Replaced /\ OrderInv /\ NoReplay

-----------------------------------------------------------------------------
(* Types.                                                                  *)

LEMMA TokenFacts ==
    /\ None \in Token /\ None.grant = 0 /\ None.gen = 0
    /\ \A g \in Grants : Granted(g) \in Token /\ Granted(g) # None
                         /\ Granted(g).grant = g /\ Granted(g).gen = 1
    /\ \A tok \in Token : tok # None => tok.grant # 0 \/ tok.gen # 0 \/ tok.stamp # 0
BY TokenAssumption DEF None, Token, Granted, Grants

LEMMA StampedFacts ==
    ASSUME NEW tok \in Token, NEW t \in 0..MaxTime
    PROVE  Stamped(tok, t) \in Token /\ Stamped(tok, t).grant = tok.grant
           /\ Stamped(tok, t).gen = tok.gen
BY DEF Stamped, Token

LEMMA StoredFacts ==
    ASSUME TypeOK, GrantInv, stored # None
    PROVE  stored.grant \in Grants /\ stored.grant <= connected
BY TokenAssumption DEF TypeOK, GrantInv, Token, Grants

LEMMA StateFacts ==
    ASSUME TypeOK, GrantInv, NEW m \in Managers
    PROVE  /\ cache[m] \in Token /\ cache[m].grant \in 0..MaxGrants
           /\ cache[m].gen \in 0..MaxGeneration
           /\ fresh[m] \in Token /\ fresh[m].grant \in 0..MaxGrants
           /\ fresh[m].gen \in 0..MaxGeneration
           /\ stored \in Token /\ stored.grant \in 0..MaxGrants
           /\ phase[m] # "idle" => cache[m] # None
           /\ cache[m] # None => cache[m].grant \in Grants /\ cache[m].grant <= connected
           /\ phase[m] \in {"saving", "committing"} =>
                 fresh[m].grant \in Grants /\ fresh[m].grant = cache[m].grant
<1>1. cache[m] \in Token /\ fresh[m] \in Token /\ stored \in Token
    BY DEF TypeOK
<1>2. /\ cache[m].grant \in 0..MaxGrants /\ cache[m].gen \in 0..MaxGeneration
      /\ fresh[m].grant \in 0..MaxGrants /\ fresh[m].gen \in 0..MaxGeneration
      /\ stored.grant \in 0..MaxGrants
    BY <1>1 DEF Token
<1>3. \A g \in 1..connected : g \in Grants /\ g <= connected
    BY TokenAssumption DEF TypeOK, Grants
<1> QED
    BY <1>1, <1>2, <1>3 DEF GrantInv

\* Every variable has its type.
LEMMA TypeStep == TypeOK /\ GrantInv /\ [Next]_vars => TypeOK'
<1> SUFFICES ASSUME TypeOK, GrantInv, [Next]_vars PROVE TypeOK'
    OBVIOUS
<1> USE TokenAssumption, TokenFacts, StateFacts, StoredFacts
<1>1. ASSUME NEW m \in Managers, LoadToken(m) \/ EnterFlight(m) PROVE TypeOK'
    BY <1>1 DEF LoadToken, EnterFlight, TypeOK, Phase
<1>2. ASSUME NEW m \in Managers, TakeLock(m) \/ Adopt(m) \/ Contended(m) PROVE TypeOK'
    BY <1>2 DEF TakeLock, Adopt, Contended, TypeOK, Phase
<1>3. ASSUME NEW m \in Managers, PostAnswered(m) PROVE TypeOK'
    <2>1. PICK n \in {cache[m].gen, cache[m].gen + 1} :
             /\ n <= MaxGeneration
             /\ honoured' = [honoured EXCEPT ![cache[m].grant] = n]
             /\ fresh' = [fresh EXCEPT ![m] = [grant |-> cache[m].grant, gen |-> n, stamp |-> 0]]
        BY <1>3 DEF PostAnswered
    <2>2. n \in 0..MaxGeneration
        BY <2>1
    <2>3. [grant |-> cache[m].grant, gen |-> n, stamp |-> 0] \in Token
        BY <2>2 DEF Token
    <2> QED
        BY <1>3, <2>1, <2>2, <2>3 DEF PostAnswered, Sent, TypeOK, Phase
<1>4. ASSUME NEW m \in Managers, PostRefused(m) PROVE TypeOK'
    BY <1>4 DEF PostRefused, Sent, TypeOK, Phase
<1>5. ASSUME NEW m \in Managers, PostFails(m) PROVE TypeOK'
    BY <1>5 DEF PostFails, Fault, AnswerLost, Released, TypeOK, Phase
<1>6. ASSUME NEW m \in Managers, SaveToken(m) PROVE TypeOK'
    <2>1. Stamped(fresh[m], clock) \in Token
        BY StampedFacts DEF TypeOK
    <2> QED
        BY <1>6, <2>1 DEF SaveToken, TypeOK, Phase
<1>7. ASSUME NEW m \in Managers, Commit(m) PROVE TypeOK'
    BY <1>7 DEF Commit, Released, TypeOK, Phase
<1>8. ASSUME NEW m \in Managers, SaveFails(m) PROVE TypeOK'
    BY <1>8 DEF SaveFails, Fault, Released, TypeOK, Phase
<1>9. ASSUME NEW m \in Managers, CompareGrant(m) PROVE TypeOK'
    BY <1>9 DEF CompareGrant, Released, TypeOK, Phase
<1>10. ASSUME NEW m \in Managers, DeleteGrant(m) PROVE TypeOK'
    BY <1>10 DEF DeleteGrant, Released, TypeOK, Phase
<1>11. ASSUME NEW m \in Managers, Crash(m) PROVE TypeOK'
    <2>1. \/ phase[m] = "posting" /\ AnswerLost(m)
          \/ phase[m] \in {"saving", "committing"} /\ lost' = lost \cup {fresh[m].grant} /\ UNCHANGED honoured
          \/ UNCHANGED <<honoured, lost>>
        BY <1>11 DEF Crash
    <2>2. honoured' \in [Grants -> 0..MaxGeneration] /\ lost' \subseteq Grants
        BY <1>11, <2>1 DEF Crash, AnswerLost, TypeOK
    <2> QED
        BY <1>11, <2>2 DEF Crash, Fault, Released, TypeOK, Phase
<1>12. ASSUME NEW m \in Managers, ConnectionLost(m) PROVE TypeOK'
    BY <1>12 DEF ConnectionLost, Fault, TypeOK, Phase
<1>13. CASE Connect
    <2>1. connected + 1 \in Grants
        BY <1>13 DEF Connect, TypeOK, Grants
    <2>2. connected + 1 \in 0..MaxGrants /\ 1 \in 0..MaxGeneration
        BY <2>1 DEF Grants
    <2>3. stored' \in Token
        BY <1>13, <2>1 DEF Connect
    <2> QED
        BY <1>13, <2>1, <2>2, <2>3 DEF Connect, TypeOK
<1>14. CASE Disconnect
    BY <1>14 DEF Disconnect, TypeOK
<1>15. CASE Advance \/ UNCHANGED vars
    BY <1>15 DEF Advance, vars, TypeOK
<1> QED
    BY <1>1, <1>2, <1>3, <1>4, <1>5, <1>6, <1>7, <1>8, <1>9, <1>10, <1>11, <1>12, <1>13,
       <1>14, <1>15 DEF Next, FlightStep

-----------------------------------------------------------------------------
(* The lock, and the grants that anybody knows of.                          *)

LEMMA LockStep ==
    ASSUME TypeOK, LockInv, GrantInv, [Next]_vars
    PROVE  LockInv'
<1> USE StateFacts
<1>1. ASSUME NEW m \in Managers, LoadToken(m) \/ EnterFlight(m) PROVE LockInv'
    BY <1>1 DEF LoadToken, EnterFlight, TypeOK, LockInv, Holding
<1>2. ASSUME NEW m \in Managers, TakeLock(m) \/ Adopt(m) \/ Contended(m) PROVE LockInv'
    BY <1>2 DEF TakeLock, Adopt, Contended, TypeOK, LockInv, Holding
<1>3. ASSUME NEW m \in Managers, PostAnswered(m) \/ PostRefused(m) PROVE LockInv'
    BY <1>3 DEF PostAnswered, PostRefused, Sent, TypeOK, LockInv, Holding
<1>4. ASSUME NEW m \in Managers, PostFails(m) PROVE LockInv'
    BY <1>4 DEF PostFails, AnswerLost, Released, TypeOK, LockInv, Holding
<1>5. ASSUME NEW m \in Managers, SaveToken(m) PROVE LockInv'
    BY <1>5 DEF SaveToken, TypeOK, LockInv, Holding
<1>6. ASSUME NEW m \in Managers, Commit(m) \/ SaveFails(m) PROVE LockInv'
    BY <1>6 DEF Commit, SaveFails, Released, TypeOK, LockInv, Holding
<1>7. ASSUME NEW m \in Managers, CompareGrant(m) \/ DeleteGrant(m) PROVE LockInv'
    BY <1>7 DEF CompareGrant, DeleteGrant, Released, TypeOK, LockInv, Holding
<1>8. ASSUME NEW m \in Managers, Crash(m) PROVE LockInv'
    BY <1>8 DEF Crash, Released, TypeOK, LockInv, Holding
<1>9. ASSUME NEW m \in Managers, ConnectionLost(m) PROVE LockInv'
    BY <1>9 DEF ConnectionLost, TypeOK, LockInv, Holding
<1>10. CASE Connect \/ Disconnect \/ Advance \/ UNCHANGED vars
    BY <1>10 DEF Connect, Disconnect, Advance, vars, LockInv
<1> QED
    BY <1>1, <1>2, <1>3, <1>4, <1>5, <1>6, <1>7, <1>8, <1>9, <1>10 DEF Next, FlightStep

LEMMA GrantStep ==
    ASSUME TypeOK, LockInv, GrantInv, [Next]_vars
    PROVE  GrantInv'
<1> USE StateFacts, StoredFacts, TokenFacts, TokenAssumption
<1>1. ASSUME NEW m \in Managers, LoadToken(m) \/ EnterFlight(m) PROVE GrantInv'
    BY <1>1 DEF LoadToken, EnterFlight, TypeOK, GrantInv
<1>2. ASSUME NEW m \in Managers, TakeLock(m) \/ Adopt(m) \/ Contended(m) PROVE GrantInv'
    BY <1>2 DEF TakeLock, Adopt, Contended, TypeOK, GrantInv
<1>3. ASSUME NEW m \in Managers, PostAnswered(m) \/ PostRefused(m) PROVE GrantInv'
    BY <1>3 DEF PostAnswered, PostRefused, Sent, TypeOK, GrantInv
<1>4. ASSUME NEW m \in Managers, PostFails(m) PROVE GrantInv'
    BY <1>4 DEF PostFails, AnswerLost, Released, TypeOK, GrantInv
<1>5. ASSUME NEW m \in Managers, SaveToken(m) PROVE GrantInv'
    <2>1. Stamped(fresh[m], clock).grant = fresh[m].grant
        BY StampedFacts DEF TypeOK
    <2> QED
        BY <1>5, <2>1 DEF SaveToken, TypeOK, GrantInv
<1>6. ASSUME NEW m \in Managers, Commit(m) \/ SaveFails(m) PROVE GrantInv'
    BY <1>6 DEF Commit, SaveFails, Released, TypeOK, GrantInv
<1>7. ASSUME NEW m \in Managers, CompareGrant(m) \/ DeleteGrant(m) PROVE GrantInv'
    BY <1>7 DEF CompareGrant, DeleteGrant, Released, TypeOK, GrantInv
<1>8. ASSUME NEW m \in Managers, Crash(m) PROVE GrantInv'
    <2>1. \A g \in Grants : g \in lost' => g \in lost \/ g <= connected
        BY <1>8 DEF Crash, AnswerLost
    <2>2. /\ cache' = [cache EXCEPT ![m] = None] /\ Released(m)
          /\ UNCHANGED <<stored, connected, unguarded, dropped>>
        BY <1>8 DEF Crash
    <2>3. /\ phase'[m] = "idle" /\ cache'[m] = None
          /\ \A n \in Managers : n # m =>
                cache'[n] = cache[n] /\ phase'[n] = phase[n] /\ fresh'[n] = fresh[n]
        BY <2>2 DEF Released, TypeOK
    <2>4. \A g \in Grants : g > connected' => g \notin lost' \cup unguarded' \cup dropped'
        <3> SUFFICES ASSUME NEW g \in Grants, g > connected'
                     PROVE  g \notin lost' /\ g \notin unguarded' /\ g \notin dropped'
            OBVIOUS
        <3>1. g \notin lost /\ g \notin unguarded /\ g \notin dropped /\ ~(g <= connected)
            BY <2>2 DEF TypeOK, GrantInv, Grants
        <3> QED
            BY <2>1, <2>2, <3>1
    <2>5. stored' # None => stored'.grant \in 1..connected'
        BY <2>2 DEF GrantInv
    <2>6. ASSUME NEW n \in Managers
          PROVE  /\ cache'[n] # None => cache'[n].grant \in 1..connected'
                 /\ phase'[n] # "idle" => cache'[n] # None
                 /\ phase'[n] \in {"saving", "committing"} =>
                       fresh'[n].grant = cache'[n].grant /\ fresh'[n].grant \in 1..connected'
        <3>1. CASE n = m
            BY <2>3, <3>1
        <3>2. CASE n # m
            BY <2>2, <2>3, <3>2 DEF GrantInv
        <3> QED
            BY <3>1, <3>2
    <2> QED
        BY <2>4, <2>5, <2>6 DEF GrantInv
<1>9. ASSUME NEW m \in Managers, ConnectionLost(m) PROVE GrantInv'
    BY <1>9 DEF ConnectionLost, TypeOK, GrantInv
<1>10. CASE Connect
    <2>1. /\ connected' = connected + 1 /\ connected' \in Grants /\ connected \in Nat
          /\ stored'.grant = connected'
          /\ dropped' = dropped \cup {g \in Grants : g <= connected}
          /\ UNCHANGED <<cache, phase, fresh, lost, unguarded>>
        BY <1>10 DEF Connect, TypeOK, Grants
    <2>2. 1..connected \subseteq 1..connected' /\ connected' \in 1..connected'
        BY <2>1
    <2>3. \A g \in Grants : g > connected' => g \notin lost' \cup unguarded' \cup dropped'
        BY <2>1 DEF GrantInv, Grants
    <2> QED
        BY <2>1, <2>2, <2>3 DEF GrantInv
<1>11. CASE Disconnect
    BY <1>11 DEF Disconnect, TypeOK, GrantInv
<1>12. CASE Advance \/ UNCHANGED vars
    BY <1>12 DEF Advance, vars, GrantInv
<1> QED
    BY <1>1, <1>2, <1>3, <1>4, <1>5, <1>6, <1>7, <1>8, <1>9, <1>10, <1>11, <1>12
    DEF Next, FlightStep

LEMMA ReplacedStep ==
    ASSUME TypeOK, GrantInv, Replaced, [Next]_vars
    PROVE  Replaced' /\ lost \cup unguarded \cup dropped \subseteq lost' \cup unguarded' \cup dropped'
<1>1. CASE Connect
    BY <1>1, TokenAssumption DEF Connect, TypeOK, Replaced, Grants
<1>2. ASSUME UNCHANGED connected, dropped \subseteq dropped', lost \subseteq lost',
             unguarded \subseteq unguarded'
      PROVE  Replaced' /\ lost \cup unguarded \cup dropped \subseteq lost' \cup unguarded' \cup dropped'
    BY <1>2 DEF Replaced
<1>3. ASSUME NEW m \in Managers, Crash(m)
      PROVE  Replaced' /\ lost \cup unguarded \cup dropped \subseteq lost' \cup unguarded' \cup dropped'
    BY <1>2, <1>3 DEF Crash, AnswerLost
<1> QED
    BY <1>1, <1>2, <1>3
    DEF Next, FlightStep, LoadToken, EnterFlight, TakeLock, Adopt, Contended, PostAnswered,
        PostRefused, Sent, PostFails, AnswerLost, SaveToken, Commit, SaveFails, CompareGrant,
        DeleteGrant, ConnectionLost, Disconnect, Advance, vars

-----------------------------------------------------------------------------
(* The grant in order.                                                      *)

LEMMA OrderFacts ==
    ASSUME TypeOK, LockInv, GrantInv, OrderInv, InOrder
    PROVE  /\ connected \in Grants /\ connected # 0 /\ honoured[connected] \in 1..MaxGeneration
           /\ \A m \in Managers :
                 cache[m].grant = connected /\ phase[m] \in Holding \ {"posting"} => m \in holder
           /\ \A m \in Managers :
                 phase[m] \in {"saving", "committing"} => fresh[m].grant = cache[m].grant
           /\ holder = {} => ~InHand(connected)
           /\ \A h \in holder : cache[h].grant # connected => Uniform /\ ~InHand(connected)
<1>1. connected \in Grants /\ connected # 0
    BY DEF InOrder, TypeOK, Grants
<1>2. honoured[connected] \in 1..MaxGeneration
    BY <1>1, TokenAssumption DEF OrderInv, TypeOK
<1>3. \A m \in Managers :
         cache[m].grant = connected /\ phase[m] \in Holding \ {"posting"} => m \in holder
    BY DEF LockInv, InOrder
<1>4. \A m \in Managers : phase[m] \in {"saving", "committing"} => fresh[m].grant = cache[m].grant
    BY DEF GrantInv
<1>5. InHand(connected) => \E m \in holder : cache[m].grant = connected
    BY <1>3, <1>4 DEF InHand, Holding
<1>6. \A h \in holder : cache[h].grant # connected => Uniform /\ ~InHand(connected)
    BY <1>5 DEF OrderInv, LockInv, TypeOK
<1> QED
    BY <1>1, <1>2, <1>3, <1>4, <1>5, <1>6

\* OrderInv, conjunct by conjunct, after a step that makes no grant.
LEMMA OrderBy ==
    ASSUME UNCHANGED connected,
           InOrder' =>
              /\ honoured'[connected] # 0
              /\ stored'.grant = connected =>
                    stored'.gen = honoured'[connected] \/ InHand(connected)'
              /\ \A m \in Managers : cache'[m].grant = connected =>
                    /\ phase'[m] = "posting" /\ m \in holder' => cache'[m].gen = honoured'[connected]
                    /\ phase'[m] \in {"saving", "committing"} => fresh'[m].gen = honoured'[connected]
                    /\ phase'[m] \notin {"refused", "deleting"}
              /\ stored'.grant # connected => Uniform' \/ InHand(connected)'
              /\ \A h \in holder' : cache'[h].grant # connected => Uniform'
    PROVE  OrderInv'
BY DEF OrderInv, InHand

\* A step of m that leaves the row and the provider's view of the grant in order
\* alone, ends with m at work on nothing of it, and gives m no cache of it.
LEMMA OrderQuiet ==
    ASSUME TypeOK, LockInv, GrantInv, OrderInv, InOrder, NEW m \in Managers,
           UNCHANGED <<stored, connected>>, honoured'[connected] = honoured[connected],
           holder' \subseteq holder,
           cache'[m] = cache[m] \/ (cache'[m] = None /\ m \notin holder'),
           cache'[m].grant = connected =>
              phase'[m] \in {"idle", "waiting"} \/ (phase'[m] = "posting" /\ m \notin holder'),
           phase[m] \in {"saving", "committing"} => fresh[m].grant # connected,
           \A n \in Managers : n # m =>
              cache'[n] = cache[n] /\ phase'[n] = phase[n] /\ fresh'[n] = fresh[n]
    PROVE  OrderInv'
<1>1. InHand(connected) => InHand(connected)'
    BY DEF InHand
<1>2. Uniform => Uniform'
    <2>1. cache'[m].grant = connected => cache'[m] = cache[m]
        BY TokenFacts, OrderFacts
    <2> QED
        BY <2>1 DEF Uniform
<1>3. \A h \in holder' : cache'[h].grant # connected => Uniform'
    <2> SUFFICES ASSUME NEW h \in holder', cache'[h].grant # connected PROVE Uniform'
        OBVIOUS
    <2>1. h \in Managers /\ h \in holder
        BY DEF TypeOK
    <2>2. CASE cache[h].grant # connected
        BY <1>2, <2>1, <2>2, OrderFacts
    <2>3. CASE cache[h].grant = connected
        BY <2>1, <2>3
    <2> QED
        BY <2>2, <2>3
<1> QED
    BY <1>1, <1>2, <1>3, OrderBy DEF OrderInv

\* The transaction of m ends.
LEMMA ReleasedEffect ==
    ASSUME TypeOK, NEW m \in Managers, Released(m)
    PROVE  /\ m \notin holder' /\ holder' \subseteq holder /\ phase'[m] = "idle"
           /\ \A n \in Managers : n # m => phase'[n] = phase[n] /\ fresh'[n] = fresh[n]
BY DEF Released, TypeOK

LEMMA OrderStep ==
    ASSUME TypeOK, LockInv, GrantInv, Replaced, OrderInv, [Next]_vars
    PROVE  OrderInv'
<1>0. SUFFICES ASSUME InOrder' PROVE OrderInv'
    BY DEF OrderInv
<1>1. UNCHANGED connected => InOrder
    BY <1>0, ReplacedStep DEF InOrder
<1>2. ASSUME NEW m \in Managers, LoadToken(m) PROVE OrderInv'
    <2>1. /\ UNCHANGED <<stored, honoured, connected, phase, fresh, holder>>
          /\ phase[m] = "idle" /\ cache' = [cache EXCEPT ![m] = stored]
        BY <1>2 DEF LoadToken
    <2>2. InOrder /\ InHand(connected)' = InHand(connected)
        BY <1>1, <2>1 DEF InHand
    <2>3. cache'[m] = stored /\ \A n \in Managers : n # m => cache'[n] = cache[n]
        BY <2>1 DEF TypeOK
    <2>4. ASSUME Uniform, ~InHand(connected) PROVE Uniform'
        BY <2>1, <2>2, <2>3, <2>4 DEF Uniform, OrderInv
    <2>5. ASSUME Uniform, stored.grant # connected PROVE Uniform'
        BY <2>1, <2>3, <2>5 DEF Uniform
    <2>6. \A h \in holder' : h \in Managers /\ h # m /\ cache'[h] = cache[h]
        BY <2>1, <2>3 DEF LockInv, TypeOK, Holding
    <2>7. \A h \in holder' : cache'[h].grant # connected => Uniform'
        BY <2>1, <2>2, <2>4, <2>6, OrderFacts
    <2>8. stored'.grant # connected => Uniform' \/ InHand(connected)'
        BY <2>1, <2>2, <2>5 DEF OrderInv
    <2> QED
        BY <2>1, <2>2, <2>3, <2>7, <2>8, OrderBy DEF OrderInv
<1>3. ASSUME NEW m \in Managers, EnterFlight(m) \/ Contended(m) PROVE OrderInv'
    <2>1. /\ UNCHANGED <<stored, honoured, connected, cache, fresh, holder>>
          /\ phase[m] \in {"idle", "waiting"} /\ phase'[m] \in {"idle", "waiting"}
          /\ \A n \in Managers : n # m => phase'[n] = phase[n]
        BY <1>3 DEF EnterFlight, Contended, TypeOK
    <2> QED
        BY <1>1, <2>1, OrderQuiet
<1>4. ASSUME NEW m \in Managers, TakeLock(m) PROVE OrderInv'
    <2>1. /\ UNCHANGED <<stored, honoured, connected, cache, fresh>>
          /\ phase[m] = "waiting" /\ phase'[m] = "posting" /\ holder = {} /\ holder' = {m}
          /\ \A n \in Managers : n # m => phase'[n] = phase[n]
          /\ stored = None \/ SameRefreshToken(stored, cache[m])
        BY <1>4 DEF TakeLock, TypeOK, FlightAlreadyCompleted
    <2>2. InOrder /\ ~InHand(connected) /\ Uniform' = Uniform
        BY <1>1, <2>1, OrderFacts DEF Uniform
    <2>3. cache[m].grant = connected => cache[m].gen = honoured[connected]
        <3>1. CASE stored = None
            BY <2>2, <3>1, TokenFacts, OrderFacts DEF OrderInv, Uniform
        <3>2. CASE SameRefreshToken(stored, cache[m])
            BY <2>2, <3>2 DEF OrderInv, SameRefreshToken
        <3> QED
            BY <2>1, <3>1, <3>2
    <2>4. cache[m].grant # connected => Uniform
        BY <2>1, <2>2, TokenFacts, OrderFacts DEF OrderInv, SameRefreshToken
    <2>5. \A h \in holder' : cache'[h].grant # connected => Uniform'
        BY <2>1, <2>2, <2>4
    <2>6. InHand(connected)' = InHand(connected)
        BY <2>1 DEF InHand
    <2> QED
        BY <2>1, <2>2, <2>3, <2>5, <2>6, OrderBy DEF OrderInv
<1>5. ASSUME NEW m \in Managers, Adopt(m) PROVE OrderInv'
    <2>1. /\ UNCHANGED <<stored, honoured, connected, fresh, holder>> /\ holder = {}
          /\ phase[m] = "waiting" /\ phase'[m] = "idle" /\ cache'[m] = stored
          /\ \A n \in Managers : n # m => phase'[n] = phase[n] /\ cache'[n] = cache[n]
        BY <1>5 DEF Adopt, TypeOK
    <2>2. InOrder /\ ~InHand(connected)
        BY <1>1, <2>1, OrderFacts
    <2>3. stored.grant # connected => Uniform'
        BY <2>1, <2>2 DEF OrderInv, Uniform
    <2> QED
        BY <2>1, <2>2, <2>3, OrderBy DEF OrderInv
<1>6. ASSUME NEW m \in Managers, PostAnswered(m) PROVE OrderInv'
    <2>1. PICK n \in {cache[m].gen, cache[m].gen + 1} :
             /\ n <= MaxGeneration
             /\ honoured' = [honoured EXCEPT ![cache[m].grant] = n]
             /\ fresh' = [fresh EXCEPT ![m] = [grant |-> cache[m].grant, gen |-> n, stamp |-> 0]]
        BY <1>6 DEF PostAnswered
    <2>2. /\ UNCHANGED <<stored, connected, cache, holder>>
          /\ phase[m] = "posting" /\ phase'[m] = "saving" /\ Honoured(m)
          /\ \A k \in Managers : k # m => phase'[k] = phase[k] /\ fresh'[k] = fresh[k]
          /\ fresh'[m].grant = cache[m].grant /\ fresh'[m].gen = n
        BY <1>6, <2>1 DEF PostAnswered, TypeOK
    <2>3. InOrder
        BY <1>1, <2>2
    <2>4. CASE cache[m].grant = connected
        <3>0. m \in holder
            BY <1>0, <1>6, <2>4, <2>2 DEF PostAnswered, Sent, InOrder
        <3>1. honoured'[connected] = n /\ n # 0
            BY <2>1, <2>2, <2>3, <2>4, StateFacts, OrderFacts, TokenAssumption DEF Honoured, TypeOK
        <3>2. m \in holder /\ \A h \in holder' : h = m
            BY <2>2, <3>0 DEF LockInv, TypeOK
        <3>3. InHand(connected)'
            BY <2>2, <2>4 DEF InHand
        <3>4. \A k \in Managers : k # m /\ cache[k].grant = connected =>
                 k \notin holder' /\ phase[k] \notin Holding \ {"posting"}
            BY <2>2, <2>3, <3>2, OrderFacts
        <3> QED
            BY <2>2, <2>4, <3>1, <3>2, <3>3, <3>4, OrderBy DEF Holding
    <2>5. CASE cache[m].grant # connected
        <3>1. honoured'[connected] = honoured[connected]
            BY <2>1, <2>3, <2>5, OrderFacts DEF TypeOK
        <3> QED
            BY <2>2, <2>3, <2>5, <3>1, OrderQuiet
    <2> QED
        BY <2>4, <2>5
<1>7. ASSUME NEW m \in Managers, PostRefused(m) PROVE OrderInv'
    <2>1. /\ UNCHANGED <<stored, connected, cache, fresh, holder>> /\ ~Honoured(m)
          /\ phase[m] = "posting" /\ honoured' = [honoured EXCEPT ![cache[m].grant] = 0]
          /\ \A n \in Managers : n # m => phase'[n] = phase[n]
        BY <1>7 DEF PostRefused, TypeOK
    <2>2. InOrder /\ cache[m].grant # connected
        BY <1>0, <1>1, <1>7, <2>1 DEF OrderInv, Honoured, PostRefused, Sent, InOrder
    <2>3. honoured'[connected] = honoured[connected]
        BY <2>1, <2>2, OrderFacts DEF TypeOK
    <2> QED
        BY <2>1, <2>2, <2>3, OrderQuiet
<1>8. ASSUME NEW m \in Managers, PostFails(m) PROVE OrderInv'
    <2>1. /\ UNCHANGED <<stored, connected, cache>> /\ phase[m] = "posting"
          /\ Released(m) /\ AnswerLost(m)
        BY <1>8 DEF PostFails
    <2>2. InOrder
        BY <1>1, <2>1
    <2>3. honoured'[connected] = honoured[connected]
        BY <1>0, <2>1, <2>2, OrderFacts DEF AnswerLost, InOrder, TypeOK
    <2> QED
        BY <2>1, <2>2, <2>3, ReleasedEffect, OrderQuiet
<1>9. ASSUME NEW m \in Managers, SaveToken(m) PROVE OrderInv'
    <2>1. /\ UNCHANGED <<stored, honoured, connected, cache, holder>>
          /\ phase[m] = "saving" /\ phase'[m] = "committing"
          /\ \A n \in Managers : n # m => phase'[n] = phase[n] /\ fresh'[n] = fresh[n]
          /\ fresh'[m] = Stamped(fresh[m], clock)
        BY <1>9 DEF SaveToken, TypeOK
    <2>2. fresh'[m].grant = fresh[m].grant /\ fresh'[m].gen = fresh[m].gen
        BY <2>1, StampedFacts DEF TypeOK
    <2>3. InOrder /\ InHand(connected)' = InHand(connected) /\ Uniform' = Uniform
        BY <1>1, <2>1, <2>2 DEF InHand, Uniform
    <2> QED
        BY <2>1, <2>2, <2>3, OrderBy DEF OrderInv
<1>10. ASSUME NEW m \in Managers, Commit(m) PROVE OrderInv'
    <2>1. /\ UNCHANGED <<honoured, connected>> /\ phase[m] = "committing" /\ Released(m)
          /\ stored' = fresh[m] /\ cache' = [cache EXCEPT ![m] = fresh[m]]
        BY <1>10 DEF Commit
    <2>2. InOrder /\ m \in holder /\ holder' = {} /\ fresh[m].grant = cache[m].grant
        BY <1>1, <2>1, OrderFacts DEF LockInv, Released, TypeOK
    <2>3. cache'[m] = fresh[m] /\ \A n \in Managers : n # m => cache'[n] = cache[n]
        BY <2>1 DEF TypeOK
    <2>4. fresh[m].grant = connected => fresh[m].gen = honoured[connected]
        BY <2>1, <2>2 DEF OrderInv
    <2>5. fresh[m].grant # connected => Uniform'
        BY <2>1, <2>2, <2>3, OrderFacts DEF Uniform
    <2> QED
        BY <2>1, <2>2, <2>3, <2>4, <2>5, ReleasedEffect, OrderBy DEF OrderInv
<1>11. ASSUME NEW m \in Managers, SaveFails(m) PROVE OrderInv'
    <2>1. /\ UNCHANGED <<stored, honoured, connected, cache>> /\ Released(m)
          /\ lost' = lost \cup {fresh[m].grant}
        BY <1>11 DEF SaveFails
    <2>2. InOrder /\ fresh[m].grant # connected
        BY <1>0, <1>1, <2>1 DEF InOrder
    <2> QED
        BY <2>1, <2>2, ReleasedEffect, OrderQuiet
<1>12. ASSUME NEW m \in Managers, CompareGrant(m) PROVE OrderInv'
    <2>1. InOrder /\ phase[m] = "refused" /\ cache[m].grant # connected
        BY <1>1, <1>12 DEF CompareGrant, OrderInv
    <2>2. UNCHANGED <<stored, honoured, connected>>
        BY <1>12 DEF CompareGrant
    <2>3. CASE SameRefreshToken(stored, cache[m])
        BY <1>12, <2>1, <2>2, <2>3, OrderQuiet DEF CompareGrant, TypeOK
    <2>4. CASE ~SameRefreshToken(stored, cache[m])
        <3>1. Released(m) /\ cache' = [cache EXCEPT ![m] = None]
            BY <1>12, <2>4 DEF CompareGrant
        <3>2. cache'[m] = None /\ \A n \in Managers : n # m => cache'[n] = cache[n]
            BY <3>1 DEF TypeOK
        <3> QED
            BY <2>1, <2>2, <3>1, <3>2, ReleasedEffect, OrderQuiet
    <2> QED
        BY <2>3, <2>4
<1>13. ASSUME NEW m \in Managers, DeleteGrant(m) PROVE OrderInv'
    <2>1. /\ UNCHANGED <<honoured, connected>> /\ phase[m] = "deleting" /\ Released(m)
          /\ stored' = None /\ cache' = [cache EXCEPT ![m] = None]
          /\ unguarded' = IF m \in holder \/ stored = None THEN unguarded
                          ELSE unguarded \cup {stored.grant}
        BY <1>13 DEF DeleteGrant
    <2>2. InOrder /\ cache[m].grant # connected
        BY <1>1, <2>1 DEF OrderInv
    <2>3. cache'[m] = None /\ \A n \in Managers : n # m => cache'[n] = cache[n]
        BY <2>1 DEF TypeOK
    <2>4. InHand(connected) => InHand(connected)'
        BY <2>1, ReleasedEffect DEF InHand
    <2>5. Uniform => Uniform'
        BY <2>1, <2>2, <2>3, TokenFacts, OrderFacts DEF Uniform
    <2>6. stored.grant # connected \/ m \in holder
        BY <1>0, <2>1, <2>2, TokenFacts, OrderFacts DEF InOrder
    <2>7. Uniform' \/ InHand(connected)'
        BY <2>2, <2>4, <2>5, <2>6, OrderFacts DEF OrderInv
    <2>8. \A h \in holder' : cache'[h].grant # connected => Uniform'
        BY <2>1, <2>2, <2>3, <2>5, ReleasedEffect, OrderFacts DEF TypeOK
    <2>9. stored'.grant # connected
        BY <2>1, <2>2, TokenFacts, OrderFacts
    <2> QED
        BY <2>1, <2>2, <2>3, <2>7, <2>8, <2>9, TokenFacts, OrderFacts, ReleasedEffect, OrderBy
        DEF OrderInv
<1>14. ASSUME NEW m \in Managers, Crash(m) PROVE OrderInv'
    <2>1. /\ UNCHANGED <<stored, connected>> /\ Released(m)
          /\ cache' = [cache EXCEPT ![m] = None]
          /\ \/ phase[m] = "posting" /\ AnswerLost(m)
             \/ /\ phase[m] \in {"saving", "committing"}
                /\ lost' = lost \cup {fresh[m].grant} /\ UNCHANGED honoured
             \/ phase[m] \notin {"saving", "committing"} /\ UNCHANGED honoured
        BY <1>14 DEF Crash
    <2>2. InOrder
        BY <1>1, <2>1
    <2>3. honoured'[connected] = honoured[connected]
        BY <1>0, <2>1, <2>2, OrderFacts DEF AnswerLost, InOrder, TypeOK
    <2>4. phase[m] \in {"saving", "committing"} => fresh[m].grant # connected
        BY <1>0, <2>1 DEF InOrder
    <2>5. cache'[m] = None /\ \A n \in Managers : n # m => cache'[n] = cache[n]
        BY <2>1 DEF TypeOK
    <2> QED
        BY <2>1, <2>2, <2>3, <2>4, <2>5, ReleasedEffect, OrderQuiet
<1>15. ASSUME NEW m \in Managers, ConnectionLost(m) PROVE OrderInv'
    <2>1. /\ UNCHANGED <<stored, honoured, connected, cache, phase, fresh>>
          /\ holder' \subseteq holder /\ m \notin holder' /\ phase[m] = "posting"
        BY <1>15 DEF ConnectionLost
    <2> QED
        BY <1>1, <2>1, OrderQuiet
<1>16. CASE Connect
    <2>1. /\ connected' = connected + 1 /\ UNCHANGED <<cache, phase, fresh, holder>>
          /\ stored' = Granted(connected + 1)
          /\ honoured' = [honoured EXCEPT ![connected + 1] = 1]
        BY <1>16 DEF Connect
    <2>2. connected' \in Grants /\ connected \in Nat
        BY <1>16, <2>1, TokenAssumption DEF Connect, TypeOK, Grants
    <2>3. \A m \in Managers : cache'[m].grant # connected'
        BY <2>1, <2>2, StateFacts, TokenFacts DEF Grants, TypeOK
    <2>4. honoured'[connected'] = 1 /\ stored'.grant = connected' /\ stored'.gen = 1
        BY <2>1, <2>2, TokenFacts DEF TypeOK
    <2> QED
        BY <2>3, <2>4 DEF OrderInv, Uniform
<1>17. CASE Disconnect
    <2>1. /\ UNCHANGED <<honoured, connected, cache, phase, fresh, holder>>
          /\ stored' = None /\ dropped' = dropped \cup {stored.grant}
        BY <1>17 DEF Disconnect
    <2>2. InOrder /\ stored.grant # connected /\ stored'.grant # connected
        BY <1>0, <1>1, <2>1, TokenFacts, OrderFacts DEF InOrder
    <2>3. InHand(connected)' = InHand(connected) /\ Uniform' = Uniform
        BY <2>1 DEF InHand, Uniform
    <2> QED
        BY <2>1, <2>2, <2>3, OrderBy DEF OrderInv
<1>18. CASE Advance \/ UNCHANGED vars
    <2>1. UNCHANGED <<stored, honoured, connected, cache, phase, fresh, holder>>
        BY <1>18 DEF Advance, vars
    <2>2. InOrder /\ InHand(connected)' = InHand(connected) /\ Uniform' = Uniform
        BY <1>1, <2>1 DEF InHand, Uniform
    <2> QED
        BY <2>1, <2>2, OrderBy DEF OrderInv
<1> QED
    BY <1>2, <1>3, <1>4, <1>5, <1>6, <1>7, <1>8, <1>9, <1>10, <1>11, <1>12, <1>13, <1>14,
       <1>15, <1>16, <1>17, <1>18 DEF Next, FlightStep

-----------------------------------------------------------------------------
(* The theorems.                                                            *)

LEMMA ReplayStep ==
    ASSUME TypeOK, GrantInv, Replaced, OrderInv, NoReplay, [Next]_vars
    PROVE  NoReplay'
<1>1. lost \cup unguarded \cup dropped \subseteq lost' \cup unguarded' \cup dropped'
    BY ReplacedStep
<1>2. ASSUME NEW m \in Managers, PostRefused(m) PROVE NoReplay'
    <2>1. cache[m].grant \in Grants /\ cache[m].grant <= connected
        BY <1>2, StateFacts DEF PostRefused
    <2>2. cache[m].grant \in lost' \cup unguarded' \cup dropped'
        <3> SUFFICES ASSUME cache[m].grant \notin lost' \cup unguarded' \cup dropped' PROVE FALSE
            OBVIOUS
        <3>0. m \in holder /\ cache[m].grant \notin lost \cup unguarded \cup dropped
            BY <1>1, <1>2 DEF PostRefused, Sent
        <3>1. cache[m].grant = connected
            BY <2>1, <3>0 DEF Replaced, TypeOK, Grants
        <3>2. InOrder
            BY <2>1, <3>0, <3>1 DEF InOrder, Grants
        <3> QED
            BY <1>2, <3>0, <3>1, <3>2 DEF OrderInv, PostRefused, Honoured
    <2> QED
        BY <1>1, <1>2, <2>2 DEF PostRefused, NoReplay
<1>3. ASSUME UNCHANGED replayed PROVE NoReplay'
    BY <1>1, <1>3 DEF NoReplay
<1> QED
    BY <1>2, <1>3
    DEF Next, FlightStep, LoadToken, EnterFlight, TakeLock, Adopt, Contended, PostAnswered,
        PostFails, SaveToken, Commit, SaveFails, CompareGrant, DeleteGrant, Crash,
        ConnectionLost, Connect, Disconnect, Advance, vars

LEMMA RefreshInit == Init => RefreshInv
<1> SUFFICES ASSUME Init PROVE RefreshInv
    OBVIOUS
<1>1. TypeOK
    BY TokenAssumption, TokenFacts DEF Init, TypeOK, Phase
<1>2. LockInv /\ GrantInv /\ Replaced /\ OrderInv /\ NoReplay
    BY TokenAssumption
    DEF Init, LockInv, Holding, GrantInv, Replaced, OrderInv, InOrder, NoReplay, Grants
<1> QED
    BY <1>1, <1>2 DEF RefreshInv

LEMMA AlwaysRefreshInv == Spec => []RefreshInv
<1>1. RefreshInv /\ [Next]_vars => RefreshInv'
    BY TypeStep, LockStep, GrantStep, ReplacedStep, OrderStep, ReplayStep DEF RefreshInv
<1> QED
    BY <1>1, RefreshInit, PTL DEF Spec

\* Every variable has its type: no flight invents a grant or a generation.
THEOREM RefreshTypeCorrect == Spec => []TypeOK
<1>1. RefreshInv => TypeOK
    BY DEF RefreshInv
<1> QED
    BY <1>1, AlwaysRefreshInv, PTL

\* However many managers refresh one user's token, no used refresh token is
\* presented, unless a rotation of its grant did not reach the row, a manager
\* that had lost its connection sent or deleted it, or the user had replaced or
\* disconnected it.
THEOREM ReplayNever == Spec => []NoReplay
<1>1. RefreshInv => NoReplay
    BY DEF RefreshInv
<1> QED
    BY <1>1, AlwaysRefreshInv, PTL

\* The row holds the generation that the provider honours, or a flight is about
\* to write it, with the same three exceptions.
THEOREM StoredAlwaysLive == Spec => []StoredIsLive
<1>1. RefreshInv => StoredIsLive
    <2> SUFFICES ASSUME RefreshInv, stored # None, stored.grant \notin lost \cup unguarded \cup dropped
                 PROVE  honoured[stored.grant] = stored.gen \/ InHand(stored.grant)
        BY DEF StoredIsLive
    <2>1. stored.grant \in Grants /\ stored.grant <= connected
        BY StoredFacts DEF RefreshInv
    <2>2. stored.grant = connected
        BY <2>1 DEF RefreshInv, Replaced, TypeOK, Grants
    <2>3. InOrder
        BY <2>1, <2>2 DEF InOrder, Grants
    <2> QED
        BY <2>2, <2>3 DEF RefreshInv, OrderInv
<1> QED
    BY <1>1, AlwaysRefreshInv, PTL
=============================================================================
