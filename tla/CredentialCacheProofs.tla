------------------------ MODULE CredentialCacheProofs ------------------------
(* Proofs about CredentialCache, for any callers, keys, TTLs, lifetimes and  *)
(* margin.                                                                   *)
EXTENDS CredentialCache, TLAPS

(* The credential a flight holds is one, and a sweeper has a number.        *)
Holding ==
  /\ \A c \in Callers : pc[c] \in {"fetched", "store", "endHit", "endOk"}
                          => cred[c] \in Credential
  /\ setter.pc # "idle" => setCalls # 0

(* A call in progress has no result yet.                                    *)
NoResultYet == \A c \in Callers : pc[c] # "idle" => result[c] = "none"

(* From its second look on, a leader's key has no entry to serve.           *)
DueSinceSecondLook ==
  \A c \in Callers : pc[c] \in {"innerEvict", "fetch", "fetched"}
    => ~ Serves(entries[key[c]], t[c])

IInv ==
  /\ TypeOK
  /\ Holding
  /\ NoResultYet
  /\ DisabledHoldsNoStatic
  /\ RefreshWithinBounds
  /\ SingleFlight
  /\ DueSinceSecondLook

USE MarginAssumption, TTLAssumption, LifetimeAssumption, SentinelAssumption,
    BoundAssumption

(* The refresh time computed for a credential respects the margin and the   *)
(* TTL.                                                                     *)
LEMMA RefreshAtBounds ==
  ASSUME NEW n \in Int, NEW d \in Nat, NEW x \in Expiry
  PROVE  /\ ComputeRefreshAt(n, d, x) \in Int
         /\ x # NoExpiry => ComputeRefreshAt(n, d, x) + Margin <= x
         /\ d # 0 => ComputeRefreshAt(n, d, x) <= n + d
BY DEF ComputeRefreshAt, Expiry

(* Sweeping only removes entries.                                           *)
LEMMA SweepOnlyRemoves ==
  ASSUME NEW es \in [Keys -> Entry \union {NoEntry}], NEW n
  PROVE  /\ SweepExpired(es, n) \in [Keys -> Entry \union {NoEntry}]
         /\ \A k \in Keys : SweepExpired(es, n)[k] \in {es[k], NoEntry}
BY DEF SweepExpired

LEMMA InitIInv == Init => IInv
BY DEF Init, IInv, TypeOK, Holding, NoResultYet, DisabledHoldsNoStatic,
       RefreshWithinBounds, SingleFlight, DueSinceSecondLook, Time, PCs,
       InFlight, Results, Sweepers

(* Type correctness is preserved by every action.                           *)
LEMMA TypeStep == IInv /\ [Next]_vars => TypeOK'
<1> SUFFICES ASSUME TypeOK, Holding, [Next]_vars PROVE TypeOK'
  BY DEF IInv
<1> USE DEF TypeOK, Time, Sweepers, Goto, Return, PCs, Results
<1>1. ASSUME Tick PROVE TypeOK'
  BY <1>1 DEF Tick, cacheVars, sweepVars, callVars
<1>2. ASSUME NEW c \in Callers, NEW k \in Keys, Call(c, k) PROVE TypeOK'
  BY <1>2 DEF Call, cacheVars, sweepVars
<1>3. ASSUME NEW c \in Callers, Get(c) PROVE TypeOK'
  BY <1>3 DEF Get, cacheVars, sweepVars
<1>4. ASSUME NEW c \in Callers, Evict(c) PROVE TypeOK'
  BY <1>4 DEF Evict, sweepVars
<1>5. ASSUME NEW c \in Callers, StaleEntry(c) PROVE TypeOK'
  BY <1>5 DEF StaleEntry, cacheVars, sweepVars
<1>6. ASSUME NEW c \in Callers, Do(c) PROVE TypeOK'
  BY <1>6 DEF Do, cacheVars, sweepVars
<1>7. ASSUME NEW c \in Callers, InnerGet(c) PROVE TypeOK'
  <2>1. cred' \in [Callers -> Credential \union {NoCred}]
    BY <1>7 DEF InnerGet, Serves, Entry, Credential, Expiry
  <2> QED
    BY <1>7, <2>1 DEF InnerGet, cacheVars, sweepVars
<1>8. ASSUME NEW c \in Callers, Fetch(c) PROVE TypeOK'
  <2>1. ASSUME NEW l \in Lifetimes, NEW v \in {"empty", "secret"}, FetchOk(c, l, v)
        PROVE  TypeOK'
    BY <2>1 DEF FetchOk, Credential, Expiry, cacheVars, sweepVars
  <2>2. CASE FetchErr(c)
    BY <2>2 DEF FetchErr, cacheVars, sweepVars
  <2> HIDE DEF TypeOK
  <2> QED
    BY <1>8, <2>1, <2>2 DEF Fetch
<1>9. ASSUME NEW c \in Callers, StampStore(c) PROVE TypeOK'
  BY <1>9 DEF StampStore, cacheVars, sweepVars
<1>10. ASSUME NEW c \in Callers, SetCredential(c) PROVE TypeOK'
  <2>1. entries' \in [Keys -> Entry \union {NoEntry}]
    <3>1. cred[c] \in Credential /\ t[c] \in Int /\ ttl \in Nat
      BY <1>10 DEF SetCredential, Holding
    <3>2. ComputeRefreshAt(t[c], ttl, cred[c].expires) \in Int
      BY <3>1, RefreshAtBounds DEF Credential
    <3> QED
      BY <1>10, <3>1, <3>2, SweepOnlyRemoves DEF SetCredential, Entry, Credential
  <2> QED
    BY <1>10, <2>1 DEF SetCredential, sweepVars
<1>11. ASSUME NEW c \in Callers, DoReturns(c) PROVE TypeOK'
  BY <1>11 DEF DoReturns, EndFlight, cacheVars, sweepVars
<1>12. ASSUME NEW c \in Callers, Resolve(c) PROVE TypeOK'
  BY <1>12 DEF Resolve, cacheVars, sweepVars
<1>13. ASSUME NEW d \in TTLs, SetTTL(d) PROVE TypeOK'
  BY <1>13 DEF SetTTL, TTLChanged, TTLDisabled, TTLKept, DropStatic, callVars
<1>14. ASSUME SetterStep PROVE TypeOK'
  BY <1>14 DEF SetterStep, StopSweeper, AwaitSweeper, StartSweeper, Holding,
     cacheVars, callVars
<1>15. ASSUME NEW s \in Sweepers, SweeperTick(s) PROVE TypeOK'
  BY <1>15, SweepOnlyRemoves DEF SweeperTick, sweepVars, callVars
<1>16. ASSUME NEW s \in Sweepers, SweeperExit(s) PROVE TypeOK'
  BY <1>16 DEF SweeperExit, cacheVars, callVars
<1>17. CASE UNCHANGED vars
  BY <1>17 DEF vars, cacheVars, sweepVars, callVars
<1> QED
  BY <1>1, <1>2, <1>3, <1>4, <1>5, <1>6, <1>7, <1>8, <1>9, <1>10, <1>11, <1>12,
     <1>13, <1>14, <1>15, <1>16, <1>17 DEF Next, CallerStep

(* Which call is where: the leader of a flight, the credential it holds and *)
(* the result it has not returned yet.                                      *)
LEMMA CallStep == IInv /\ [Next]_vars => Holding' /\ NoResultYet' /\ SingleFlight'
<1> DEFINE Goal == Holding' /\ NoResultYet' /\ SingleFlight'
<1> SUFFICES ASSUME IInv, TypeOK', [Next]_vars PROVE Goal
  BY TypeStep
<1> USE DEF IInv, TypeOK, Holding, NoResultYet, SingleFlight, InFlight, Goto,
            Return, PCs
<1>1. ASSUME NEW c \in Callers, NEW k \in Keys, Call(c, k) PROVE Goal
  BY <1>1 DEF Call, cacheVars, sweepVars
<1>2. ASSUME NEW c \in Callers, Get(c) PROVE Goal
  BY <1>2 DEF Get, cacheVars, sweepVars
<1>3. ASSUME NEW c \in Callers, Evict(c) PROVE Goal
  BY <1>3 DEF Evict, sweepVars
<1>4. ASSUME NEW c \in Callers, StaleEntry(c) PROVE Goal
  BY <1>4 DEF StaleEntry, cacheVars, sweepVars
<1>5. ASSUME NEW c \in Callers, Do(c) PROVE Goal
  BY <1>5 DEF Do, cacheVars, sweepVars
<1>6. ASSUME NEW c \in Callers, InnerGet(c) PROVE Goal
  <2>1. Serves(entries[key[c]], t[c]) => entries[key[c]].hardExpiresAt \in Expiry
    BY DEF Serves, Entry
  <2> QED
    BY <1>6, <2>1 DEF InnerGet, Credential, cacheVars, sweepVars
<1>7. ASSUME NEW c \in Callers, Fetch(c) PROVE Goal
  <2>1. ASSUME NEW l \in Lifetimes, NEW v \in {"empty", "secret"}, FetchOk(c, l, v)
        PROVE  Goal
    BY <2>1 DEF FetchOk, Credential, Expiry, Time, cacheVars, sweepVars
  <2>2. CASE FetchErr(c)
    BY <2>2 DEF FetchErr, cacheVars, sweepVars
  <2> HIDE DEF Goal
  <2> QED
    BY <1>7, <2>1, <2>2 DEF Fetch
<1>8. ASSUME NEW c \in Callers, StampStore(c) PROVE Goal
  BY <1>8 DEF StampStore, cacheVars, sweepVars
<1>9. ASSUME NEW c \in Callers, SetCredential(c) PROVE Goal
  BY <1>9 DEF SetCredential, sweepVars
<1>10. ASSUME NEW c \in Callers, DoReturns(c) PROVE Goal
  <2>1. leader[key[c]] = c
    BY <1>10 DEF DoReturns
  <2> QED
    BY <1>10, <2>1 DEF DoReturns, EndFlight, cacheVars, sweepVars
<1>11. ASSUME NEW c \in Callers, Resolve(c) PROVE Goal
  BY <1>11 DEF Resolve, cacheVars, sweepVars
<1>12. ASSUME NEW d \in TTLs, SetTTL(d) PROVE Goal
  BY <1>12 DEF SetTTL, TTLChanged, TTLDisabled, TTLKept, callVars
<1>13. ASSUME SetterStep PROVE Goal
  BY <1>13 DEF SetterStep, StopSweeper, AwaitSweeper, StartSweeper, callVars
<1>14. ASSUME NEW s \in Sweepers, SweeperTick(s) \/ SweeperExit(s) PROVE Goal
  BY <1>14 DEF SweeperTick, SweeperExit, sweepVars, callVars
<1>15. CASE Tick \/ UNCHANGED vars
  BY <1>15 DEF Tick, vars, cacheVars, sweepVars, callVars
<1> HIDE DEF Goal
<1> QED
  BY <1>1, <1>2, <1>3, <1>4, <1>5, <1>6, <1>7, <1>8, <1>9, <1>10, <1>11, <1>12,
     <1>13, <1>14, <1>15 DEF Next, CallerStep

(* The entries alone: every step leaves them, removes some, or is a store   *)
(* or a change of the TTL.                                                  *)
OnlyRemoves == /\ UNCHANGED ttl
               /\ \A k \in Keys : entries'[k] \in {entries[k], NoEntry}

LEMMA EntrySteps ==
  IInv /\ [Next]_vars =>
    \/ OnlyRemoves
    \/ \E c \in Callers : SetCredential(c)
    \/ \E d \in TTLs : SetTTL(d)
<1> SUFFICES ASSUME IInv, [Next]_vars,
                    ~ \E c \in Callers : SetCredential(c),
                    ~ \E d \in TTLs : SetTTL(d)
             PROVE  OnlyRemoves
  OBVIOUS
<1> USE DEF IInv, TypeOK, OnlyRemoves
<1>1. ASSUME NEW c \in Callers, NEW k \in Keys, Call(c, k) PROVE OnlyRemoves
  BY <1>1 DEF Call, cacheVars
<1>2. ASSUME NEW c \in Callers,
             Get(c) \/ StaleEntry(c) \/ Do(c) \/ InnerGet(c) \/ Fetch(c)
               \/ StampStore(c) \/ DoReturns(c) \/ Resolve(c)
      PROVE  OnlyRemoves
  BY <1>2 DEF Get, StaleEntry, Do, InnerGet, Fetch, FetchOk, FetchErr, StampStore,
     DoReturns, Resolve, cacheVars
<1>3. ASSUME NEW c \in Callers, Evict(c) PROVE OnlyRemoves
  BY <1>3 DEF Evict
<1>4. ASSUME NEW s \in Sweepers, SweeperTick(s) PROVE OnlyRemoves
  BY <1>4, SweepOnlyRemoves DEF SweeperTick
<1>5. CASE Tick \/ SetterStep \/ (\E s \in Sweepers : SweeperExit(s)) \/ UNCHANGED vars
  BY <1>5 DEF Tick, SetterStep, StopSweeper, AwaitSweeper, StartSweeper, SweeperExit,
     vars, cacheVars
<1> HIDE DEF OnlyRemoves
<1> QED
  BY <1>1, <1>2, <1>3, <1>4, <1>5 DEF Next, CallerStep

(* What a store leaves behind.                                              *)
LEMMA StoreEffect ==
  ASSUME IInv, NEW c \in Callers, SetCredential(c)
  PROVE  /\ UNCHANGED ttl
         /\ \A k \in Keys : k # key[c] => entries'[k] \in {entries[k], NoEntry}
         /\ \/ entries'[key[c]] \in {entries[key[c]], NoEntry}
            \/ LET e == entries'[key[c]] IN
               /\ e \in Entry
               /\ ttl = 0 => ~ Static(e)
               /\ ~ Static(e) => e.refreshAt + Margin <= e.hardExpiresAt
               /\ ttl # 0 => e.refreshAt <= e.storedAt + ttl
<1> DEFINE r == ComputeRefreshAt(t[c], ttl, cred[c].expires)
<1>1. cred[c] \in Credential /\ t[c] \in Int /\ ttl \in Nat /\ key[c] \in Keys
  BY DEF IInv, TypeOK, Holding, Time, SetCredential
<1>2. /\ r \in Int
      /\ cred[c].expires # NoExpiry => r + Margin <= cred[c].expires
      /\ ttl # 0 => r <= t[c] + ttl
  BY <1>1, RefreshAtBounds DEF Credential
<1>3. SweepExpired(entries, t[c]) \in [Keys -> Entry \union {NoEntry}]
      /\ \A k \in Keys : SweepExpired(entries, t[c])[k] \in {entries[k], NoEntry}
  BY SweepOnlyRemoves DEF IInv, TypeOK
<1>4. CASE ~ Cacheable(cred[c])
  BY <1>1, <1>4 DEF SetCredential
<1>5. CASE Cacheable(cred[c])
  <2> DEFINE e == [refreshAt |-> r, hardExpiresAt |-> cred[c].expires, storedAt |-> t[c]]
  <2>1. entries' = [SweepExpired(entries, t[c]) EXCEPT ![key[c]] = e]
    BY <1>5 DEF SetCredential
  <2>2. entries'[key[c]] = e /\ \A k \in Keys : k # key[c] => entries'[k] \in {entries[k], NoEntry}
    BY <1>1, <1>3, <2>1
  <2>3. e \in Entry
    BY <1>1, <1>2 DEF Entry, Credential
  <2>4. ttl = 0 => cred[c].expires # NoExpiry
    BY <1>5 DEF Cacheable
  <2> HIDE DEF r
  <2> QED
    BY <1>1, <1>2, <2>2, <2>3, <2>4 DEF Static, SetCredential
<1> QED
  BY <1>4, <1>5

(* The bounds on what the cache holds survive stores, sweeps and reloads.   *)
LEMMA BoundsStep ==
  IInv /\ [Next]_vars => DisabledHoldsNoStatic' /\ RefreshWithinBounds'
<1> DEFINE Goal == DisabledHoldsNoStatic' /\ RefreshWithinBounds'
<1> SUFFICES ASSUME IInv, [Next]_vars PROVE Goal
  OBVIOUS
<1> USE DEF DisabledHoldsNoStatic, RefreshWithinBounds, Static
<1>1. CASE OnlyRemoves
  BY <1>1 DEF IInv, OnlyRemoves
<1>2. ASSUME NEW c \in Callers, SetCredential(c) PROVE Goal
  BY <1>2, StoreEffect DEF IInv
<1>3. ASSUME NEW d \in TTLs, SetTTL(d) PROVE Goal
  <2>1. CASE TTLChanged(d)
    BY <2>1 DEF TTLChanged
  <2>2. CASE TTLDisabled(d)
    BY <2>2 DEF IInv, TTLDisabled, DropStatic
  <2>3. CASE TTLKept(d)
    BY <2>3 DEF IInv, TTLKept
  <2> HIDE DEF Goal
  <2> QED
    BY <1>3, <2>1, <2>2, <2>3 DEF SetTTL
<1> HIDE DEF Goal
<1> QED
  BY <1>1, <1>2, <1>3, EntrySteps

(* An entry a leader was not served is not served to it later: only the     *)
(* leader itself could store a fresh one.                                   *)
LEMMA DueStep == IInv /\ [Next]_vars => DueSinceSecondLook'
<1> SUFFICES ASSUME IInv, [Next]_vars, NEW c \in Callers,
                    pc'[c] \in {"innerEvict", "fetch", "fetched"}
             PROVE  ~ Serves(entries[key[c]], t[c])'
  BY DEF DueSinceSecondLook
<1> DEFINE k == key[c]
           Stays == /\ pc[c] \in {"innerGet", "innerEvict", "fetch", "fetched"}
                    /\ key'[c] = k /\ t'[c] = t[c]
                    /\ pc[c] = "innerGet" => InnerGet(c)
<1>0. k \in Keys
  BY DEF IInv, TypeOK
<1>1. Stays
  <2> USE DEF IInv, TypeOK, Goto, Return, PCs
  <2>1. CASE UNCHANGED <<pc, key, t>>
    BY <2>1
  <2>2. ASSUME NEW d \in Callers, NEW kk \in Keys, Call(d, kk) PROVE Stays
    BY <2>2 DEF Call
  <2>3. ASSUME NEW d \in Callers, Get(d) \/ StaleEntry(d) \/ Do(d) \/ InnerGet(d)
        PROVE  Stays
    BY <2>3 DEF Get, StaleEntry, Do, InnerGet
  <2>4. ASSUME NEW d \in Callers, Evict(d) \/ Fetch(d) PROVE Stays
    BY <2>4 DEF Evict, Fetch, FetchOk, FetchErr
  <2>5. ASSUME NEW d \in Callers, StampStore(d) \/ SetCredential(d) \/ Resolve(d)
        PROVE  Stays
    BY <2>5 DEF StampStore, SetCredential, Resolve
  <2>6. ASSUME NEW d \in Callers, DoReturns(d) PROVE Stays
    BY <2>6 DEF DoReturns, EndFlight
  <2>7. CASE \/ Tick \/ SetterStep \/ (\E d \in TTLs : SetTTL(d))
             \/ (\E s \in Sweepers : SweeperTick(s) \/ SweeperExit(s)) \/ UNCHANGED vars
    BY <2>1, <2>7 DEF Tick, SetterStep, StopSweeper, AwaitSweeper, StartSweeper, SetTTL,
       SweeperTick, SweeperExit, vars, callVars
  <2> HIDE DEF IInv, TypeOK, Stays
  <2> QED
    BY <2>2, <2>3, <2>4, <2>5, <2>6, <2>7 DEF Next, CallerStep
<1>2. ~ Serves(entries[k], t[c])
  BY <1>1 DEF IInv, DueSinceSecondLook, InnerGet, Goto, TypeOK
<1>3. CASE OnlyRemoves
  BY <1>0, <1>1, <1>2, <1>3 DEF OnlyRemoves, Serves, Static
<1>4. ASSUME NEW d \in Callers, SetCredential(d) PROVE ~ Serves(entries[k], t[c])'
  <2>1. key[d] # k
    BY <1>1, <1>4 DEF IInv, SingleFlight, InFlight, SetCredential, Goto, TypeOK
  <2>2. UNCHANGED ttl /\ entries'[k] \in {entries[k], NoEntry}
    BY <1>0, <1>4, <2>1, StoreEffect
  <2> QED
    BY <1>1, <1>2, <2>2 DEF Serves, Static
<1>5. ASSUME NEW d \in TTLs, SetTTL(d) PROVE ~ Serves(entries[k], t[c])'
  BY <1>0, <1>1, <1>2, <1>5 DEF SetTTL, TTLChanged, TTLDisabled, TTLKept, DropStatic,
     Serves, Static, IInv, TypeOK
<1> QED
  BY <1>1, <1>3, <1>4, <1>5, EntrySteps

(* The inductive invariant, for every number of callers and keys and every  *)
(* TTL, lifetime and margin.                                                *)
THEOREM Inductive == Spec => []IInv
<1>1. IInv /\ [Next]_vars => IInv'
  BY TypeStep, CallStep, BoundsStep, DueStep DEF IInv
<1> QED
  BY <1>1, InitIInv, PTL DEF Spec

(* Every variable keeps its type.                                           *)
THEOREM TypeCorrect == Spec => []TypeOK
BY Inductive, PTL DEF IInv

(* While the cache is disabled it holds no static credential, whatever      *)
(* fetches were in flight when the reload came.                             *)
THEOREM DisabledIsPurged == Spec => []DisabledHoldsNoStatic
BY Inductive, PTL DEF IInv

(* Every entry is refreshed Margin before its expiry and within the TTL.    *)
THEOREM RefreshInTime == Spec => []RefreshWithinBounds
BY Inductive, PTL DEF IInv

(* At most one refresh of a key is under way, and it is begun only when     *)
(* the cache has nothing to serve.                                          *)
THEOREM RefreshOnce == Spec => []RefreshedOnce
<1>1. IInv => RefreshedOnce
  BY DEF IInv, DueSinceSecondLook, FetchOnlyWhenDue, RefreshedOnce
<1> QED
  BY <1>1, Inductive, PTL

(* What the cache serves is usable: a hit outlives the margin, a stale      *)
(* value its own serving.                                                   *)
THEOREM ServesUsable == Spec => ServedValid
<1> DEFINE Usable(c) ==
      /\ (pc[c] = "get" /\ pc'[c] = "idle") \/ (pc[c] = "innerGet" /\ pc'[c] = "endHit")
           => Outlives(entries[key[c]].hardExpiresAt, t[c] + Margin)
      /\ pc[c] = "resolve" /\ result'[c] = "stale"
           => Outlives(stale[c].hardExpiresAt, now)
<1>1. ASSUME IInv, [Next]_vars, NEW c \in Callers PROVE Usable(c)
  <2> USE DEF IInv, TypeOK, Goto, Return, PCs
  <2>1. \/ UNCHANGED <<pc, result>>
        \/ \E d \in Callers : CallerStep(d) \/ \E k \in Keys : Call(d, k)
    BY <1>1 DEF Next, Tick, SetterStep, StopSweeper, AwaitSweeper, StartSweeper, SetTTL,
       SweeperTick, SweeperExit, vars, callVars
  <2>2. CASE UNCHANGED <<pc, result>>
    BY <1>1, <2>2 DEF NoResultYet
  <2>3. Serves(entries[key[c]], t[c]) => Outlives(entries[key[c]].hardExpiresAt, t[c] + Margin)
    BY <1>1 DEF Serves, RefreshWithinBounds, Outlives, Static, Entry, Expiry, Time
  <2>4. ASSUME NEW d \in Callers, NEW k \in Keys, Call(d, k) PROVE Usable(c)
    BY <1>1, <2>4 DEF Call, NoResultYet
  <2>5. ASSUME NEW d \in Callers, CallerStep(d), d # c PROVE Usable(c)
    BY <1>1, <2>5 DEF CallerStep, Get, Evict, StaleEntry, Do, InnerGet, Fetch, FetchOk, FetchErr,
       StampStore, SetCredential, DoReturns, EndFlight, Resolve, NoResultYet
  <2>6. CASE CallerStep(c)
    <3>1. CASE Get(c) \/ InnerGet(c)
      BY <1>1, <2>3, <3>1 DEF Get, InnerGet, NoResultYet
    <3>2. CASE Resolve(c)
      BY <1>1, <3>2 DEF Resolve, Outlives
    <3>3. CASE \/ Evict(c) \/ StaleEntry(c) \/ Do(c) \/ Fetch(c) \/ StampStore(c)
               \/ SetCredential(c) \/ DoReturns(c)
      BY <1>1, <3>3 DEF Evict, StaleEntry, Do, Fetch, FetchOk, FetchErr, StampStore,
         SetCredential, DoReturns, EndFlight, NoResultYet
    <3> HIDE DEF Usable
    <3> QED
      BY <2>6, <3>1, <3>2, <3>3 DEF CallerStep
  <2> HIDE DEF Usable
  <2> QED
    BY <2>1, <2>2, <2>4, <2>5, <2>6
<1>2. IInv /\ [Next]_vars => [\A c \in Callers : Usable(c)]_vars
  BY <1>1
<1> QED
  BY <1>2, Inductive, PTL DEF Spec, ServedValid
-----------------------------------------------------------------------------
(* The sweeper: which goroutine is alive at each point of a SetTTL call.    *)
(* The ids of earlier sweepers are below the number of the current call, so *)
(* a new sweeper never starts with its stop channel closed.                 *)
SweeperInv ==
  /\ ttl = 0 => sweeperStop = 0
  /\ sweeperStop # 0 => live = {sweeperStop} /\ sweeperStop \notin closed
  /\ sweeperStop = 0 => live \subseteq {setter.stop}
  /\ setter.pc \in {"stop", "await"} /\ setter.stop # 0 => sweeperStop = 0
  /\ sweeperStop = 0 /\ setter.pc \in {"start", "idle"} => live = {}
  /\ ttl # 0 /\ sweeperStop = 0 =>
       setter.pc = "start" \/ (setter.pc \in {"stop", "await"} /\ setter.next = "start")
  /\ \A s \in closed \union live \union {setter.stop} :
       s <= setCalls /\ (setter.pc # "idle" => s < setCalls)

LEMMA SweeperStep == IInv /\ SweeperInv /\ [Next]_vars => SweeperInv'
<1> SUFFICES ASSUME IInv, SweeperInv, [Next]_vars PROVE SweeperInv'
  OBVIOUS
<1> USE DEF SweeperInv, IInv, TypeOK, Holding, Sweepers
<1>1. ASSUME NEW d \in TTLs, SetTTL(d) PROVE SweeperInv'
  <2>1. CASE TTLChanged(d)
    BY <1>1, <2>1 DEF SetTTL, TTLChanged
  <2>2. CASE TTLDisabled(d)
    BY <1>1, <2>2 DEF SetTTL, TTLDisabled
  <2>3. CASE TTLKept(d)
    BY <1>1, <2>3 DEF SetTTL, TTLKept
  <2> QED
    BY <1>1, <2>1, <2>2, <2>3 DEF SetTTL
<1>2. CASE StopSweeper
  BY <1>2 DEF StopSweeper, cacheVars
<1>3. CASE AwaitSweeper
  BY <1>3 DEF AwaitSweeper, cacheVars
<1>4. CASE StartSweeper
  <2>1. CASE ttl # 0 /\ sweeperStop = 0
    <3>1. setCalls # 0 /\ setCalls \notin closed
      BY <1>4 DEF StartSweeper
    <3>2. live = {}
      BY <1>4, <2>1 DEF StartSweeper
    <3>3. live' = {setCalls}
      BY <1>4, <2>1, <3>2 DEF StartSweeper
    <3> QED
      BY <1>4, <2>1, <3>1, <3>3 DEF StartSweeper, cacheVars
  <2>2. CASE ~ (ttl # 0 /\ sweeperStop = 0)
    BY <1>4, <2>2 DEF StartSweeper, cacheVars
  <2> QED
    BY <2>1, <2>2
<1>5. ASSUME NEW s \in Sweepers, SweeperExit(s) PROVE SweeperInv'
  BY <1>5 DEF SweeperExit, cacheVars
<1>6. CASE UNCHANGED <<ttl, sweepVars>>
  BY <1>6 DEF sweepVars
<1>7. ASSUME NEW c \in Callers, CallerStep(c) PROVE UNCHANGED <<ttl, sweepVars>>
  BY <1>7 DEF CallerStep, Get, Evict, StaleEntry, Do, InnerGet, Fetch, FetchOk, FetchErr,
     StampStore, SetCredential, DoReturns, Resolve, cacheVars
<1>8. ASSUME NEW c \in Callers, NEW k \in Keys, Call(c, k)
      PROVE  UNCHANGED <<ttl, sweepVars>>
  BY <1>8 DEF Call, cacheVars
<1>9. CASE Tick \/ (\E s \in Sweepers : SweeperTick(s)) \/ UNCHANGED vars
  BY <1>6, <1>9 DEF Tick, SweeperTick, vars, cacheVars
<1> HIDE DEF SweeperInv, IInv, TypeOK, Holding, Sweepers
<1> QED
  BY <1>1, <1>2, <1>3, <1>4, <1>5, <1>6, <1>7, <1>8, <1>9 DEF Next, SetterStep

(* Between SetTTL calls exactly the attached sweeper runs, or none when     *)
(* the cache is disabled.                                                   *)
THEOREM OneSweeper == Spec => []SweeperFollowsTTL
<1>1. Init => SweeperInv
  BY DEF Init, SweeperInv
<1>2. IInv /\ SweeperInv => SweeperFollowsTTL
  BY DEF IInv, TypeOK, SweeperInv, SweeperFollowsTTL
<1> QED
  BY <1>1, <1>2, SweeperStep, Inductive, PTL DEF Spec
=============================================================================
