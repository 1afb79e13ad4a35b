--------------------------- MODULE CredentialCache ---------------------------
(***************************************************************************)
(* The in-memory credential cache of the daemon                            *)
(* (src/internal/credentials/cache.go).  Tool executions call fetchCached   *)
(* concurrently; a configuration reload calls SetTTL; a background sweeper  *)
(* removes expired entries.  Every section the code runs under c.mu is one  *)
(* action.  Time is a discrete clock, and every read of the clock is kept   *)
(* apart from the critical section that uses it: a call may be descheduled  *)
(* for any time between reading the clock and using what it read.           *)
(***************************************************************************)
EXTENDS Integers, FiniteSets

CONSTANTS
  Callers,     \* goroutines that resolve credentials (one per tool run)
  Keys,        \* cache keys: backend, path and jq expression
  TTLs,        \* values of credential_cache_ttl a reload may install
  Lifetimes,   \* lifetimes a backend grants: offsets from its clock
  Margin,      \* credentialEarlyRefreshMargin, five minutes in the code
  MaxTime,     \* bound: the clock stops here
  MaxSetTTL,   \* bound: the number of SetTTL calls
  NoExpiry,    \* the zero time.Time: a static credential
  NoEntry,     \* a key that is not in the map
  NoCred,      \* no outcome yet, or an error
  None         \* no caller

ASSUME MarginAssumption == Margin \in Nat
ASSUME TTLAssumption == TTLs \subseteq Nat
ASSUME LifetimeAssumption == Lifetimes \subseteq Int \union {NoExpiry}
ASSUME SentinelAssumption == NoExpiry \notin Int /\ None \notin Callers
ASSUME BoundAssumption == MaxTime \in Nat /\ MaxSetTTL \in Nat

VARIABLES
  now,         \* the wall clock
  ttl,         \* c.ttl
  entries,     \* c.entries
  sweeperStop, \* c.sweeperStop: the attached sweeper, 0 when nil
  live,        \* the sweeper goroutines that have not returned
  closed,      \* the sweepers whose stop channel is closed
  setter,      \* where the SetTTL call is, the sweeper it stops, what follows
  setCalls,    \* SetTTL calls so far; also numbers the sweepers
  leader,      \* per key, the caller inside fetchGroup.Do, or None
  pc,          \* per caller, the next step of fetchCached
  key,         \* per caller, the key it resolves
  t,           \* per caller, the clock reading its next Get uses
  stale,       \* per caller, the entry staleEntry gave it
  cred,        \* per caller, the credential fetched or shared, or NoCred
  result       \* per caller, what its last call returned and from where

cacheVars == <<ttl, entries>>
sweepVars == <<sweeperStop, live, closed, setter, setCalls>>
callVars  == <<leader, pc, key, t, stale, cred, result>>
vars == <<now, cacheVars, sweepVars, callVars>>

Time == 0 .. MaxTime
Expiry == Int \union {NoExpiry}
(* Of a credential's value only its being empty matters.                    *)
Credential == [value : {"empty", "secret"}, expires : Expiry]
(* An entry's value is never empty and is left out; storedAt is a history   *)
(* field, the clock reading SetCredential used.                             *)
Entry == [refreshAt : Int, hardExpiresAt : Expiry, storedAt : Int]
Results == {"none", "cache", "flight", "stale", "error"}
PCs == {"idle", "get", "evict", "stale", "do", "wait", "innerGet",
        "innerEvict", "fetch", "fetched", "store", "endHit", "endOk",
        "endErr", "resolve"}
(* The steps a caller takes inside the function given to fetchGroup.Do.     *)
InFlight == {"innerGet", "innerEvict", "fetch", "fetched", "store", "endHit",
             "endOk", "endErr"}
-----------------------------------------------------------------------------
(* Operators on entries.                                                    *)

Static(e) == e.hardExpiresAt = NoExpiry

ComputeRefreshAt(n, d, expires) ==
  IF expires = NoExpiry THEN n + d
  ELSE IF d = 0 \/ expires - Margin < n + d THEN expires - Margin
  ELSE n + d

EntryExpired(e, n) ==
  IF Static(e) THEN n >= e.refreshAt ELSE n >= e.hardExpiresAt

(* A mutant of Serves: serve until the hard expiry, margin ignored.         *)
ServesUntilExpiry(e, n) ==
  /\ e # NoEntry
  /\ ~ (ttl = 0 /\ Static(e))
  /\ ~ EntryExpired(e, n)

(* Get at clock reading n returns entry e.                                  *)
Serves(e, n) ==
  /\ e # NoEntry
  /\ ~ (ttl = 0 /\ Static(e))
  /\ n < e.refreshAt

(* Get goes on to delete entry e.                                           *)
Evictable(e, n) ==
  /\ e # NoEntry
  /\ n >= e.refreshAt
  /\ Static(e) \/ n >= e.hardExpiresAt

(* staleEntry: a credential with a hard expiry that has not passed.         *)
ValidExpiring(e, n) ==
  /\ e # NoEntry
  /\ ~ Static(e)
  /\ n < e.hardExpiresAt

(* A mutant of SweepExpired: the loop forgets to delete.                    *)
SweepNothing(es, n) == es

SweepExpired(es, n) ==
  [k \in Keys |-> IF es[k] # NoEntry /\ EntryExpired(es[k], n)
                  THEN NoEntry ELSE es[k]]

DropStatic(es) ==
  [k \in Keys |-> IF es[k] # NoEntry /\ Static(es[k]) THEN NoEntry ELSE es[k]]
-----------------------------------------------------------------------------
Init ==
  /\ now = 0
  /\ ttl = 0
  /\ entries = [k \in Keys |-> NoEntry]
  /\ sweeperStop = 0
  /\ live = {}
  /\ closed = {}
  /\ setter = [pc |-> "idle", stop |-> 0, next |-> "idle"]
  /\ setCalls = 0
  /\ leader = [k \in Keys |-> None]
  /\ pc = [c \in Callers |-> "idle"]
  /\ key \in [Callers -> Keys]
  /\ t = [c \in Callers |-> 0]
  /\ stale = [c \in Callers |-> NoEntry]
  /\ cred = [c \in Callers |-> NoCred]
  /\ result = [c \in Callers |-> "none"]

Tick ==
  /\ now < MaxTime
  /\ now' = now + 1
  /\ UNCHANGED <<cacheVars, sweepVars, callVars>>
-----------------------------------------------------------------------------
(* fetchCached, one action per critical section.                            *)

Goto(c, l) == pc' = [pc EXCEPT ![c] = l]

(* The call returns: its locals die, its result is what the caller sees.    *)
Return(c, r) ==
  /\ Goto(c, "idle")
  /\ result' = [result EXCEPT ![c] = r]
  /\ t' = [t EXCEPT ![c] = 0]
  /\ stale' = [stale EXCEPT ![c] = NoEntry]
  /\ cred' = [cred EXCEPT ![c] = NoCred]

(* FetchCredential of a cacheable source: reads the clock, then Get.        *)
Call(c, k) ==
  /\ pc[c] = "idle"
  /\ Goto(c, "get")
  /\ key' = [key EXCEPT ![c] = k]
  /\ t' = [t EXCEPT ![c] = now]
  /\ result' = [result EXCEPT ![c] = "none"]
  /\ UNCHANGED <<now, cacheVars, sweepVars, leader, stale, cred>>

(* Get's read of the map: a hit returns, a miss may first evict.            *)
Get(c) ==
  LET e == entries[key[c]] IN
  /\ pc[c] = "get"
  /\ \/ /\ Serves(e, t[c])
        /\ Return(c, "cache")
     \/ /\ ~ Serves(e, t[c])
        /\ Goto(c, IF Evictable(e, t[c]) THEN "evict" ELSE "stale")
        /\ UNCHANGED <<t, stale, cred, result>>
  /\ UNCHANGED <<now, cacheVars, sweepVars, leader, key>>

(* Get's delete, in a critical section of its own that looks again.         *)
Evict(c) ==
  LET k == key[c] IN
  /\ pc[c] \in {"evict", "innerEvict"}
  /\ entries' = IF Evictable(entries[k], t[c])
                THEN [entries EXCEPT ![k] = NoEntry] ELSE entries
  /\ Goto(c, IF pc[c] = "evict" THEN "stale" ELSE "fetch")
  /\ UNCHANGED <<now, ttl, sweepVars, leader, key, t, stale, cred, result>>

(* staleEntry, still with the clock reading taken on entry.                 *)
StaleEntry(c) ==
  LET e == entries[key[c]] IN
  /\ pc[c] = "stale"
  /\ stale' = [stale EXCEPT ![c] = IF ValidExpiring(e, t[c]) THEN e ELSE NoEntry]
  /\ t' = [t EXCEPT ![c] = 0]
  /\ Goto(c, "do")
  /\ UNCHANGED <<now, cacheVars, sweepVars, leader, key, cred, result>>

(* A mutant of Do: calls are not deduplicated.                              *)
DoWithoutSharing(c) ==
  LET k == key[c] IN
  /\ pc[c] = "do"
  /\ Goto(c, "innerGet")
  /\ t' = [t EXCEPT ![c] = now]
  /\ leader' = [leader EXCEPT ![k] = c]
  /\ UNCHANGED <<now, cacheVars, sweepVars, key, stale, cred, result>>

(* fetchGroup.Do: the first caller of a key leads and reads the clock again;*)
(* the others wait for its outcome.                                         *)
Do(c) ==
  LET k == key[c] IN
  /\ pc[c] = "do"
  /\ \/ /\ leader[k] = None
        /\ leader' = [leader EXCEPT ![k] = c]
        /\ t' = [t EXCEPT ![c] = now]
        /\ Goto(c, "innerGet")
     \/ /\ leader[k] # None
        /\ Goto(c, "wait")
        /\ UNCHANGED <<leader, t>>
  /\ UNCHANGED <<now, cacheVars, sweepVars, key, stale, cred, result>>

(* The leader's second look at the cache.                                   *)
InnerGet(c) ==
  LET e == entries[key[c]] IN
  /\ pc[c] = "innerGet"
  /\ \/ /\ Serves(e, t[c])
        /\ cred' = [cred EXCEPT ![c] = [value |-> "secret", expires |-> e.hardExpiresAt]]
        /\ t' = [t EXCEPT ![c] = 0]
        /\ Goto(c, "endHit")
     \/ /\ ~ Serves(e, t[c])
        /\ Goto(c, IF Evictable(e, t[c]) THEN "innerEvict" ELSE "fetch")
        /\ UNCHANGED <<cred, t>>
  /\ UNCHANGED <<now, cacheVars, sweepVars, leader, key, stale, result>>

(* The backend answers: a value, or an empty one, with the                  *)
(* expiry it grants (which may already have passed).                        *)
FetchOk(c, l, v) ==
  /\ pc[c] = "fetch"
  /\ cred' = [cred EXCEPT ![c] =
        [value |-> v, expires |-> IF l = NoExpiry THEN NoExpiry ELSE now + l]]
  /\ Goto(c, "fetched")
  /\ UNCHANGED <<now, cacheVars, sweepVars, leader, key, t, stale, result>>

(* The backend fails or its command times out.                              *)
FetchErr(c) ==
  /\ pc[c] = "fetch"
  /\ t' = [t EXCEPT ![c] = 0]
  /\ Goto(c, "endErr")
  /\ UNCHANGED <<now, cacheVars, sweepVars, leader, key, stale, cred, result>>

(* A mutant of Cacheable: the TTL guard is dropped.                         *)
CacheableAlways(cr) == cr.value # "empty"

(* SetCredential stores the credential (its two early returns).             *)
Cacheable(cr) ==
  /\ cr.value # "empty"
  /\ ~ (ttl = 0 /\ cr.expires = NoExpiry)

(* A mutant of EndFlight: only the leader goes on.                          *)
EndFlightForLeader(k, outcome) ==
  /\ leader' = [leader EXCEPT ![k] = None]
  /\ cred' = [cred EXCEPT ![leader[k]] = outcome]
  /\ pc' = [pc EXCEPT ![leader[k]] = "resolve"]

(* The outcome of the flight of key k, seen by its leader and its waiters.  *)
EndFlight(k, outcome) ==
  LET members == {d \in Callers : key[d] = k /\ (pc[d] = "wait" \/ d = leader[k])} IN
  /\ leader' = [leader EXCEPT ![k] = None]
  /\ cred' = [d \in Callers |-> IF d \in members THEN outcome ELSE cred[d]]
  /\ pc' = [d \in Callers |-> IF d \in members THEN "resolve" ELSE pc[d]]

(* The leader reads the clock for SetCredential.                            *)
StampStore(c) ==
  /\ pc[c] = "fetched"
  /\ t' = [t EXCEPT ![c] = now]
  /\ Goto(c, "store")
  /\ UNCHANGED <<now, cacheVars, sweepVars, leader, key, stale, cred, result>>

(* SetCredential, under the TTL that is configured by now.                  *)
SetCredential(c) ==
  /\ pc[c] = "store"
  /\ entries' = IF ~ Cacheable(cred[c]) THEN entries
                ELSE [SweepExpired(entries, t[c]) EXCEPT ![key[c]] =
                        [refreshAt |-> ComputeRefreshAt(t[c], ttl, cred[c].expires),
                         hardExpiresAt |-> cred[c].expires,
                         storedAt |-> t[c]]]
  /\ t' = [t EXCEPT ![c] = 0]
  /\ Goto(c, "endOk")
  /\ UNCHANGED <<now, ttl, sweepVars, leader, key, stale, cred, result>>

(* The function given to Do returns and the flight ends.                    *)
DoReturns(c) ==
  /\ pc[c] \in {"endHit", "endOk", "endErr"}
  /\ EndFlight(key[c], IF pc[c] = "endErr" THEN NoCred ELSE cred[c])
  /\ UNCHANGED <<now, cacheVars, sweepVars, key, t, stale, result>>

(* After Do: the shared credential, or the stale one, or the error.         *)
Resolve(c) ==
  /\ pc[c] = "resolve"
  /\ \/ /\ cred[c] # NoCred
        /\ Return(c, "flight")
     \/ /\ cred[c] = NoCred
        /\ stale[c] # NoEntry /\ now < stale[c].hardExpiresAt
        /\ Return(c, "stale")
     \/ /\ cred[c] = NoCred
        /\ ~ (stale[c] # NoEntry /\ now < stale[c].hardExpiresAt)
        /\ Return(c, "error")
  /\ UNCHANGED <<now, cacheVars, sweepVars, leader, key>>
-----------------------------------------------------------------------------
(* SetTTL, called by Run and by reloadConfig one call at a time, and the    *)
(* sweeper goroutine.                                                       *)

(* Mutants of TTLChanged: a changed TTL keeps the entries, or the sweeper.  *)
TTLChangedKeepingEntries(d) ==
  /\ d # 0 /\ d # ttl
  /\ ttl' = d
  /\ sweeperStop' = 0
  /\ setter' = [pc |-> "stop", stop |-> sweeperStop, next |-> "start"]
  /\ UNCHANGED entries

TTLChangedKeepingSweeper(d) ==
  /\ d # 0 /\ d # ttl
  /\ ttl' = d
  /\ entries' = [k \in Keys |-> NoEntry]
  /\ sweeperStop' = 0
  /\ setter' = [pc |-> "stop", stop |-> 0, next |-> "start"]

(* The three cases of SetTTL's critical section.                            *)
TTLChanged(d) ==
  /\ d # 0 /\ d # ttl
  /\ ttl' = d
  /\ entries' = [k \in Keys |-> NoEntry]
  /\ sweeperStop' = 0
  /\ setter' = [pc |-> "stop", stop |-> sweeperStop, next |-> "start"]

TTLDisabled(d) ==
  /\ d = 0
  /\ ttl' = 0
  /\ entries' = DropStatic(entries)
  /\ sweeperStop' = 0
  /\ setter' = [pc |-> "stop", stop |-> sweeperStop, next |-> "idle"]

TTLKept(d) ==
  /\ d # 0 /\ d = ttl
  /\ setter' = [pc |-> "stop", stop |-> 0,
                next |-> IF sweeperStop = 0 THEN "start" ELSE "idle"]
  /\ UNCHANGED <<ttl, entries, sweeperStop>>

SetTTL(d) ==
  /\ setter.pc = "idle"
  /\ setCalls < MaxSetTTL
  /\ setCalls' = setCalls + 1
  /\ TTLChanged(d) \/ TTLDisabled(d) \/ TTLKept(d)
  /\ UNCHANGED <<now, live, closed, callVars>>

(* stopCredentialCacheSweeper closes the detached stop channel ...          *)
StopSweeper ==
  /\ setter.pc = "stop"
  /\ setter' = [setter EXCEPT !.pc = IF setter.stop = 0 THEN setter.next ELSE "await"]
  /\ closed' = IF setter.stop = 0 THEN closed ELSE closed \union {setter.stop}
  /\ UNCHANGED <<now, cacheVars, sweeperStop, live, setCalls, callVars>>

(* ... and waits until the goroutine has returned.                          *)
AwaitSweeper ==
  /\ setter.pc = "await"
  /\ setter.stop \notin live
  /\ setter' = [setter EXCEPT !.pc = setter.next]
  /\ UNCHANGED <<now, cacheVars, sweeperStop, live, closed, setCalls, callVars>>

StartSweeper ==
  LET starts == ttl # 0 /\ sweeperStop = 0 IN
  /\ setter.pc = "start"
  /\ setter' = [pc |-> "idle", stop |-> 0, next |-> "idle"]
  /\ sweeperStop' = IF starts THEN setCalls ELSE sweeperStop
  /\ live' = IF starts THEN live \union {setCalls} ELSE live
  /\ UNCHANGED <<now, cacheVars, closed, setCalls, callVars>>

(* The goroutine's select: a tick sweeps, even when the stop channel is     *)
(* closed as well; a closed stop channel ends the goroutine.                *)
SweeperTick(s) ==
  /\ s \in live
  /\ entries' = SweepExpired(entries, now)
  /\ UNCHANGED <<now, ttl, sweepVars, callVars>>

SweeperExit(s) ==
  /\ s \in live \intersect closed
  /\ live' = live \ {s}
  /\ UNCHANGED <<now, cacheVars, sweeperStop, closed, setter, setCalls, callVars>>
-----------------------------------------------------------------------------
Fetch(c) ==
  \/ \E l \in Lifetimes, v \in {"empty", "secret"} : FetchOk(c, l, v)
  \/ FetchErr(c)

CallerStep(c) ==
  \/ Get(c) \/ Evict(c) \/ StaleEntry(c) \/ Do(c) \/ InnerGet(c)
  \/ Fetch(c) \/ StampStore(c) \/ SetCredential(c) \/ DoReturns(c)
  \/ Resolve(c)

SetterStep == StopSweeper \/ AwaitSweeper \/ StartSweeper

Sweepers == 1 .. MaxSetTTL

Next ==
  \/ Tick
  \/ \E c \in Callers : CallerStep(c) \/ \E k \in Keys : Call(c, k)
  \/ \E d \in TTLs : SetTTL(d)
  \/ SetterStep
  \/ \E s \in Sweepers : SweeperTick(s) \/ SweeperExit(s)

Spec == Init /\ [][Next]_vars

(* A goroutine that can run does run, every backend command has a timeout   *)
(* of its own, and a ticker keeps ticking.                                  *)
Fairness ==
  /\ \A c \in Callers : WF_vars(CallerStep(c))
  /\ WF_vars(SetterStep)
  /\ \A s \in Sweepers : WF_vars(SweeperTick(s)) /\ WF_vars(SweeperExit(s))

FairSpec == Spec /\ Fairness
-----------------------------------------------------------------------------
(* Properties.                                                              *)

(* Every variable keeps its type.                                           *)
TypeOK ==
  /\ now \in Time
  /\ ttl \in TTLs \union {0}
  /\ entries \in [Keys -> Entry \union {NoEntry}]
  /\ setCalls \in 0 .. MaxSetTTL
  /\ sweeperStop \in 0 .. MaxSetTTL
  /\ live \subseteq Sweepers
  /\ closed \subseteq Sweepers
  /\ setter \in [pc : {"idle", "stop", "await", "start"},
                  stop : 0 .. MaxSetTTL, next : {"start", "idle"}]
  /\ leader \in [Keys -> Callers \union {None}]
  /\ pc \in [Callers -> PCs]
  /\ key \in [Callers -> Keys]
  /\ t \in [Callers -> Time]
  /\ stale \in [Callers -> Entry \union {NoEntry}]
  /\ cred \in [Callers -> Credential \union {NoCred}]
  /\ result \in [Callers -> Results]

(* Disabling the cache purges it for good: while credential_cache_ttl is 0  *)
(* no static credential is in memory, although a fetch that began before    *)
(* the reload may store its result after it.                                *)
DisabledHoldsNoStatic ==
  ttl = 0 => \A k \in Keys : entries[k] # NoEntry => ~ Static(entries[k])

(* "The TTL can only shorten the refresh interval": whatever reloads happen *)
(* between storing and reading, an entry is refreshed Margin before it      *)
(* expires and, while a TTL is set, within that TTL of being stored.        *)
RefreshWithinBounds ==
  \A k \in Keys : entries[k] # NoEntry =>
    LET e == entries[k] IN
    /\ ~ Static(e) => e.refreshAt + Margin <= e.hardExpiresAt
    /\ ttl # 0 => e.refreshAt <= e.storedAt + ttl

(* What comes out of the cache is usable: a hit has more than Margin left   *)
(* at the clock reading that decided it, and a value served stale after a   *)
(* failed refresh has not expired when it is served.                        *)
Outlives(expires, n) == expires = NoExpiry \/ n < expires

ServedValid ==
  [][\A c \in Callers :
       /\ (pc[c] = "get" /\ pc'[c] = "idle") \/ (pc[c] = "innerGet" /\ pc'[c] = "endHit")
            => Outlives(entries[key[c]].hardExpiresAt, t[c] + Margin)
       /\ pc[c] = "resolve" /\ result'[c] = "stale"
            => Outlives(stale[c].hardExpiresAt, now)]_vars

(* Concurrent refreshes are deduplicated: one call per key is inside the    *)
(* function given to singleflight, and it is the registered leader.         *)
SingleFlight ==
  \A c \in Callers : pc[c] \in InFlight => leader[key[c]] = c

(* No redundant backend call: while a leader fetches, the cache holds no    *)
(* entry of its key that its second look should have served.                *)
FetchOnlyWhenDue ==
  \A c \in Callers : pc[c] \in {"fetch", "fetched"} =>
    ~ Serves(entries[key[c]], t[c])

(* A credential is fetched once however many callers want it at the same    *)
(* time or one after the other: fetchCached looks again inside the flight.  *)
RefreshedOnce == SingleFlight /\ FetchOnlyWhenDue

(* Between two SetTTL calls exactly the attached sweeper runs when a TTL is *)
(* set, and none when the cache is disabled; no goroutine is left behind.   *)
SweeperFollowsTTL ==
  setter.pc = "idle" => live = IF ttl = 0 THEN {} ELSE {sweeperStop}

(* Every call into the cache returns: a caller that joined a flight is woken *)
(* at its end, and SetTTL never waits for a sweeper that does not stop.     *)
CallsReturn ==
  /\ \A c \in Callers : []<>(pc[c] = "idle")
  /\ []<>(setter.pc = "idle")

(* An expired credential does not stay in memory while a TTL is set, even   *)
(* if nobody asks for its key again.                                        *)
ExpiredIsSwept ==
  \A k \in Keys :
    []<>(entries[k] = NoEntry \/ ~ EntryExpired(entries[k], now) \/ ttl = 0)
=============================================================================
