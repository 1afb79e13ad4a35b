----------------------------- MODULE ReplayCache -----------------------------
(***************************************************************************)
(* Admission of signed tool requests: the timestamp and signature check of  *)
(* src/internal/auth/auth.go, the cache of accepted signatures of           *)
(* src/internal/auth/replay.go, and handleProxyRequest of the daemon, which *)
(* runs one after the other for every connection.  The clock is read twice, *)
(* once for the timestamp check and once for the cache, and time may pass   *)
(* between a reading and its use, at most MaxDelay in all.  The cache is    *)
(* keyed by the HMAC as it was sent, a base64 text, while the signature     *)
(* check decodes that text, and several texts decode to one signature.      *)
(***************************************************************************)
EXTENDS Integers, FiniteSets

CONSTANTS
  Handlers,    \* connection goroutines
  Requests,    \* signed requests, one signature each
  Messages,    \* requests as they are sent, one HMAC text and so one cache key each
  Drift,       \* MaxTimestampDrift, 5 s in the code
  MinTTL,      \* the floor of GetReplayCacheTTL, 10 s in the code
  DefaultTTL,  \* DefaultReplayCacheTTL, 2 min in the code
  ConfigTTLs,  \* configured replay_cache_ttl values, 0 when unset or invalid
  ConfigMax,   \* configured replay_cache_max_entries
  Timestamps,  \* the Unix timestamps wrappers put in their requests
  MaxDelay,    \* assumption: from the signature check to the cache
  MaxTime,     \* bound: the clock stops here
  MaxEpoch,    \* bound: daemon starts
  Absent       \* a key that is not in the map

(* GetReplayCacheTTL.                                                       *)
ReplayTTL(d) == IF d <= 0 THEN DefaultTTL ELSE IF d < MinTTL THEN MinTTL ELSE d

ASSUME DurationAssumption ==
  /\ Drift \in Nat /\ MaxDelay \in Nat /\ MinTTL \in Nat /\ DefaultTTL \in Nat
  /\ MaxTime \in Nat /\ MaxEpoch \in Nat
ASSUME ConfigAssumption ==
  ConfigTTLs \subseteq Int /\ ConfigMax \subseteq Nat \ {0} /\ Timestamps \subseteq Int
ASSUME AbsentAssumption == Absent \notin Int

VARIABLES
  now,         \* the wall clock
  epoch,       \* which secret the running daemon holds: one per start
  ttl,         \* c.ttl
  maxEntries,  \* c.maxEntries
  entries,     \* c.entries: the expiry of each stored HMAC text
  decoded,     \* per message, the request whose signature it decodes to (never changes)
  ts,          \* per request, its timestamp, Absent before it is signed
  signedWith,  \* per request, the secret it was signed with
  pc,          \* per handler, where it is in handleProxyRequest
  req,         \* per handler, the message it read
  verifiedAt,  \* per handler, when the timestamp was checked (history)
  stamp,       \* per handler, the clock reading given to SeenOrStore
  accepted,    \* messages handed on to execution, ever
  again,       \* messages handed on more than once, ever
  refused,     \* messages refused as replays, ever
  evicted,     \* messages whose live entry was dropped for lack of room
  brief        \* messages stored with an expiry within their own window (history)

cacheVars == <<ttl, maxEntries, entries>>
reqVars == <<decoded, ts, signedWith>>
handlerVars == <<pc, req, verifiedAt, stamp>>
histVars == <<accepted, again, refused, evicted, brief>>
vars == <<now, epoch, cacheVars, reqVars, handlerVars, histVars>>

Stored(es) == {m \in Messages : es[m] # Absent}
-----------------------------------------------------------------------------
Init ==
  /\ now = 0
  /\ epoch = 1
  /\ \E d \in ConfigTTLs, m \in ConfigMax : ttl = ReplayTTL(d) /\ maxEntries = m
  /\ entries = [m \in Messages |-> Absent]
  /\ decoded \in [Messages -> Requests]
  /\ ts = [r \in Requests |-> Absent]
  /\ signedWith = [r \in Requests |-> 0]
  /\ pc = [h \in Handlers |-> "idle"]
  /\ req = [h \in Handlers |-> Absent]
  /\ verifiedAt = [h \in Handlers |-> 0]
  /\ stamp = [h \in Handlers |-> 0]
  /\ accepted = {} /\ again = {} /\ refused = {} /\ evicted = {} /\ brief = {}

(* Time passes; no handler is held up longer than MaxDelay.                 *)
Tick ==
  /\ now < MaxTime
  /\ \A h \in Handlers : pc[h] # "idle" => now < verifiedAt[h] + MaxDelay
  /\ now' = now + 1
  /\ UNCHANGED <<epoch, cacheVars, reqVars, handlerVars, histVars>>

(* A wrapper signs a request with the secret file of the moment; its clock  *)
(* may be ahead of the daemon's or behind.  (A request that no message      *)
(* decodes to is not sent, and plays no part.)                              *)
Sign(r, x) ==
  /\ \E m \in Messages : decoded[m] = r
  /\ ts[r] = Absent
  /\ ts' = [ts EXCEPT ![r] = x]
  /\ signedWith' = [signedWith EXCEPT ![r] = epoch]
  /\ UNCHANGED <<now, epoch, cacheVars, decoded, handlerVars, histVars>>

(* A mutant of TimestampOK: only timestamps from the future are refused.    *)
TimestampNotEarly(x, n) == x - n <= Drift

(* ValidateTimestamp.                                                       *)
TimestampOK(x, n) == x - n <= Drift /\ n - x <= Drift

(* VerifyHMACWithPTY passes: the decoded signature is the expected one.  A  *)
(* message may arrive any number of times, and so may other texts of the    *)
(* same signature; one that does not verify is answered with an error and   *)
(* changes nothing.                                                         *)
Verify(h, m) ==
  /\ pc[h] = "idle"
  /\ ts[decoded[m]] # Absent
  /\ TimestampOK(ts[decoded[m]], now)
  /\ signedWith[decoded[m]] = epoch
  /\ pc' = [pc EXCEPT ![h] = "verified"]
  /\ req' = [req EXCEPT ![h] = m]
  /\ verifiedAt' = [verifiedAt EXCEPT ![h] = now]
  /\ UNCHANGED <<now, epoch, cacheVars, reqVars, stamp, histVars>>

(* The clock reading handed to SeenOrStore.                                 *)
Stamp(h) ==
  /\ pc[h] = "verified"
  /\ pc' = [pc EXCEPT ![h] = "stamped"]
  /\ stamp' = [stamp EXCEPT ![h] = now]
  /\ UNCHANGED <<now, epoch, cacheVars, reqVars, req, verifiedAt, histVars>>

(* evictExpiredLocked.                                                      *)
EvictExpired(es, n) ==
  [m \in Messages |-> IF es[m] # Absent /\ n > es[m] THEN Absent ELSE es[m]]

(* evictOneLocked, repeated k times: the k stored keys that expire first    *)
(* (map order decides between equals).                                      *)
Oldest(es, k) ==
  {E \in SUBSET Stored(es) :
     /\ Cardinality(E) = k
     /\ \A m \in E, q \in Stored(es) \ E : es[m] <= es[q]}

Drop(es, E) == [m \in Messages |-> IF m \in E THEN Absent ELSE es[m]]

(* A mutant of Seen: the key is the timestamp and not the HMAC.             *)
SeenTimestamp(es, m, n) ==
  \E q \in Messages : ts[decoded[q]] = ts[decoded[m]] /\ es[q] # Absent /\ n < es[q]

(* The lookup by the HMAC as it was sent.                                   *)
Seen(es, m, n) == es[m] # Absent /\ n < es[m]

Room(es) == Cardinality(Stored(es)) < maxEntries

Done(h) ==
  /\ pc' = [pc EXCEPT ![h] = "idle"]
  /\ req' = [req EXCEPT ![h] = Absent]
  /\ verifiedAt' = [verifiedAt EXCEPT ![h] = 0]
  /\ stamp' = [stamp EXCEPT ![h] = 0]

(* SeenOrStore answers true: the message is refused as a replay.            *)
RejectSeen(h) ==
  LET es == EvictExpired(entries, stamp[h]) IN
  /\ pc[h] = "stamped"
  /\ Seen(es, req[h], stamp[h])
  /\ entries' = es
  /\ refused' = refused \union {req[h]}
  /\ Done(h)
  /\ UNCHANGED <<now, epoch, ttl, maxEntries, reqVars, accepted, again, evicted, brief>>

StoreNew(h, es, E) == [Drop(es, E) EXCEPT ![req[h]] = stamp[h] + ttl]

(* The last instant at which a handler can act on message m.                *)
Deadline(m) == ts[decoded[m]] + Drift + MaxDelay

(* SeenOrStore answers false: the HMAC text is stored, possibly in place of *)
(* the oldest one, and the request is handed on.                            *)
Accept(h) ==
  LET es == EvictExpired(entries, stamp[h]) IN
  /\ pc[h] = "stamped"
  /\ ~ Seen(es, req[h], stamp[h])
  /\ \E E \in Oldest(es, IF Room(es) THEN 0 ELSE 1) :
       /\ entries' = StoreNew(h, es, E)
       /\ evicted' = evicted \union E
  /\ accepted' = accepted \union {req[h]}
  /\ again' = IF req[h] \in accepted THEN again \union {req[h]} ELSE again
  /\ brief' = brief \union (IF stamp[h] + ttl <= Deadline(req[h]) THEN {req[h]} ELSE {})
  /\ Done(h)
  /\ UNCHANGED <<now, epoch, ttl, maxEntries, reqVars, refused>>

(* A mutant of Excess: a smaller limit does not trim what is stored.        *)
ExcessKept(m) == 0

Excess(m) == LET n == Cardinality(Stored(entries)) IN IF n > m THEN n - m ELSE 0

(* UpdateSettings on a configuration reload: entries are kept with the      *)
(* expiry they have.                                                        *)
UpdateSettings(d, m) ==
  /\ ttl' = ReplayTTL(d)
  /\ maxEntries' = m
  /\ \E E \in Oldest(entries, Excess(m)) :
       /\ entries' = Drop(entries, E)
       /\ evicted' = evicted \union E
  /\ UNCHANGED <<now, epoch, reqVars, handlerVars, accepted, again, refused, brief>>

(* Run generates a new secret at every start.                               *)
NextSecret(e) == e + 1

(* The daemon dies and starts again: handlers and cache are gone.           *)
Restart(d, m) ==
  /\ epoch < MaxEpoch
  /\ epoch' = NextSecret(epoch)
  /\ ttl' = ReplayTTL(d)
  /\ maxEntries' = m
  /\ entries' = [q \in Messages |-> Absent]
  /\ pc' = [h \in Handlers |-> "idle"]
  /\ req' = [h \in Handlers |-> Absent]
  /\ verifiedAt' = [h \in Handlers |-> 0]
  /\ stamp' = [h \in Handlers |-> 0]
  /\ UNCHANGED <<now, reqVars, histVars>>

Next ==
  \/ Tick
  \/ \E r \in Requests, x \in Timestamps : Sign(r, x)
  \/ \E h \in Handlers :
       Stamp(h) \/ RejectSeen(h) \/ Accept(h) \/ \E m \in Messages : Verify(h, m)
  \/ \E d \in ConfigTTLs, m \in ConfigMax : UpdateSettings(d, m) \/ Restart(d, m)

Spec == Init /\ [][Next]_vars
-----------------------------------------------------------------------------
(* Every variable keeps its type.                                           *)
TypeOK ==
  /\ now \in Nat
  /\ epoch \in Nat \ {0}
  /\ ttl \in {ReplayTTL(d) : d \in ConfigTTLs}
  /\ maxEntries \in ConfigMax
  /\ entries \in [Messages -> Int \union {Absent}]
  /\ decoded \in [Messages -> Requests]
  /\ ts \in [Requests -> Int \union {Absent}]
  /\ signedWith \in [Requests -> Nat]
  /\ pc \in [Handlers -> {"idle", "verified", "stamped"}]
  /\ req \in [Handlers -> Messages \union {Absent}]
  /\ verifiedAt \in [Handlers -> Int]
  /\ stamp \in [Handlers -> Int]
  /\ accepted \subseteq Messages /\ again \subseteq accepted
  /\ refused \subseteq Messages /\ evicted \subseteq Messages
  /\ brief \subseteq accepted

(* However often one message is delivered, byte for byte, over whatever     *)
(* interleaving of connections, reloads and restarts, it is handed on at    *)
(* most once unless the cache had to make room, or its entry was stored for *)
(* less than the time in which it verifies.  A request that was sent under  *)
(* two HMAC texts is two messages, and is handed on once for each.          *)
AtMostOnce == again \subseteq evicted \union brief

(* The lifetime of entries exceeds the time in which a request verifies,    *)
(* which is 2 * Drift wide, and the delay of a handler.  The default is so  *)
(* long; the floor of 10 s is not.                                          *)
LongRetention == \A d \in ConfigTTLs : ReplayTTL(d) > 2 * Drift + MaxDelay

(* The cache never outgrows replay_cache_max_entries, right after a reload  *)
(* that lowers it too.                                                      *)
WithinCapacity == Cardinality(Stored(entries)) <= maxEntries

(* The cache with its clocks, lifetimes, evictions, restarts and concurrent *)
(* handlers implements the promise of AdmitOnce for messages: one is handed *)
(* on again only after its entry was evicted or too brief, is refused as a  *)
(* replay only after it was handed on itself and not another text of the    *)
(* same signature, and only entries of such messages are evicted or brief.  *)
Promise == INSTANCE AdmitOnce WITH
  Requests <- Messages, admitted <- accepted, repeated <- again, forgotten <- evicted \union brief
ImplementsAdmitOnce == Promise!Spec
=============================================================================
