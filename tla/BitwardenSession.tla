-------------------------- MODULE BitwardenSession --------------------------
(***************************************************************************)
(* The Bitwarden session that all fetches of bw: credentials share          *)
(* (src/internal/credentials/bitwarden.go): one data directory and one      *)
(* token behind bwMutex, log-in and unlock when the CLI says so, three      *)
(* attempts with a new authentication in between, and the cleanup that Run  *)
(* defers.  The bw CLI is external: per data directory it is logged in or   *)
(* not and has one valid session key, which a lock or a logout elsewhere    *)
(* may take away at any time.                                               *)
(***************************************************************************)
EXTENDS Integers, FiniteSets

CONSTANTS
  Callers,     \* goroutines that fetch
  Attempts,    \* len(bwRetryDelays), 3 in the code
  MaxFetches,  \* bound: fetches in all
  MaxFaults,   \* bound: commands and system calls that fail
  MaxRevokes   \* bound: sessions taken away

ASSUME AttemptsAssumption == Attempts \in Nat \ {0}
ASSUME CallersAssumption == "free" \notin Callers
ASSUME BoundAssumption == MaxFetches \in Nat /\ MaxFaults \in Nat /\ MaxRevokes \in Nat

VARIABLES
  mu,          \* who holds bwMutex
  pc,          \* per caller, where its fetch is
  attempt,     \* per caller, attempts begun
  cur,         \* bwCurrent, with its dir and token; dir 0 is nil
  dirs,        \* data directories on disk
  made,        \* data directories made, ever
  in,          \* the data directories the CLI is logged in with
  key,         \* the session key that the CLI accepts, 0 for none
  keys,        \* session keys given out, ever
  process,     \* the daemon: "up", "stopping", "cleaned", "exited"
  cancelled,   \* callers whose context has ended
  fetches, faults, revokes,   \* counters for the bounds
  cause,       \* per caller, a command of its fetch failed (history)
  taken,       \* per caller, sessions taken away during its fetch (history)
  raced,       \* per caller, a logout came between status and unlock (history)
  failed,      \* per caller, whether its last fetch failed
  late,        \* a fetch began after the cleanup (history)
  stuck        \* data directories that could not be removed (history)

callVars == <<pc, attempt, cancelled, cause, taken, raced, failed>>
cliVars == <<in, key, keys>>
dirVars == <<dirs, made>>
countVars == <<fetches, faults, revokes>>
vars == <<mu, callVars, cur, dirVars, cliVars, process, countVars, late, stuck>>

NoSession == [dir |-> 0, token |-> 0]

Init ==
  /\ mu = "free"
  /\ pc = [c \in Callers |-> "idle"]
  /\ attempt = [c \in Callers |-> 0]
  /\ cancelled = {}
  /\ cause = [c \in Callers |-> FALSE]
  /\ taken = [c \in Callers |-> 0]
  /\ raced = [c \in Callers |-> FALSE]
  /\ failed = [c \in Callers |-> FALSE]
  /\ cur = NoSession
  /\ dirs = {} /\ made = 0
  /\ in = {} /\ key = 0 /\ keys = 0
  /\ process = "up"
  /\ fetches = 0 /\ faults = 0 /\ revokes = 0
  /\ late = FALSE /\ stuck = {}

Running == process # "exited"
Goto(c, l) == pc' = [pc EXCEPT ![c] = l]

(* A mutant of Release: the error paths keep the mutex.                     *)
ReleaseOnSuccess(c, ok) == mu' = IF ok THEN "free" ELSE mu
Release(c, ok) == mu' = "free"

(* The fetch returns; the mutex is released by defer.                       *)
Return(c, ok) ==
  /\ Goto(c, "idle")
  /\ attempt' = [attempt EXCEPT ![c] = 0]
  /\ failed' = [failed EXCEPT ![c] = ~ ok]
  /\ Release(c, ok)

(* A command fails, by itself or because the context of the fetch ended.    *)
Fails(c) ==
  /\ \/ c \in cancelled /\ UNCHANGED faults
     \/ c \notin cancelled /\ faults < MaxFaults /\ faults' = faults + 1
  /\ cause' = [cause EXCEPT ![c] = TRUE]
Works(c) == c \notin cancelled /\ UNCHANGED <<faults, cause>>
-----------------------------------------------------------------------------
(* fetchFromBitwarden.                                                      *)

Fetch(c) ==
  /\ process = "up" /\ pc[c] = "idle" /\ fetches < MaxFetches
  /\ fetches' = fetches + 1
  /\ Goto(c, "lock")
  /\ failed' = [failed EXCEPT ![c] = FALSE]
  /\ cause' = [cause EXCEPT ![c] = FALSE]
  /\ taken' = [taken EXCEPT ![c] = 0]
  /\ raced' = [raced EXCEPT ![c] = FALSE]
  /\ cancelled' = cancelled \ {c}
  /\ UNCHANGED <<mu, attempt, cur, dirVars, cliVars, process, faults, revokes, late, stuck>>

Lock(c) ==
  /\ Running /\ pc[c] = "lock" /\ mu = "free"
  /\ mu' = c
  /\ Goto(c, "ensure")
  /\ late' = (late \/ process = "cleaned")
  /\ UNCHANGED <<attempt, cancelled, cause, taken, raced, failed, cur, dirVars, cliVars, process,
                 countVars, stuck>>

(* The context ends: the caller's timeout, at any time.                     *)
Cancel(c) ==
  /\ Running /\ pc[c] # "idle" /\ c \notin cancelled
  /\ cancelled' = cancelled \union {c}
  /\ UNCHANGED <<mu, pc, attempt, cause, taken, raced, failed, cur, dirVars, cliVars, process,
                 countVars, late, stuck>>

(* A mutant of HasSession: a session without a token is taken for none.     *)
HasToken == cur.token # 0
HasSession == cur.dir # 0

(* ensureBWSession: a data directory of our own, made once.                 *)
Ensure(c) ==
  /\ Running /\ pc[c] = "ensure"
  /\ \/ /\ HasSession
        /\ Goto(c, "status")
        /\ UNCHANGED <<mu, attempt, failed, cause, cur, dirVars, faults>>
     \/ /\ ~ HasSession
        /\ made' = made + 1 /\ dirs' = dirs \union {made + 1}
        /\ cur' = [dir |-> made + 1, token |-> 0]
        /\ Goto(c, "status")
        /\ UNCHANGED <<mu, attempt, failed, cause, faults>>
     \/ /\ ~ HasSession /\ Fails(c)
        /\ Return(c, FALSE)
        /\ UNCHANGED <<cur, dirVars>>
  /\ UNCHANGED <<cancelled, taken, raced, cliVars, process, fetches, revokes, late, stuck>>

(* What a check of the status leads to.  A failed one counts as             *)
(* "unauthenticated".  The CLI is asked without the token, so it says       *)
(* "locked" for a vault that is logged in; "unlocked", and anything else,   *)
(* it says only by a fault.                                                 *)
Status(c) ==
  /\ Running /\ pc[c] = "status"
  /\ \/ /\ Works(c)
        /\ Goto(c, IF cur.dir \in in THEN "unlock" ELSE "login")
        /\ UNCHANGED <<mu, attempt, failed>>
     \/ /\ Fails(c)
        /\ \/ Goto(c, "login") /\ UNCHANGED <<mu, attempt, failed>>
           \/ Goto(c, "sleep") /\ c \notin cancelled /\ UNCHANGED <<mu, attempt, failed>>
           \/ Return(c, FALSE) /\ c \notin cancelled
  /\ UNCHANGED <<cancelled, taken, raced, cur, dirVars, cliVars, process, fetches, revokes, late, stuck>>

(* bwLogin: the CLI refuses to log in twice.                                *)
Login(c) ==
  /\ Running /\ pc[c] = "login"
  /\ \/ /\ Works(c) /\ cur.dir \notin in
        /\ in' = in \union {cur.dir}
        /\ Goto(c, "unlock")
        /\ UNCHANGED <<mu, attempt, failed>>
     \/ /\ Works(c) /\ cur.dir \in in
        /\ Return(c, FALSE) /\ UNCHANGED in
     \/ Fails(c) /\ Return(c, FALSE) /\ UNCHANGED in
  /\ UNCHANGED <<cancelled, taken, raced, cur, dirVars, key, keys, process, fetches, revokes, late, stuck>>

(* bwUnlock: a new key, which replaces the one before.                      *)
Unlock(c) ==
  /\ Running /\ pc[c] = "unlock"
  /\ \/ /\ Works(c) /\ cur.dir \in in
        /\ keys' = keys + 1 /\ key' = keys + 1
        /\ cur' = [cur EXCEPT !.token = keys + 1]
        /\ Goto(c, "sleep")
        /\ UNCHANGED <<mu, attempt, failed>>
     \/ /\ Works(c) /\ cur.dir \notin in
        /\ Return(c, FALSE) /\ UNCHANGED <<cur, key, keys>>
     \/ Fails(c) /\ Return(c, FALSE) /\ UNCHANGED <<cur, key, keys>>
  /\ UNCHANGED <<cancelled, taken, raced, dirVars, in, process, fetches, revokes, late, stuck>>

(* A mutant of Another: one attempt too few.                                *)
AnotherButLast(c) == attempt[c] < Attempts - 1
Another(c) == attempt[c] < Attempts

(* The loop of attempts: the sleep before the first one cannot be           *)
(* interrupted, there is none.                                              *)
Sleep(c) ==
  /\ Running /\ pc[c] = "sleep"
  /\ \/ /\ Another(c) /\ (attempt[c] > 0 => c \notin cancelled)
        /\ attempt' = [attempt EXCEPT ![c] = @ + 1]
        /\ Goto(c, "get")
        /\ UNCHANGED <<mu, failed, cause>>
     \/ /\ attempt[c] > 0 /\ c \in cancelled
        /\ Return(c, FALSE)
        /\ cause' = [cause EXCEPT ![c] = TRUE]
     \/ /\ ~ Another(c)
        /\ Return(c, FALSE) /\ UNCHANGED cause
  /\ UNCHANGED <<cancelled, taken, raced, cur, dirVars, cliVars, process, countVars, late, stuck>>

(* bwGetItem: an authentication error drops the token and authenticates     *)
(* again, any other error ends the fetch.                                   *)
Get(c) ==
  /\ Running /\ pc[c] = "get"
  /\ \/ /\ Works(c) /\ cur.dir \in in /\ cur.token = key /\ key # 0
        /\ Return(c, TRUE) /\ UNCHANGED cur
     \/ /\ Works(c) /\ (cur.dir \notin in \/ cur.token # key \/ key = 0)
        /\ cur' = [cur EXCEPT !.token = 0]
        /\ Goto(c, "ensure")
        /\ UNCHANGED <<mu, attempt, failed>>
     \/ Fails(c) /\ Return(c, FALSE) /\ UNCHANGED cur
  /\ UNCHANGED <<cancelled, taken, raced, dirVars, cliVars, process, fetches, revokes, late, stuck>>
-----------------------------------------------------------------------------
(* The vault is locked or logged out by somebody else.                      *)
Revoke ==
  /\ Running /\ revokes < MaxRevokes
  /\ key' = 0 /\ in' \in {in, {}} /\ <<key', in'>> # <<key, in>>
  /\ revokes' = revokes + 1
  /\ taken' = [c \in Callers |-> IF c = mu /\ key # 0 THEN taken[c] + 1 ELSE taken[c]]
  /\ raced' = [c \in Callers |-> raced[c] \/ (c = mu /\ pc[c] = "unlock" /\ in' # in)]
  /\ UNCHANGED <<mu, pc, attempt, cancelled, cause, failed, cur, dirVars, keys, process,
                 fetches, faults, late, stuck>>

(* Run returns and its deferred cleanup waits for the mutex.                *)
RunReturns ==
  /\ process = "up"
  /\ process' = "stopping"
  /\ UNCHANGED <<mu, callVars, cur, dirVars, cliVars, countVars, late, stuck>>

(* CleanupBWSession: log out, remove the directory, forget the session;     *)
(* errors are ignored.                                                      *)
CleanupBWSession ==
  /\ process = "stopping" /\ mu = "free"
  /\ process' = "cleaned"
  /\ in' \in {in, in \ {cur.dir}} /\ key' = 0
  /\ \/ dirs' = dirs \ {cur.dir} /\ UNCHANGED <<stuck, faults>>
     \/ /\ cur.dir # 0 /\ faults < MaxFaults
        /\ faults' = faults + 1 /\ stuck' = {cur.dir} /\ UNCHANGED dirs
  /\ cur' = NoSession
  /\ UNCHANGED <<mu, callVars, made, keys, fetches, revokes, late>>

(* The process ends, whatever its goroutines are doing.                     *)
ProcessExits ==
  /\ process = "cleaned"
  /\ process' = "exited"
  /\ UNCHANGED <<mu, callVars, cur, dirVars, cliVars, countVars, late, stuck>>

FetchStep(c) ==
  Lock(c) \/ Ensure(c) \/ Status(c) \/ Login(c) \/ Unlock(c) \/ Sleep(c) \/ Get(c)

Next ==
  \/ \E c \in Callers : Fetch(c) \/ Cancel(c) \/ FetchStep(c)
  \/ Revoke \/ RunReturns \/ CleanupBWSession \/ ProcessExits

Spec == Init /\ [][Next]_vars

(* Commands end, at the latest at their timeout, sleeps end, and a mutex    *)
(* that stays free is obtained.                                             *)
Fairness ==
  /\ \A c \in Callers : WF_vars(FetchStep(c))
  /\ WF_vars(CleanupBWSession)

FairSpec == Spec /\ Fairness
-----------------------------------------------------------------------------
FlagsOK ==
  /\ cause \in [Callers -> BOOLEAN] /\ raced \in [Callers -> BOOLEAN]
  /\ failed \in [Callers -> BOOLEAN] /\ late \in BOOLEAN

(* Every variable keeps its type.                                           *)
TypeOK ==
  /\ FlagsOK
  /\ mu \in Callers \union {"free"}
  /\ pc \in [Callers -> {"idle", "lock", "ensure", "status", "login", "unlock", "sleep", "get"}]
  /\ attempt \in [Callers -> 0 .. Attempts]
  /\ cur \in [dir : 0 .. made, token : 0 .. keys]
  /\ made \in Nat /\ dirs \subseteq 1 .. made /\ in \subseteq 1 .. made
  /\ keys \in Nat /\ key \in 0 .. keys
  /\ process \in {"up", "stopping", "cleaned", "exited"}
  /\ cancelled \subseteq Callers
  /\ taken \in [Callers -> Nat] /\ stuck \subseteq dirs
  /\ fetches \in 0 .. MaxFetches /\ faults \in 0 .. MaxFaults /\ revokes \in 0 .. MaxRevokes

(* There is one data directory at most, the one in use: a failed log-in,    *)
(* a dropped token or a new authentication makes no other, and the cleanup  *)
(* removes it.  What remains after the daemon could not be removed, or was  *)
(* made by a fetch that got the mutex after the cleanup.                    *)
OneDataDir ==
  /\ dirs \subseteq {cur.dir} \union stuck
  /\ process \in {"cleaned", "exited"} => dirs = stuck \/ late

(* A fetch recovers from sessions taken away under it: it fails only if one *)
(* of its commands failed, its context ended, the session was taken away as *)
(* often as there are attempts, or the vault was logged out between the     *)
(* check of the status and the unlock.                                      *)
FailsForCause ==
  \A c \in Callers : failed[c] => cause[c] \/ raced[c] \/ taken[c] >= Attempts

(* Every fetch returns, and the cleanup gets the mutex, whatever the CLI    *)
(* does and on every error path.                                            *)
FetchesReturn ==
  /\ \A c \in Callers : []<>(pc[c] = "idle" \/ ~ Running)
  /\ []<>(process # "stopping")
=============================================================================
