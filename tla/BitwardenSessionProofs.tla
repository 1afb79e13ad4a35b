------------------------ MODULE BitwardenSessionProofs ------------------------
(* Proofs about BitwardenSession, for any number of callers and attempts and *)
(* any number of faults and of sessions taken away.                          *)
EXTENDS BitwardenSession, TLAPS

(* Where a fetch holds bwMutex, and where it has a session.                 *)
InSession == {"status", "login", "unlock", "sleep", "get"}
Critical == InSession \union {"ensure"}

(* bwMutex excludes: exactly its holder is past Lock.                       *)
MutexOK == \A c \in Callers : pc[c] \in Critical <=> mu = c

(* The data directory: the one of the session exists, no other one that     *)
(* could be removed does, and after the cleanup only a late fetch makes one.*)
DirsOK ==
  /\ HasSession => cur.dir \in dirs
  /\ dirs \subseteq {cur.dir} \union stuck
  /\ process \in {"up", "stopping"} => stuck = {}
  /\ \A c \in Callers : pc[c] \in InSession => HasSession
  /\ process \in {"cleaned", "exited"} =>
       /\ dirs = stuck \/ late
       /\ \A c \in Callers : pc[c] \in Critical => late

(* The CLI accepts the token.                                               *)
Valid == cur.dir \in in /\ cur.token = key /\ key # 0

(* The attempts a fetch has used up are sessions taken away under it, unless *)
(* a command of it has failed.                                              *)
AttemptsFor(c) ==
  /\ pc[c] \in {"idle", "lock"} => attempt[c] = 0
  /\ pc[c] \in {"ensure", "status", "login", "unlock"} => cause[c] \/ taken[c] >= attempt[c]
  /\ pc[c] = "login" => cause[c] \/ cur.dir \notin in
  /\ pc[c] = "unlock" => cause[c] \/ raced[c] \/ cur.dir \in in
  /\ pc[c] = "sleep" =>
       cause[c] \/ taken[c] >= attempt[c] + 1 \/ (Valid /\ taken[c] >= attempt[c])
  /\ pc[c] = "get" =>
       cause[c] \/ taken[c] >= attempt[c] \/ (Valid /\ taken[c] >= attempt[c] - 1)
AttemptsOK == \A c \in Callers : AttemptsFor(c)

FailsFor(c) == failed[c] => cause[c] \/ raced[c] \/ taken[c] >= Attempts

IInv == TypeOK /\ MutexOK /\ DirsOK /\ AttemptsOK /\ FailsForCause

USE AttemptsAssumption, CallersAssumption, BoundAssumption

LEMMA InitIInv == Init => IInv
<1> SUFFICES ASSUME Init PROVE IInv
  OBVIOUS
<1>1. FlagsOK
  BY Zenon DEF Init, FlagsOK
<1>2. TypeOK
  BY <1>1 DEF Init, TypeOK, NoSession
<1>3. MutexOK /\ DirsOK
  BY DEF Init, MutexOK, DirsOK, Critical, InSession, NoSession, HasSession
<1>4. AttemptsOK
  BY DEF Init, AttemptsOK, AttemptsFor
<1>5. FailsForCause
  BY Zenon DEF Init, FailsForCause
<1> QED
  BY <1>2, <1>3, <1>4, <1>5 DEF IInv

(* Flags stay flags.                                                        *)
LEMMA FlagsKeep == ASSUME FlagsOK, [Next]_vars PROVE FlagsOK'
<1> USE DEF FlagsOK, vars, callVars
<1>1. ASSUME NEW c \in Callers, Fetch(c) \/ Cancel(c) \/ Lock(c) PROVE FlagsOK'
  BY <1>1, Zenon DEF Fetch, Cancel, Lock
<1>2. ASSUME NEW c \in Callers, Ensure(c) \/ Status(c) PROVE FlagsOK'
  BY <1>2, Zenon DEF Ensure, Status, Fails, Works, Return
<1>3. ASSUME NEW c \in Callers, Login(c) \/ Unlock(c) PROVE FlagsOK'
  BY <1>3, Zenon DEF Login, Unlock, Fails, Works, Return
<1>4. ASSUME NEW c \in Callers, Sleep(c) \/ Get(c) PROVE FlagsOK'
  BY <1>4, Zenon DEF Sleep, Get, Fails, Works, Return
<1>5. CASE Revoke
  BY <1>5, Zenon DEF Revoke
<1>6. CASE RunReturns \/ CleanupBWSession \/ ProcessExits \/ UNCHANGED vars
  BY <1>6, Zenon DEF RunReturns, CleanupBWSession, ProcessExits
<1> QED
  BY <1>1, <1>2, <1>3, <1>4, <1>5, <1>6 DEF Next, FetchStep

(* Types, action by action.                                                 *)
LEMMA TypeOfSteps ==
  ASSUME TypeOK, MutexOK, DirsOK, FlagsOK', [Next]_vars PROVE TypeOK'
<1> USE DEF TypeOK, vars, callVars, cliVars, dirVars, countVars, Goto
<1>1. ASSUME NEW c \in Callers, Fetch(c) PROVE TypeOK'
  BY <1>1 DEF Fetch
<1>2. ASSUME NEW c \in Callers, Cancel(c) PROVE TypeOK'
  BY <1>2 DEF Cancel
<1>3. ASSUME NEW c \in Callers, Lock(c) PROVE TypeOK'
  BY <1>3 DEF Lock
<1>4. ASSUME NEW c \in Callers, Ensure(c) PROVE TypeOK'
  <2>0. UNCHANGED <<cancelled, taken, cliVars, process, fetches, revokes, stuck>>
    BY <1>4 DEF Ensure
  <2>1. CASE HasSession
    BY <1>4, <2>0, <2>1 DEF Ensure
  <2>2. CASE Return(c, FALSE) /\ Fails(c) /\ UNCHANGED <<cur, dirVars>>
    BY <2>0, <2>2 DEF Fails, Return, Release
  <2>3. CASE /\ made' = made + 1 /\ dirs' = dirs \union {made + 1}
             /\ cur' = [dir |-> made + 1, token |-> 0]
             /\ Goto(c, "status") /\ UNCHANGED <<mu, attempt, faults>>
    <3>1. cur' \in [dir : 0 .. made', token : 0 .. keys'] /\ dirs' \subseteq 1 .. made' /\ made' \in Nat
          /\ in' \subseteq 1 .. made' /\ stuck' \subseteq dirs'
      BY <2>0, <2>3
    <3> QED
      BY <2>0, <2>3, <3>1
  <2> QED
    BY <1>4, <2>1, <2>2, <2>3 DEF Ensure
<1>5. ASSUME NEW c \in Callers, Status(c) PROVE TypeOK'
  BY <1>5 DEF Status, Fails, Works, Return, Release
<1>6. ASSUME NEW c \in Callers, Login(c) PROVE TypeOK'
  <2>1. in' \subseteq 1 .. made
    <3>1. cur.dir \in 1 .. made
      BY <1>6 DEF Login, DirsOK, InSession, HasSession
    <3> QED
      BY <1>6, <3>1 DEF Login
  <2> QED
    BY <1>6, <2>1 DEF Login, Fails, Works, Return, Release
<1>7. ASSUME NEW c \in Callers, Unlock(c) PROVE TypeOK'
  BY <1>7 DEF Unlock, Fails, Works, Return, Release
<1>8. ASSUME NEW c \in Callers, Sleep(c) PROVE TypeOK'
  BY <1>8 DEF Sleep, Return, Release, Another
<1>9. ASSUME NEW c \in Callers, Get(c) PROVE TypeOK'
  BY <1>9 DEF Get, Fails, Works, Return, Release
<1>10. CASE Revoke
  BY <1>10 DEF Revoke
<1>11. CASE RunReturns \/ ProcessExits \/ UNCHANGED vars
  BY <1>11 DEF RunReturns, ProcessExits
<1>12. CASE CleanupBWSession
  <2>1. /\ in' \subseteq 1 .. made /\ key' \in 0 .. keys /\ faults' \in 0 .. MaxFaults
        /\ dirs' \subseteq 1 .. made /\ stuck' \subseteq dirs'
    <3>1. in' \subseteq 1 .. made /\ key' \in 0 .. keys
      BY <1>12 DEF CleanupBWSession
    <3>2. stuck = {} /\ (cur.dir # 0 => cur.dir \in dirs)
      BY <1>12 DEF CleanupBWSession, DirsOK, HasSession
    <3>3. faults' \in 0 .. MaxFaults /\ dirs' \subseteq dirs /\ stuck' \subseteq dirs'
      BY <1>12, <3>2 DEF CleanupBWSession
    <3> QED
      BY <3>1, <3>3
  <2>2. cur' \in [dir : 0 .. made, token : 0 .. keys]
    BY <1>12 DEF CleanupBWSession, NoSession
  <2> QED
    BY <1>12, <2>1, <2>2 DEF CleanupBWSession
<1> QED
  BY <1>1, <1>2, <1>3, <1>4, <1>5, <1>6, <1>7, <1>8, <1>9, <1>10, <1>11, <1>12 DEF Next, FetchStep

(* The mutex is taken by Lock and given back by every return.               *)
LEMMA MutexKeeps ==
  ASSUME TypeOK, MutexOK, [Next]_vars PROVE MutexOK'
<1> USE DEF TypeOK, MutexOK, Critical, InSession, Goto, vars, callVars
<1>1. ASSUME NEW c \in Callers, Fetch(c) \/ Cancel(c) \/ Lock(c) PROVE MutexOK'
  BY <1>1 DEF Fetch, Cancel, Lock
<1>2. ASSUME NEW c \in Callers, Ensure(c) \/ Status(c) PROVE MutexOK'
  BY <1>2 DEF Ensure, Status, Return, Release
<1>3. ASSUME NEW c \in Callers, Login(c) \/ Unlock(c) PROVE MutexOK'
  BY <1>3 DEF Login, Unlock, Return, Release
<1>4. ASSUME NEW c \in Callers, Sleep(c) \/ Get(c) PROVE MutexOK'
  BY <1>4 DEF Sleep, Get, Return, Release
<1>5. CASE Revoke \/ RunReturns \/ CleanupBWSession \/ ProcessExits \/ UNCHANGED vars
  BY <1>5 DEF Revoke, RunReturns, CleanupBWSession, ProcessExits
<1> QED
  BY <1>1, <1>2, <1>3, <1>4, <1>5 DEF Next, FetchStep

(* Steps that neither touch the session nor change who holds the mutex.     *)
LEMMA DirsUnchanged ==
  ASSUME DirsOK, UNCHANGED <<pc, cur, dirs, process, late, stuck>> PROVE DirsOK'
BY DEF DirsOK, HasSession

(* One data directory at most, and the cleanup leaves none of its own.      *)
LEMMA DirsKeep ==
  ASSUME TypeOK, MutexOK, DirsOK, [Next]_vars PROVE DirsOK'
<1> USE DEF TypeOK, MutexOK, Critical, InSession, Goto, HasSession, callVars, dirVars
<1>1. ASSUME NEW c \in Callers, Fetch(c) PROVE DirsOK'
  BY <1>1 DEF Fetch, DirsOK
<1>2. ASSUME NEW c \in Callers, Lock(c) PROVE DirsOK'
  <2>1. /\ pc' = [pc EXCEPT ![c] = "ensure"] /\ UNCHANGED <<cur, dirs, process, stuck>>
        /\ (late => late') /\ (process = "cleaned" => late')
        /\ process # "exited"
    BY <1>2, Zenon DEF Lock, Running
  <2>2. \A d \in Callers : d # c => pc'[d] = pc[d]
    BY <2>1
  <2> QED
    BY <2>1, <2>2 DEF DirsOK
<1>3. ASSUME NEW c \in Callers, Ensure(c) PROVE DirsOK'
  <2>0. UNCHANGED <<process, stuck, late>> /\ pc[c] = "ensure" /\ process # "exited"
    BY <1>3 DEF Ensure, Running
  <2>1. CASE cur.dir # 0
    <3>1. pc' = [pc EXCEPT ![c] = "status"] /\ UNCHANGED <<cur, dirs>>
      BY <1>3, <2>1 DEF Ensure
    <3> QED
      BY <2>0, <2>1, <3>1 DEF DirsOK
  <2>2. CASE cur.dir = 0 /\ UNCHANGED <<cur, dirVars>> /\ pc' = [pc EXCEPT ![c] = "idle"]
    BY <2>0, <2>2 DEF DirsOK
  <2>3. CASE /\ cur.dir = 0 /\ dirs' = dirs \union {made + 1} /\ pc' = [pc EXCEPT ![c] = "status"]
             /\ cur' = [dir |-> made + 1, token |-> 0]
    <3>1. dirs \subseteq stuck
      BY <2>3 DEF DirsOK
    <3>2. cur'.dir = made + 1 /\ made + 1 # 0
      BY <2>3
    <3>3. process = "cleaned" => late
      BY <2>0 DEF DirsOK
    <3> QED
      BY <2>0, <2>3, <3>1, <3>2, <3>3 DEF DirsOK
  <2> QED
    BY <1>3, <2>1, <2>2, <2>3 DEF Ensure, Return
<1>4. ASSUME NEW c \in Callers, UNCHANGED <<dirs, process, late, stuck>>, cur'.dir = cur.dir,
             pc[c] \in InSession,
             \E l \in Critical \union {"idle"} : pc' = [pc EXCEPT ![c] = l]
      PROVE  DirsOK'
  BY <1>4 DEF DirsOK
<1>5. ASSUME NEW c \in Callers, Status(c) \/ Login(c) PROVE DirsOK'
  BY <1>4, <1>5 DEF Status, Login, Return
<1>6. ASSUME NEW c \in Callers, Unlock(c) PROVE DirsOK'
  <2>1. cur'.dir = cur.dir
    BY <1>6 DEF Unlock
  <2> QED
    BY <1>4, <1>6, <2>1 DEF Unlock, Return
<1>7. ASSUME NEW c \in Callers, Sleep(c) \/ Get(c) PROVE DirsOK'
  <2>1. cur'.dir = cur.dir
    BY <1>7 DEF Sleep, Get
  <2> QED
    BY <1>4, <1>7, <2>1 DEF Sleep, Get, Return
<1>8. CASE CleanupBWSession
  <2>1. \A c \in Callers : pc[c] \notin Critical
    BY <1>8 DEF CleanupBWSession
  <2>2. dirs \subseteq {cur.dir} /\ stuck = {} /\ (cur.dir # 0 => cur.dir \in dirs)
    BY <1>8 DEF CleanupBWSession, DirsOK
  <2>3. cur'.dir = 0 /\ process' = "cleaned" /\ dirs' = stuck'
    <3>1. dirs' = stuck'
      <4>1. CASE dirs' = dirs \ {cur.dir} /\ stuck' = stuck
        <5>1. dirs \ {cur.dir} = {}
          BY <2>2
        <5> QED
          BY <2>2, <4>1, <5>1
      <4>2. CASE cur.dir # 0 /\ stuck' = {cur.dir} /\ dirs' = dirs
        <5>1. dirs \subseteq {cur.dir} /\ cur.dir \in dirs
          BY <2>2, <4>2
        <5>2. dirs = {cur.dir}
          BY <5>1
        <5> QED
          BY <4>2, <5>2
      <4> QED
        BY <1>8, <4>1, <4>2 DEF CleanupBWSession
    <3> QED
      BY <1>8, <3>1 DEF CleanupBWSession, NoSession
  <2> QED
    BY <1>8, <2>1, <2>3 DEF CleanupBWSession, DirsOK
<1>9. CASE RunReturns \/ ProcessExits
  BY <1>9 DEF RunReturns, ProcessExits, DirsOK
<1>10. CASE Revoke \/ UNCHANGED vars \/ \E c \in Callers : Cancel(c)
  BY <1>10, DirsUnchanged DEF Revoke, Cancel, vars
<1> QED
  BY <1>1, <1>2, <1>3, <1>5, <1>6, <1>7, <1>8, <1>9, <1>10 DEF Next, FetchStep

(* A step of the fetch that holds the mutex concerns no other fetch.        *)
LEMMA OnlyHolder ==
  ASSUME MutexOK, AttemptsOK, FailsForCause, NEW c \in Callers, mu = c,
         \A d \in Callers \ {c} :
           /\ pc'[d] = pc[d] /\ attempt'[d] = attempt[d] /\ taken'[d] = taken[d]
           /\ cause'[d] = cause[d] /\ raced'[d] = raced[d] /\ failed'[d] = failed[d],
         AttemptsFor(c)', FailsFor(c)'
  PROVE  AttemptsOK' /\ FailsForCause'
<1>1. ASSUME NEW d \in Callers \ {c} PROVE AttemptsFor(d)'
  <2>1. pc[d] \notin Critical
    BY DEF MutexOK
  <2> QED
    BY <2>1 DEF AttemptsOK, AttemptsFor, Critical, InSession
<1>2. ASSUME NEW d \in Callers \ {c} PROVE FailsFor(d)'
  BY DEF FailsForCause, FailsFor
<1> QED
  BY <1>1, <1>2 DEF AttemptsOK, FailsForCause, FailsFor

(* A command that fails, or a context that ended, is a cause.               *)
LEMMA CauseSet ==
  ASSUME FlagsOK, NEW c \in Callers, cause' = [cause EXCEPT ![c] = TRUE]
  PROVE  cause'[c] /\ \A d \in Callers \ {c} : cause'[d] = cause[d]
BY DEF FlagsOK

LEMMA ReturnedFor ==
  ASSUME TypeOK, NEW c \in Callers, NEW ok \in BOOLEAN, Return(c, ok)
  PROVE  /\ pc'[c] = "idle" /\ attempt'[c] = 0 /\ (ok => ~ failed'[c])
         /\ \A d \in Callers \ {c} :
              pc'[d] = pc[d] /\ attempt'[d] = attempt[d] /\ failed'[d] = failed[d]
BY DEF Return, Goto, TypeOK, FlagsOK

(* A failed command ends the fetch with its cause on record.                *)
LEMMA FailureHasCause ==
  ASSUME TypeOK, MutexOK, AttemptsOK, FailsForCause, NEW c \in Callers, mu = c,
         Return(c, FALSE), cause' = [cause EXCEPT ![c] = TRUE], UNCHANGED <<taken, raced>>
  PROVE  AttemptsOK' /\ FailsForCause'
<1>1. cause'[c] /\ \A d \in Callers \ {c} : cause'[d] = cause[d]
  BY CauseSet DEF TypeOK
<1>2. /\ pc'[c] = "idle" /\ attempt'[c] = 0
      /\ \A d \in Callers \ {c} :
           pc'[d] = pc[d] /\ attempt'[d] = attempt[d] /\ failed'[d] = failed[d]
  BY ReturnedFor
<1>3. AttemptsFor(c)' /\ FailsFor(c)'
  BY <1>1, <1>2 DEF AttemptsFor, FailsFor
<1> QED
  BY <1>1, <1>2, <1>3, OnlyHolder

(* A fetch that returns without a failed command: it succeeded, or lost its *)
(* session too often.                                                       *)
LEMMA ReturnHasCause ==
  ASSUME TypeOK, MutexOK, AttemptsOK, FailsForCause, NEW c \in Callers, mu = c, NEW ok \in BOOLEAN,
         Return(c, ok), UNCHANGED <<cause, taken, raced>>,
         ok \/ cause[c] \/ raced[c] \/ taken[c] >= Attempts
  PROVE  AttemptsOK' /\ FailsForCause'
<1>2. /\ pc'[c] = "idle" /\ attempt'[c] = 0 /\ (ok => ~ failed'[c])
      /\ \A d \in Callers \ {c} :
           pc'[d] = pc[d] /\ attempt'[d] = attempt[d] /\ failed'[d] = failed[d]
  BY ReturnedFor
<1>3. AttemptsFor(c)' /\ FailsFor(c)'
  BY <1>2 DEF AttemptsFor, FailsFor
<1> QED
  BY <1>2, <1>3, OnlyHolder

(* The fetch goes on to l.                                                  *)
LEMMA GoesOn ==
  ASSUME TypeOK, MutexOK, AttemptsOK, FailsForCause, NEW c \in Callers, mu = c,
         UNCHANGED <<taken, raced, failed>>,
         \A d \in Callers \ {c} :
           pc'[d] = pc[d] /\ attempt'[d] = attempt[d] /\ cause'[d] = cause[d],
         cause[c] => cause'[c], AttemptsFor(c)'
  PROVE  AttemptsOK' /\ FailsForCause'
<1>1. FailsFor(c)'
  BY DEF FailsForCause, FailsFor
<1> QED
  BY <1>1, OnlyHolder

LEMMA EnsureAttempts ==
  ASSUME IInv, NEW c \in Callers, Ensure(c) PROVE AttemptsOK' /\ FailsForCause'
<1>0. pc[c] = "ensure" /\ mu = c /\ UNCHANGED <<taken, raced>>
      /\ (cause[c] \/ taken[c] >= attempt[c])
  BY DEF Ensure, IInv, MutexOK, Critical, AttemptsOK, AttemptsFor
<1>1. CASE Goto(c, "status") /\ UNCHANGED <<attempt, failed, cause>>
  <2>1. pc' = [pc EXCEPT ![c] = "status"]
    BY <1>1 DEF Goto
  <2>2. AttemptsFor(c)'
    BY <1>0, <1>1, <2>1 DEF AttemptsFor, IInv, TypeOK
  <2> QED
    BY <1>0, <1>1, <2>1, <2>2, GoesOn DEF IInv, TypeOK
<1>2. CASE Fails(c) /\ Return(c, FALSE)
  BY <1>0, <1>2, FailureHasCause DEF Fails, IInv
<1> QED
  BY <1>1, <1>2 DEF Ensure

LEMMA StatusAttempts ==
  ASSUME IInv, NEW c \in Callers, Status(c) PROVE AttemptsOK' /\ FailsForCause'
<1>0. pc[c] = "status" /\ mu = c /\ UNCHANGED <<taken, raced, cur, in>>
      /\ (cause[c] \/ taken[c] >= attempt[c])
  BY DEF Status, IInv, MutexOK, Critical, InSession, AttemptsOK, AttemptsFor, cliVars
<1>1. CASE /\ Works(c) /\ Goto(c, IF cur.dir \in in THEN "unlock" ELSE "login")
           /\ UNCHANGED <<mu, attempt, failed>>
  <2>1. pc' = [pc EXCEPT ![c] = IF cur.dir \in in THEN "unlock" ELSE "login"] /\ UNCHANGED cause
    BY <1>1 DEF Goto, Works
  <2>2. AttemptsFor(c)'
    BY <1>0, <1>1, <2>1 DEF AttemptsFor, IInv, TypeOK
  <2> QED
    BY <1>0, <1>1, <2>1, <2>2, GoesOn DEF IInv, TypeOK
<1>2. CASE Fails(c) /\ (Goto(c, "login") \/ Goto(c, "sleep")) /\ UNCHANGED <<attempt, failed>>
  <2>1. cause'[c] /\ \A d \in Callers \ {c} : cause'[d] = cause[d]
    BY <1>2, CauseSet DEF Fails, IInv, TypeOK
  <2>2. pc'[c] \in {"login", "sleep"} /\ \A d \in Callers \ {c} : pc'[d] = pc[d]
    BY <1>2 DEF Goto, IInv, TypeOK
  <2>3. AttemptsFor(c)'
    BY <2>1, <2>2 DEF AttemptsFor
  <2> QED
    BY <1>0, <1>2, <2>1, <2>2, <2>3, GoesOn DEF IInv
<1>3. CASE Fails(c) /\ Return(c, FALSE)
  BY <1>0, <1>3, FailureHasCause DEF Fails, IInv
<1> QED
  BY <1>1, <1>2, <1>3 DEF Status

(* A log-in that is refused was attempted because a check of the status     *)
(* failed.                                                                  *)
LEMMA LoginAttempts ==
  ASSUME IInv, NEW c \in Callers, Login(c) PROVE AttemptsOK' /\ FailsForCause'
<1>0. pc[c] = "login" /\ mu = c /\ UNCHANGED <<taken, raced, cur>>
      /\ (cause[c] \/ taken[c] >= attempt[c]) /\ (cause[c] \/ cur.dir \notin in)
  BY DEF Login, IInv, MutexOK, Critical, InSession, AttemptsOK, AttemptsFor
<1>1. CASE Works(c) /\ in' = in \union {cur.dir} /\ Goto(c, "unlock") /\ UNCHANGED <<attempt, failed>>
  <2>1. pc' = [pc EXCEPT ![c] = "unlock"] /\ UNCHANGED cause
    BY <1>1 DEF Goto, Works
  <2>2. AttemptsFor(c)'
    BY <1>0, <1>1, <2>1 DEF AttemptsFor, IInv, TypeOK
  <2> QED
    BY <1>0, <1>1, <2>1, <2>2, GoesOn DEF IInv, TypeOK
<1>2. CASE Works(c) /\ cur.dir \in in /\ Return(c, FALSE)
  BY <1>0, <1>2, ReturnHasCause DEF Works, IInv
<1>3. CASE Fails(c) /\ Return(c, FALSE)
  BY <1>0, <1>3, FailureHasCause DEF Fails, IInv
<1> QED
  BY <1>1, <1>2, <1>3 DEF Login

(* An unlock that is refused lost a race with a logout.                     *)
LEMMA UnlockAttempts ==
  ASSUME IInv, NEW c \in Callers, Unlock(c) PROVE AttemptsOK' /\ FailsForCause'
<1>0. pc[c] = "unlock" /\ mu = c /\ UNCHANGED <<taken, raced, in>>
      /\ (cause[c] \/ taken[c] >= attempt[c]) /\ (cause[c] \/ raced[c] \/ cur.dir \in in)
  BY DEF Unlock, IInv, MutexOK, Critical, InSession, AttemptsOK, AttemptsFor
<1>1. CASE /\ Works(c) /\ cur.dir \in in /\ key' = keys + 1 /\ cur' = [cur EXCEPT !.token = keys + 1]
           /\ Goto(c, "sleep") /\ UNCHANGED <<attempt, failed>>
  <2>1. pc' = [pc EXCEPT ![c] = "sleep"] /\ UNCHANGED cause
    BY <1>1 DEF Goto, Works
  <2>2. Valid'
    BY <1>0, <1>1 DEF Valid, IInv, TypeOK
  <2>3. AttemptsFor(c)'
    BY <1>0, <1>1, <2>1, <2>2 DEF AttemptsFor, IInv, TypeOK
  <2> QED
    BY <1>0, <1>1, <2>1, <2>3, GoesOn DEF IInv, TypeOK
<1>2. CASE Works(c) /\ cur.dir \notin in /\ Return(c, FALSE)
  BY <1>0, <1>2, ReturnHasCause DEF Works, IInv
<1>3. CASE Fails(c) /\ Return(c, FALSE)
  BY <1>0, <1>3, FailureHasCause DEF Fails, IInv
<1> QED
  BY <1>1, <1>2, <1>3 DEF Unlock

(* When no attempt is left, a session was taken away in each of them.       *)
LEMMA SleepAttempts ==
  ASSUME IInv, NEW c \in Callers, Sleep(c) PROVE AttemptsOK' /\ FailsForCause'
<1>0. pc[c] = "sleep" /\ mu = c /\ UNCHANGED <<taken, raced, cur, in, key>>
      /\ (cause[c] \/ taken[c] >= attempt[c] + 1 \/ (Valid /\ taken[c] >= attempt[c]))
      /\ attempt[c] \in 0 .. Attempts /\ taken[c] \in Nat
  BY DEF Sleep, IInv, TypeOK, MutexOK, Critical, InSession, AttemptsOK, AttemptsFor, cliVars
<1>1. CASE /\ attempt' = [attempt EXCEPT ![c] = @ + 1] /\ Goto(c, "get")
           /\ UNCHANGED <<failed, cause>>
  <2>1. pc' = [pc EXCEPT ![c] = "get"] /\ attempt'[c] = attempt[c] + 1
    BY <1>1 DEF Goto, IInv, TypeOK
  <2>2. AttemptsFor(c)'
    BY <1>0, <1>1, <2>1 DEF AttemptsFor, Valid, IInv, TypeOK
  <2> QED
    BY <1>0, <1>1, <2>1, <2>2, GoesOn DEF IInv, TypeOK
<1>2. CASE Return(c, FALSE) /\ cause' = [cause EXCEPT ![c] = TRUE]
  BY <1>0, <1>2, FailureHasCause DEF IInv
<1>3. CASE ~ Another(c) /\ Return(c, FALSE) /\ UNCHANGED cause
  <2>1. cause[c] \/ taken[c] >= Attempts
    BY <1>0, <1>3 DEF Another
  <2> QED
    BY <1>0, <1>3, <2>1, ReturnHasCause DEF IInv
<1> QED
  BY <1>1, <1>2, <1>3 DEF Sleep

(* An item is refused only because the session was taken away meanwhile.    *)
LEMMA GetAttempts ==
  ASSUME IInv, NEW c \in Callers, Get(c) PROVE AttemptsOK' /\ FailsForCause'
<1>0. pc[c] = "get" /\ mu = c /\ UNCHANGED <<taken, raced>>
      /\ (cause[c] \/ taken[c] >= attempt[c] \/ (Valid /\ taken[c] >= attempt[c] - 1))
  BY DEF Get, IInv, MutexOK, Critical, InSession, AttemptsOK, AttemptsFor
<1>1. CASE Works(c) /\ Return(c, TRUE)
  BY <1>0, <1>1, ReturnHasCause DEF Works, IInv
<1>2. CASE Works(c) /\ ~ Valid /\ Goto(c, "ensure") /\ UNCHANGED <<attempt, failed>>
  <2>1. pc' = [pc EXCEPT ![c] = "ensure"] /\ UNCHANGED cause
    BY <1>2 DEF Goto, Works
  <2>2. AttemptsFor(c)'
    BY <1>0, <1>2, <2>1 DEF AttemptsFor, IInv, TypeOK
  <2> QED
    BY <1>0, <1>2, <2>1, <2>2, GoesOn DEF IInv, TypeOK
<1>3. CASE Fails(c) /\ Return(c, FALSE)
  BY <1>0, <1>3, FailureHasCause DEF Fails, IInv
<1> QED
  BY <1>1, <1>2, <1>3 DEF Get, Valid

(* A session taken away under a valid token is counted for its holder.      *)
LEMMA RevokeAttempts == ASSUME IInv, Revoke PROVE AttemptsOK' /\ FailsForCause'
<1>1. /\ \A c \in Callers : raced[c] => raced'[c]
      /\ \A c \in Callers : c = mu /\ pc[c] = "unlock" /\ in' # in => raced'[c]
  BY Zenon DEF Revoke
<1>2. /\ \A c \in Callers : taken[c] \in Nat /\ taken'[c] \in Nat /\ taken'[c] >= taken[c]
      /\ \A c \in Callers : c = mu /\ key # 0 => taken'[c] = taken[c] + 1
  BY DEF Revoke, IInv, TypeOK
<1>3. in' \subseteq in /\ UNCHANGED <<pc, attempt, cause, failed, cur>>
  BY DEF Revoke
<1>4. ASSUME NEW c \in Callers PROVE FailsFor(c)'
  BY <1>1, <1>2, <1>3 DEF IInv, FailsForCause, FailsFor
<1>5. ASSUME NEW c \in Callers PROVE AttemptsFor(c)'
  <2>1. attempt[c] \in Nat /\ AttemptsFor(c)
    BY DEF IInv, TypeOK, AttemptsOK
  <2>2. CASE pc[c] \in Critical
    <3>1. mu = c
      BY <2>2 DEF IInv, MutexOK
    <3>2. Valid => taken'[c] = taken[c] + 1
      BY <1>2, <3>1 DEF Valid
    <3> QED
      BY <1>1, <1>2, <1>3, <2>1, <3>1, <3>2 DEF AttemptsFor
  <2>3. CASE pc[c] \notin Critical
    BY <1>3, <2>1, <2>3 DEF AttemptsFor, Critical, InSession
  <2> QED
    BY <2>2, <2>3
<1> QED
  BY <1>4, <1>5 DEF AttemptsOK, FailsForCause, FailsFor

(* Fetches begin, wait for the mutex and are cancelled without using an     *)
(* attempt; the cleanup finds nobody in a session.                          *)
LEMMA OutsideAttempts ==
  ASSUME IInv, \/ \E c \in Callers : Fetch(c) \/ Cancel(c) \/ Lock(c)
               \/ RunReturns \/ CleanupBWSession \/ ProcessExits \/ UNCHANGED vars
  PROVE  AttemptsOK' /\ FailsForCause'
<1>1. ASSUME UNCHANGED <<pc, attempt, cause, taken, raced, failed, cur, in, key>>
      PROVE  AttemptsOK' /\ FailsForCause'
  BY <1>1 DEF IInv, AttemptsOK, AttemptsFor, Valid, FailsForCause
<1>2. ASSUME NEW c \in Callers, Fetch(c) PROVE AttemptsOK' /\ FailsForCause'
  <2>1. /\ \A d \in Callers \ {c} :
             /\ pc'[d] = pc[d] /\ taken'[d] = taken[d]
             /\ cause'[d] = cause[d] /\ raced'[d] = raced[d] /\ failed'[d] = failed[d]
        /\ UNCHANGED <<attempt, cur, in, key>> /\ pc'[c] = "lock" /\ pc[c] = "idle" /\ ~ failed'[c]
    BY <1>2 DEF Fetch, Goto, IInv, TypeOK, FlagsOK, cliVars
  <2>2. AttemptsFor(c)' /\ FailsFor(c)'
    BY <2>1 DEF IInv, AttemptsOK, AttemptsFor, FailsFor
  <2>3. ASSUME NEW d \in Callers \ {c} PROVE AttemptsFor(d)' /\ FailsFor(d)'
    BY <2>1 DEF IInv, AttemptsOK, AttemptsFor, Valid, FailsFor, FailsForCause
  <2> QED
    BY <2>2, <2>3 DEF AttemptsOK, FailsForCause, FailsFor
<1>3. ASSUME NEW c \in Callers, Lock(c) PROVE AttemptsOK' /\ FailsForCause'
  <2>1. /\ pc' = [pc EXCEPT ![c] = "ensure"] /\ pc[c] = "lock"
        /\ UNCHANGED <<attempt, cause, taken, raced, failed, cur, in, key>>
    BY <1>3 DEF Lock, Goto, cliVars
  <2>2. AttemptsFor(c)' /\ FailsFor(c)'
    BY <2>1 DEF IInv, TypeOK, AttemptsOK, AttemptsFor, FailsFor, FailsForCause
  <2>3. ASSUME NEW d \in Callers \ {c} PROVE AttemptsFor(d)' /\ FailsFor(d)'
    BY <2>1 DEF IInv, TypeOK, AttemptsOK, AttemptsFor, Valid, FailsFor, FailsForCause
  <2> QED
    BY <2>2, <2>3 DEF AttemptsOK, FailsForCause, FailsFor
<1>4. CASE CleanupBWSession
  <2>1. UNCHANGED callVars /\ \A c \in Callers : pc[c] \notin Critical
    BY <1>4 DEF CleanupBWSession, IInv, MutexOK
  <2> QED
    BY <2>1 DEF IInv, AttemptsOK, AttemptsFor, FailsForCause, callVars, Critical, InSession
<1> QED
  BY <1>1, <1>2, <1>3, <1>4 DEF Cancel, RunReturns, ProcessExits, vars, callVars, cliVars

(* The inductive invariant of the shared session.                           *)
THEOREM Inductive == Spec => []IInv
<1>1. IInv /\ [Next]_vars => IInv'
  <2> SUFFICES ASSUME IInv, [Next]_vars PROVE IInv'
    OBVIOUS
  <2>1. TypeOK' /\ MutexOK' /\ DirsOK'
    BY FlagsKeep, TypeOfSteps, MutexKeeps, DirsKeep DEF IInv, TypeOK
  <2>2. AttemptsOK' /\ FailsForCause'
    BY EnsureAttempts, StatusAttempts, LoginAttempts, UnlockAttempts, SleepAttempts, GetAttempts,
       RevokeAttempts, OutsideAttempts DEF Next, FetchStep
  <2> QED
    BY <2>1, <2>2 DEF IInv
<1> QED
  BY <1>1, InitIInv, PTL DEF Spec

(* There is never a data directory besides the one in use that could have   *)
(* been removed, and after the cleanup only one that a late fetch made.     *)
THEOREM OneDirectory == Spec => []OneDataDir
<1>1. IInv => OneDataDir
  BY DEF IInv, DirsOK, OneDataDir
<1> QED
  BY <1>1, Inductive, PTL

(* A fetch fails only for a cause of its own: a failed command, the end of  *)
(* its context, a logout in the gap before the unlock, or a session taken   *)
(* away in every one of its attempts.                                       *)
THEOREM Recovers == Spec => []FailsForCause
BY Inductive, PTL DEF IInv
=============================================================================
