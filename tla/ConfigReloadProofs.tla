-------------------------- MODULE ConfigReloadProofs --------------------------
(* Proofs about ConfigReload, for any set of configuration files, any number *)
(* of connections, signals and file changes, and any steps that may fail.    *)
EXTENDS ConfigReload, FiniteSetTheorems, TLAPS

(* Where a reload holds cfgMu.                                              *)
Critical == {"proxy", "audit", "open", "commit"}

(* cfgMu excludes: exactly its holder is between Lock and Commit, and what  *)
(* a reload is about to apply is a file it has loaded.                      *)
MutexOK ==
  /\ \A th \in Threads : pc[th] \in Critical <=> mu = th
  /\ \A th \in Threads : pc[th] \in Critical \union {"lock"} => new[th] \in Files

ProxyIs(f) == proxy = IF f.listen = 0 THEN NoProxy ELSE StartProxy(f)
LoggerIs(f) == logger.dest = f.audit /\ logger.gen \notin closed

(* Before the daemon serves nothing runs; once it serves it has a           *)
(* configuration and a logger.                                              *)
BootOK ==
  /\ run = "boot" =>
       /\ closed = {} /\ proxy = NoProxy /\ ~ failed
       /\ \A th \in Threads : pc[th] = "off"
       /\ cfg # NoFile => cfg \in Files /\ settings = cfg /\ LoggerIs(cfg) /\ logger.gen >= 1
  /\ run = "serve" => cfg \in Files /\ logger.gen >= 1

(* How far a reload has brought the proxy, the logger and d.cfg.            *)
ForceOK ==
  run = "serve" /\ ~ failed =>
    /\ settings = cfg
    /\ mu = "free" => LoggerIs(cfg) /\ (pc["signal"] \notin {"close", "exited"} => ProxyIs(cfg))
    /\ \A th \in Threads :
         /\ pc[th] = "proxy" => ProxyIs(cfg) /\ LoggerIs(cfg)
         /\ pc[th] = "audit" => ProxyIs(new[th]) /\ LoggerIs(cfg)
         /\ pc[th] = "open" => ProxyIs(new[th])
         /\ pc[th] = "commit" => ProxyIs(new[th]) /\ LoggerIs(new[th])

(* Shutdown stops the proxy when the watcher can start no other.            *)
ShutdownOK ==
  /\ pc["signal"] \in {"stopProxy", "close", "exited"} => pc["watcher"] \in {"off", "exited"}
  /\ pc["signal"] \in {"close", "exited"} => proxy = NoProxy

(* Every connection in progress holds one slot of connSem; a client that is *)
(* being turned away is still counted as waiting.                           *)
Active == {h \in Handlers : hpc[h] # "idle"}
SlotsOK ==
  /\ IsFiniteSet(Active) /\ slots = Cardinality(Active)
  /\ acceptor = "busy" => waiting > 0
  /\ waiting <= calls

ReloadInv == MutexOK /\ BootOK /\ ForceOK /\ ShutdownOK
IInv == TypeOK /\ ReloadInv /\ SlotsOK

USE FileAssumption, BoundAssumption, SentinelAssumption
-----------------------------------------------------------------------------
LEMMA TheThreads == "signal" \in Threads /\ "watcher" \in Threads
BY DEF Threads

(* What may be in d.httpProxy.                                              *)
Proxies == [listen : Nat, routes : Nat, up : BOOLEAN]

LEMMA StartProxyType == ASSUME NEW f \in Files PROVE StartProxy(f) \in Proxies
<1>1. f.listen \in Nat /\ f.id \in Nat
  OBVIOUS
<1> QED
  BY <1>1 DEF StartProxy, Proxies

(* New routes in a running proxy make it the one that would be started.     *)
LEMMA Rerouted ==
  ASSUME NEW f, NEW x
  PROVE  [StartProxy(f) EXCEPT !.routes = x] = [listen |-> f.listen, routes |-> x, up |-> TRUE]
<1>1. ASSUME NEW z
      PROVE  [[listen |-> f.listen, routes |-> f.id, up |-> z] EXCEPT !.routes = x]
                = [listen |-> f.listen, routes |-> x, up |-> z]
  OBVIOUS
<1> QED
  BY <1>1, Zenon DEF StartProxy

(* The parts of the state that a step leaves alone keep their invariants.   *)

LEMMA ReloadUnchanged ==
  ASSUME ReloadInv, UNCHANGED <<run, confVars, mu, pc, new, failed>> PROVE ReloadInv'
BY DEF ReloadInv, MutexOK, BootOK, ForceOK, ShutdownOK, ProxyIs, LoggerIs, StartProxy, confVars

LEMMA SlotsUnchanged ==
  ASSUME SlotsOK, UNCHANGED callVars PROVE SlotsOK'
BY DEF SlotsOK, Active, callVars, acceptVars

(* Flags stay flags.                                                        *)
LEMMA FlagsKeep == ASSUME FlagsOK PROVE [Next]_vars => FlagsOK'
<1> USE DEF FlagsOK, vars, fileVars, confVars, sigVars, watchVars, callVars, acceptVars
<1>1. CASE UNCHANGED vars
  BY <1>1, Zenon
<1>2. CASE BootLoad
  BY <1>2, Zenon DEF BootLoad
<1>3. CASE BootFails
  BY <1>3, Zenon DEF BootFails
<1>4. CASE BootServe
  BY <1>4, Zenon DEF BootServe
<1>5. CASE SendHup
  BY <1>5, Zenon DEF SendHup
<1>6. CASE SendTerm
  BY <1>6, Zenon DEF SendTerm
<1>7. CASE TakeHup
  BY <1>7, Zenon DEF TakeHup
<1>8. CASE StopWatcher
  BY <1>8, Zenon DEF StopWatcher
<1>9. CASE JoinWatcher
  BY <1>9, Zenon DEF JoinWatcher
<1>10. CASE StopProxy
  BY <1>10, Zenon DEF StopProxy
<1>11. CASE CloseListener
  BY <1>11, Zenon DEF CloseListener
<1>12. CASE WatcherEvent
  BY <1>12, Zenon DEF WatcherEvent
<1>13. CASE WatcherFires
  BY <1>13, Zenon DEF WatcherFires
<1>14. CASE WatcherExits
  BY <1>14, Zenon DEF WatcherExits
<1>15. ASSUME NEW th \in Threads, Load(th) PROVE FlagsOK'
  BY <1>15, Zenon DEF Load
<1>16. ASSUME NEW th \in Threads, Lock(th) PROVE FlagsOK'
  BY <1>16, Zenon DEF Lock
<1>17. ASSUME NEW th \in Threads, CloseLogger(th) PROVE FlagsOK'
  BY <1>17, Zenon DEF CloseLogger, Proceed
<1>18. ASSUME NEW th \in Threads, SwitchProxy(th) PROVE FlagsOK'
  BY <1>18, Zenon DEF SwitchProxy, ProxyOff, ProxyOn, ProxyRestart, ProxyReload, ProxyStaysOff,
     Proceed, Abandon
<1>19. ASSUME NEW th \in Threads, OpenLogger(th) PROVE FlagsOK'
  BY <1>19, Zenon DEF OpenLogger, Proceed, Abandon
<1>20. ASSUME NEW th \in Threads, Commit(th) PROVE FlagsOK'
  BY <1>20, Zenon DEF Commit
<1>21. CASE Connect
  BY <1>21, Zenon DEF Connect
<1>22. CASE TurnAway
  BY <1>22, Zenon DEF TurnAway
<1>23. CASE SendBusy
  BY <1>23, Zenon DEF SendBusy
<1>24. CASE RunReturns
  BY <1>24, Zenon DEF RunReturns
<1>25. CASE Stopped
  BY <1>25, Zenon DEF Stopped
<1>26. ASSUME NEW h \in Handlers, Accept(h) PROVE FlagsOK'
  BY <1>26, Zenon DEF Accept
<1>27. ASSUME NEW h \in Handlers, Snapshot(h) PROVE FlagsOK'
  BY <1>27, Zenon DEF Snapshot
<1>28. ASSUME NEW h \in Handlers, Refuse(h) PROVE FlagsOK'
  BY <1>28, Zenon DEF Refuse, End
<1>29. ASSUME NEW h \in Handlers, Execute(h) PROVE FlagsOK'
  BY <1>29, Zenon DEF Execute
<1>30. ASSUME NEW h \in Handlers, Complete(h) PROVE FlagsOK'
  BY <1>30, Zenon DEF Complete, End
<1>31. ASSUME NEW f \in Files, WriteFile(f) PROVE FlagsOK'
  BY <1>31, Zenon DEF WriteFile
<1> QED
  BY <1>1, <1>2, <1>3, <1>4, <1>5, <1>6, <1>7, <1>8, <1>9, <1>10, <1>11, <1>12, <1>13, <1>14,
     <1>15, <1>16, <1>17, <1>18, <1>19, <1>20, <1>21, <1>22, <1>23, <1>24, <1>25, <1>26, <1>27,
     <1>28, <1>29, <1>30, <1>31 DEF Next, BootStep, SignalStep, WatcherStep, ReloadStep,
     AcceptStep, HandlerStep

LEMMA InitIInv == Init => IInv
<1> SUFFICES ASSUME Init PROVE IInv
  OBVIOUS
<1>0. FlagsOK
  BY Zenon DEF Init, FlagsOK
<1>1. TypeOK
  BY <1>0 DEF Init, TypeOK
<1>2. ReloadInv
  BY DEF Init, ReloadInv, MutexOK, BootOK, ForceOK, ShutdownOK, Threads, Critical
<1>3. Active = {}
  BY DEF Init, Active
<1>4. SlotsOK
  BY <1>3, FS_EmptySet DEF Init, SlotsOK
<1> QED
  BY <1>1, <1>2, <1>4 DEF IInv
-----------------------------------------------------------------------------
(* Start.                                                                   *)

LEMMA BootKeeps == ASSUME IInv, FlagsOK', BootStep PROVE IInv'
<1> USE DEF IInv
<1>1. TypeOK'
  <2>1. CASE BootLoad
    BY <2>1 DEF BootLoad, TypeOK, NextLogger, fileVars, sigVars, watchVars, callVars, acceptVars
  <2>2. CASE BootFails
    BY <2>2 DEF BootFails, TypeOK, fileVars, confVars, sigVars, watchVars, callVars, acceptVars
  <2>3. CASE BootServe
    <3>1. proxy' \in [listen : Nat, routes : Nat, up : BOOLEAN] \union {NoProxy}
      BY <2>3, StartProxyType DEF BootServe, TypeOK, Proxies
    <3>2. pc' \in [Threads -> {"off", "wait"}]
      BY <2>3, TheThreads DEF BootServe, BootOK, ReloadInv, TypeOK
    <3> QED
      BY <2>3, <3>1, <3>2 DEF BootServe, TypeOK, fileVars, sigVars, watchVars, callVars, acceptVars
  <2> QED
    BY <2>1, <2>2, <2>3 DEF BootStep
<1>2. SlotsOK'
  BY SlotsUnchanged DEF BootStep, BootLoad, BootFails, BootServe
<1>3. ReloadInv'
  <2> USE DEF ReloadInv
  <2>1. CASE BootLoad
    BY <2>1 DEF BootLoad, TypeOK, MutexOK, BootOK, ForceOK, ShutdownOK, LoggerIs, NextLogger
  <2>2. CASE BootFails
    BY <2>2 DEF BootFails, TypeOK, MutexOK, BootOK, ForceOK, ShutdownOK, confVars
  <2>3. CASE BootServe
    <3>1. \A th \in Threads : pc'[th] \in {"off", "wait"}
      BY <2>3 DEF BootServe, BootOK, TypeOK, Threads
    <3>2. \A th \in Threads : mu # th
      BY <2>3 DEF BootServe, BootOK, MutexOK, Critical
    <3>3. MutexOK' /\ ShutdownOK'
      BY <2>3, <3>1, <3>2 DEF BootServe, MutexOK, ShutdownOK, Critical, Threads
    <3>4. BootOK'
      BY <2>3 DEF BootServe, BootOK, TypeOK
    <3>5. ForceOK'
      BY <2>3, <3>1 DEF BootServe, ForceOK, BootOK, ProxyIs, LoggerIs, TypeOK, Threads
    <3> QED
      BY <3>3, <3>4, <3>5
  <2> QED
    BY <2>1, <2>2, <2>3 DEF BootStep
<1> QED
  BY <1>1, <1>2, <1>3
-----------------------------------------------------------------------------
(* Signals, the watcher, and the shutdown.                                  *)

LEMMA TypeOfSignals ==
  ASSUME TypeOK, FlagsOK',
         SendHup \/ SendTerm \/ SignalStep \/ WatcherEvent \/ WatcherStep
  PROVE  TypeOK'
<1> USE DEF TypeOK, fileVars, confVars, sigVars, watchVars, callVars, acceptVars
<1>0. "signal" \in Threads /\ "watcher" \in Threads
  BY TheThreads
<1>1. CASE SendHup
  BY <1>1 DEF SendHup
<1>5. CASE SendTerm
  BY <1>5 DEF SendTerm
<1>2. CASE TakeHup \/ StopWatcher \/ JoinWatcher
  BY <1>0, <1>2 DEF TakeHup, StopWatcher, JoinWatcher
<1>3. CASE StopProxy \/ CloseListener
  BY <1>0, <1>3 DEF StopProxy, CloseListener
<1>4. CASE WatcherEvent \/ WatcherStep
  BY <1>0, <1>4 DEF WatcherEvent, WatcherStep, WatcherFires, WatcherExits
<1> QED
  BY <1>1, <1>2, <1>3, <1>4, <1>5 DEF SignalStep

LEMMA SignalsKeep ==
  ASSUME IInv, FlagsOK', SendHup \/ SendTerm \/ SignalStep \/ WatcherEvent \/ WatcherStep
  PROVE  IInv'
<1>1. TypeOK'
  BY TypeOfSignals DEF IInv
<1>2. SlotsOK'
  BY SlotsUnchanged DEF IInv, SendHup, SendTerm, SignalStep, TakeHup, StopWatcher, JoinWatcher,
     StopProxy, CloseListener, WatcherEvent, WatcherStep, WatcherFires, WatcherExits
<1>3. ReloadInv'
  <2>1. CASE SendHup \/ SendTerm \/ WatcherEvent
    BY <2>1, ReloadUnchanged DEF IInv, SendHup, SendTerm, WatcherEvent
  <2> USE DEF IInv, ReloadInv, MutexOK, BootOK, ForceOK, ShutdownOK, ProxyIs, LoggerIs, TypeOK,
              Threads, Critical, StartProxy, confVars
  <2>2. CASE TakeHup \/ StopWatcher
    BY <2>2 DEF TakeHup, StopWatcher
  <2>3. CASE JoinWatcher
    BY <2>3 DEF JoinWatcher, Joined
  <2>4. CASE StopProxy
    BY <2>4 DEF StopProxy, LockFree
  <2>5. CASE CloseListener
    BY <2>5 DEF CloseListener
  <2>6. CASE WatcherStep
    BY <2>6 DEF WatcherStep, WatcherFires, WatcherExits
  <2> QED
    BY <2>1, <2>2, <2>3, <2>4, <2>5, <2>6 DEF SignalStep
<1> QED
  BY <1>1, <1>2, <1>3 DEF IInv
-----------------------------------------------------------------------------
(* A reload, step by step under the lock.                                   *)

LEMMA ReloadLeavesCalls ==
  ASSUME NEW th \in Threads, ReloadStep(th) PROVE UNCHANGED callVars
BY DEF ReloadStep, Load, Lock, SwitchProxy, CloseLogger, OpenLogger, Commit

LEMMA LoadKeeps ==
  ASSUME IInv, FlagsOK', NEW th \in Threads, Load(th) \/ Lock(th) PROVE TypeOK' /\ ReloadInv'
<1> USE DEF IInv, Load, Lock, LockFree
<1>1. TypeOK'
  <2> USE DEF TypeOK, fileVars, confVars, sigVars, watchVars, callVars, acceptVars
  <2>1. CASE Load(th)
    BY <2>1
  <2>2. CASE Lock(th)
    BY <2>2
  <2> QED
    BY <2>1, <2>2
<1>2. MutexOK'
  BY DEF ReloadInv, MutexOK, TypeOK, Threads, Critical
<1>3. BootOK' /\ ShutdownOK'
  BY DEF ReloadInv, BootOK, ShutdownOK, LoggerIs, TypeOK, Threads, Critical, confVars
<1>4. ForceOK'
  <2>1. CASE Load(th)
    BY <2>1 DEF ReloadInv, ForceOK, ProxyIs, LoggerIs, StartProxy, TypeOK, Threads, Critical,
       MutexOK, confVars
  <2>2. CASE Lock(th)
    <3>1. run = "serve" /\ ~ failed => LoggerIs(cfg) /\ ProxyIs(cfg)
      BY <2>2 DEF ReloadInv, ForceOK, ShutdownOK, Threads
    <3>2. \A t \in Threads \ {th} : pc'[t] = pc[t] /\ pc[t] \notin Critical
      BY <2>2 DEF ReloadInv, MutexOK, TypeOK, Threads
    <3> QED
      BY <2>2, <3>1, <3>2 DEF ReloadInv, ForceOK, ProxyIs, LoggerIs, StartProxy, TypeOK, Threads,
         Critical, confVars
  <2> QED
    BY <2>1, <2>2
<1> QED
  BY <1>1, <1>2, <1>3, <1>4 DEF ReloadInv

(* The switch of the proxy: afterwards it is as the new configuration says, *)
(* or the reload is abandoned.                                              *)
LEMMA SwitchOutcome ==
  ASSUME IInv, NEW th \in Threads, SwitchProxy(th)
  PROVE  /\ proxy' \in Proxies \union {NoProxy}
         /\ \/ Abandon(th)
            \/ Proceed(th, "audit") /\ (run = "serve" /\ ~ failed => (proxy' =
                 IF new[th].listen = 0 THEN NoProxy ELSE StartProxy(new[th])))
<1>0. new[th] \in Files /\ new[th].listen \in Nat /\ new[th].id \in Nat /\ proxy \in Proxies \union {NoProxy}
  BY DEF SwitchProxy, IInv, ReloadInv, MutexOK, TypeOK, Critical, Proxies
<1>1. CASE ProxyOff(th)
  BY <1>0, <1>1 DEF ProxyOff, Proxies
<1>2. CASE ProxyOn(th)
  BY <1>0, <1>2, StartProxyType DEF ProxyOn
<1>3. CASE ProxyRestart(th)
  <2>1. proxy' \in Proxies \union {NoProxy}
    BY <1>0, <1>3, StartProxyType DEF ProxyRestart, Proxies
  <2> QED
    BY <1>3, <2>1 DEF ProxyRestart
<1>4. CASE ProxyReload(th)
  <2>1. proxy' \in Proxies
    BY <1>0, <1>4 DEF ProxyReload, Proxies
  <2>2. run = "serve" /\ ~ failed => proxy = StartProxy(cfg)
    BY <1>4 DEF ProxyReload, SwitchProxy, IInv, ReloadInv, ForceOK, ProxyIs
  <2>3. run = "serve" /\ ~ failed => proxy' = StartProxy(new[th])
    <3> SUFFICES ASSUME run = "serve", ~ failed PROVE proxy' = StartProxy(new[th])
      OBVIOUS
    <3>1. proxy' = [StartProxy(cfg) EXCEPT !.routes = new[th].id] /\ cfg.listen = new[th].listen
      BY <1>4, <2>2 DEF ProxyReload, NeedsRestart
    <3>2. proxy' = [listen |-> cfg.listen, routes |-> new[th].id, up |-> TRUE]
      BY <3>1, Rerouted, Zenon
    <3> QED
      BY <3>1, <3>2, Zenon DEF StartProxy
  <2> QED
    BY <1>4, <2>1, <2>3 DEF ProxyReload
<1>5. CASE ProxyStaysOff(th)
  BY <1>5 DEF ProxyStaysOff
<1> QED
  BY <1>1, <1>2, <1>3, <1>4, <1>5 DEF SwitchProxy

(* A reload that gives up leaves the lock free and the failure on record.   *)
LEMMA AbandonKeeps ==
  ASSUME IInv, NEW th \in Threads, pc[th] \in Critical, Abandon(th),
         UNCHANGED <<run, cfg, settings, logger, closed>>
  PROVE  ReloadInv'
<1>1. /\ \A t \in Threads : pc'[t] = IF t = th THEN "wait" ELSE pc[t]
      /\ \A t \in Threads : new'[t] = IF t = th THEN NoFile ELSE new[t]
      /\ mu' = "free" /\ failed'
  BY DEF Abandon, IInv, TypeOK
<1>2. \A t \in Threads \ {th} : pc[t] \notin Critical
  BY DEF IInv, ReloadInv, MutexOK
<1>3. MutexOK'
  BY <1>1, <1>2 DEF IInv, ReloadInv, MutexOK, Critical, Threads
<1>4. BootOK'
  BY <1>1 DEF IInv, ReloadInv, BootOK, Critical, LoggerIs
<1>5. pc["signal"] \notin {"stopProxy", "close", "exited"}
  BY <1>2 DEF IInv, ReloadInv, ShutdownOK, Threads, Critical
<1>6. ShutdownOK' /\ ForceOK'
  BY <1>1, <1>5 DEF ShutdownOK, ForceOK, Threads
<1> QED
  BY <1>3, <1>4, <1>6 DEF ReloadInv

LEMMA SwitchKeeps ==
  ASSUME IInv, FlagsOK', NEW th \in Threads, SwitchProxy(th) PROVE TypeOK' /\ ReloadInv'
<1>0. UNCHANGED <<fileVars, run, cfg, settings, logger, closed, sigVars, watchVars, listening, callVars>>
      /\ pc[th] = "proxy"
  BY DEF SwitchProxy
<1>1. Abandon(th) \/ Proceed(th, "audit")
  BY SwitchOutcome
<1>2. TypeOK'
  BY <1>0, <1>1, SwitchOutcome DEF IInv, TypeOK, Abandon, Proceed, Proxies, fileVars, sigVars,
     watchVars, callVars, acceptVars
<1>3. ReloadInv'
  <2>1. CASE Abandon(th)
    BY <1>0, <2>1, AbandonKeeps DEF Critical
  <2>2. CASE ~ Abandon(th)
    <3>1. /\ \A t \in Threads : pc'[t] = IF t = th THEN "audit" ELSE pc[t]
          /\ UNCHANGED <<failed, mu, new>>
          /\ run = "serve" /\ ~ failed => (proxy' =
                 IF new[th].listen = 0 THEN NoProxy ELSE StartProxy(new[th]))
      BY <2>2, SwitchOutcome DEF Proceed, IInv, TypeOK
    <3>2. mu = th /\ \A t \in Threads \ {th} : pc[t] \notin Critical
      BY <1>0 DEF IInv, ReloadInv, MutexOK, Critical
    <3>3. pc["signal"] \notin {"stopProxy", "close", "exited"}
      BY <1>0, <3>2 DEF IInv, ReloadInv, ShutdownOK, Threads, Critical
    <3>4. MutexOK' /\ BootOK' /\ ShutdownOK'
      BY <1>0, <3>1, <3>2, <3>3 DEF IInv, ReloadInv, MutexOK, BootOK, ShutdownOK, LoggerIs,
         Threads, Critical
    <3>5. ForceOK'
      BY <1>0, <3>1, <3>2 DEF IInv, ReloadInv, ForceOK, ProxyIs, LoggerIs, StartProxy, Threads, Critical
    <3> QED
      BY <3>4, <3>5 DEF ReloadInv
  <2> QED
    BY <2>1, <2>2
<1> QED
  BY <1>2, <1>3

(* The logger: closed before its successor is open, and again on record     *)
(* when that fails.                                                         *)
LEMMA LoggerKeeps ==
  ASSUME IInv, FlagsOK', NEW th \in Threads, CloseLogger(th) \/ OpenLogger(th)
  PROVE  TypeOK' /\ ReloadInv'
<1>0. /\ new[th] \in Files /\ new[th].audit \in Nat /\ pc[th] \in {"audit", "open"}
      /\ mu = th /\ \A t \in Threads \ {th} : pc[t] \notin Critical
  BY DEF CloseLogger, OpenLogger, IInv, ReloadInv, MutexOK, Critical
<1>1. pc["signal"] \notin {"stopProxy", "close", "exited"}
  BY <1>0 DEF IInv, ReloadInv, ShutdownOK, Threads, Critical
<1>2. logger.gen \in Nat /\ closed \subseteq 0 .. logger.gen
  BY DEF IInv, TypeOK
<1>3. ASSUME CloseLogger(th) PROVE TypeOK' /\ ReloadInv'
  <2>1. PICK l \in {"open", "commit"} :
           /\ Proceed(th, l)
           /\ l = "open" => closed' = closed \union {logger.gen}
           /\ l = "commit" => closed' = closed /\ cfg.audit = new[th].audit
    BY <1>3 DEF CloseLogger
  <2>6. closed' \subseteq 0 .. logger.gen
    <3>1. closed' \subseteq closed \union {logger.gen}
      BY <2>1
    <3> QED
      BY <1>2, <3>1
  <2>7. pc' = [pc EXCEPT ![th] = l] /\ UNCHANGED <<failed, mu, new>>
    BY <2>1 DEF Proceed
  <2>2. TypeOK'
    BY <1>3, <2>6, <2>7 DEF CloseLogger, IInv, TypeOK, fileVars, sigVars, watchVars, callVars, acceptVars
  <2>3. /\ \A t \in Threads : pc'[t] = IF t = th THEN l ELSE pc[t]
        /\ UNCHANGED <<run, cfg, settings, proxy, logger, failed, mu, new>>
    BY <1>3, <2>1 DEF CloseLogger, Proceed, IInv, TypeOK
  <2>4. MutexOK' /\ BootOK' /\ ShutdownOK'
    BY <1>0, <1>1, <2>3 DEF IInv, ReloadInv, MutexOK, BootOK, ShutdownOK, LoggerIs, Threads, Critical
  <2>5. ForceOK'
    BY <1>0, <1>3, <2>1, <2>3 DEF CloseLogger, IInv, ReloadInv, ForceOK, ProxyIs, LoggerIs, StartProxy,
       Threads, Critical
  <2> QED
    BY <2>2, <2>4, <2>5 DEF ReloadInv
<1>4. ASSUME OpenLogger(th) PROVE TypeOK' /\ ReloadInv'
  <2>0. UNCHANGED <<fileVars, run, cfg, settings, proxy, closed, sigVars, watchVars, listening, callVars>>
    BY <1>4 DEF OpenLogger
  <2>1. CASE Abandon(th) /\ UNCHANGED logger
    <3>1. TypeOK'
      BY <2>0, <2>1 DEF Abandon, IInv, TypeOK, fileVars, sigVars, watchVars, callVars, acceptVars
    <3> QED
      BY <1>0, <2>0, <2>1, <3>1, AbandonKeeps DEF Critical
  <2>2. CASE logger' = NextLogger(new[th]) /\ Proceed(th, "commit")
    <3>1. logger' \in [gen : Nat, dest : Nat] /\ logger'.gen = logger.gen + 1 /\ logger'.dest = new[th].audit
      BY <1>0, <1>2, <2>2 DEF NextLogger
    <3>2. closed' \subseteq 0 .. logger'.gen /\ logger'.gen \notin closed'
      BY <1>2, <2>0, <3>1
    <3>3. TypeOK'
      BY <2>0, <2>2, <3>1, <3>2 DEF Proceed, IInv, TypeOK, fileVars, sigVars, watchVars, callVars,
         acceptVars
    <3>4. /\ \A t \in Threads : pc'[t] = IF t = th THEN "commit" ELSE pc[t]
          /\ UNCHANGED <<failed, mu, new>>
      BY <2>2 DEF Proceed, IInv, TypeOK
    <3>5. MutexOK' /\ ShutdownOK'
      BY <1>0, <1>1, <2>0, <3>4 DEF IInv, ReloadInv, MutexOK, ShutdownOK, Threads, Critical
    <3>6. BootOK'
      BY <1>0, <1>2, <2>0, <3>1, <3>4 DEF IInv, ReloadInv, BootOK, Threads
    <3>7. ForceOK'
      BY <1>0, <1>4, <2>0, <3>1, <3>2, <3>4 DEF OpenLogger, IInv, ReloadInv, ForceOK, ProxyIs, LoggerIs,
         StartProxy, Threads, Critical
    <3> QED
      BY <3>3, <3>5, <3>6, <3>7 DEF ReloadInv
  <2> QED
    BY <1>4, <2>1, <2>2 DEF OpenLogger
<1> QED
  BY <1>3, <1>4

(* The commit: what the reload brought about becomes d.cfg.                 *)
LEMMA CommitKeeps ==
  ASSUME IInv, FlagsOK', NEW th \in Threads, Commit(th) PROVE TypeOK' /\ ReloadInv'
<1>0. /\ new[th] \in Files /\ mu = th /\ \A t \in Threads \ {th} : pc[t] \notin Critical
  BY DEF Commit, IInv, ReloadInv, MutexOK, Critical
<1>1. TypeOK'
  BY <1>0 DEF Commit, IInv, TypeOK, sigVars, watchVars, callVars, acceptVars
<1>2. /\ \A t \in Threads : pc'[t] = IF t = th THEN "wait" ELSE pc[t]
      /\ \A t \in Threads : new'[t] = IF t = th THEN NoFile ELSE new[t]
      /\ mu' = "free" /\ cfg' = new[th] /\ settings' = new[th]
      /\ UNCHANGED <<run, proxy, logger, closed, failed>> /\ pc[th] = "commit"
  BY DEF Commit, IInv, TypeOK
<1>3. MutexOK' /\ ShutdownOK'
  BY <1>0, <1>2 DEF IInv, ReloadInv, MutexOK, ShutdownOK, Threads, Critical
<1>4. BootOK'
  BY <1>0, <1>2 DEF IInv, ReloadInv, BootOK, LoggerIs
<1>5. ForceOK'
  BY <1>0, <1>2 DEF IInv, ReloadInv, ForceOK, ProxyIs, LoggerIs, StartProxy, Threads, Critical
<1> QED
  BY <1>1, <1>3, <1>4, <1>5 DEF ReloadInv
-----------------------------------------------------------------------------
(* Connections and the slots of connSem.                                    *)

LEMMA CallsLeaveReload ==
  ASSUME \/ Connect \/ AcceptStep \/ \E h \in Handlers : HandlerStep(h)
         \/ \E f \in Files : WriteFile(f)
  PROVE  UNCHANGED <<run, confVars, mu, pc, new, failed>>
BY DEF Connect, AcceptStep, Accept, TurnAway, SendBusy, HandlerStep, Snapshot, Refuse, Execute,
   Complete, WriteFile

(* A connection that ends gives its slot back, and only one that holds one  *)
(* can end.                                                                 *)
LEMMA EndReleases ==
  ASSUME IInv, NEW h \in Handlers, hpc[h] # "idle", End(h), UNCHANGED acceptVars
  PROVE  SlotsOK' /\ slots' \in 0 .. MaxConns
<1>1. Active' = Active \ {h} /\ h \in Active
  BY DEF End, Active, IInv, TypeOK
<1>2. IsFiniteSet(Active \ {h}) /\ Cardinality(Active \ {h}) = Cardinality(Active) - 1
  BY <1>1, FS_RemoveElement DEF IInv, SlotsOK
<1>3. Cardinality(Active \ {h}) \in Nat
  BY <1>2, FS_CardinalityType
<1>4. slots' = slots - 1 /\ slots \in 0 .. MaxConns
  BY DEF End, Release, IInv, TypeOK
<1> QED
  BY <1>1, <1>2, <1>3, <1>4 DEF IInv, SlotsOK, acceptVars

LEMMA CallsKeep ==
  ASSUME IInv, FlagsOK',
         \/ Connect \/ AcceptStep \/ \E h \in Handlers : HandlerStep(h)
         \/ \E f \in Files : WriteFile(f)
  PROVE  IInv'
<1>0. ReloadInv'
  BY CallsLeaveReload, ReloadUnchanged DEF IInv
<1> SUFFICES TypeOK' /\ SlotsOK'
  BY <1>0 DEF IInv
<1> USE DEF fileVars, confVars, sigVars, watchVars, acceptVars
<1>1. CASE Connect
  BY <1>1 DEF Connect, IInv, TypeOK, SlotsOK, Active
<1>2. ASSUME NEW h \in Handlers, Accept(h) PROVE TypeOK' /\ SlotsOK'
  <2>1. Active' = Active \union {h} /\ h \notin Active
    BY <1>2 DEF Accept, Active, IInv, TypeOK
  <2>2. IsFiniteSet(Active \union {h}) /\ Cardinality(Active \union {h}) = Cardinality(Active) + 1
    BY <2>1, FS_AddElement DEF IInv, SlotsOK
  <2>3. SlotsOK'
    BY <1>2, <2>1, <2>2 DEF Accept, Accepting, IInv, TypeOK, SlotsOK
  <2> QED
    BY <1>2, <2>3 DEF Accept, Accepting, IInv, TypeOK
<1>3. CASE TurnAway
  BY <1>3 DEF TurnAway, Accepting, IInv, TypeOK, SlotsOK, Active
<1>4. CASE SendBusy
  BY <1>4 DEF SendBusy, IInv, TypeOK, SlotsOK, Active
<1>5. ASSUME NEW h \in Handlers, Snapshot(h) PROVE TypeOK' /\ SlotsOK'
  BY <1>5 DEF Snapshot, IInv, TypeOK, SlotsOK, Active
<1>6. ASSUME NEW h \in Handlers, Execute(h) PROVE TypeOK' /\ SlotsOK'
  <2>1. Active' = Active
    BY <1>6 DEF Execute, Active, IInv, TypeOK
  <2> QED
    BY <1>6, <2>1 DEF Execute, IInv, TypeOK, SlotsOK
<1>7. ASSUME NEW h \in Handlers, Refuse(h) \/ Complete(h) PROVE TypeOK' /\ SlotsOK'
  <2>1. SlotsOK' /\ slots' \in 0 .. MaxConns
    BY <1>7, EndReleases DEF Refuse, Complete
  <2>2. [gen |-> 0, dest |-> 0] \in [gen : Nat, dest : Nat]
    OBVIOUS
  <2>3. /\ hpc' \in [Handlers -> {"idle", "accepted", "running"}]
        /\ hcfg' \in [Handlers -> Files \union {NoFile}]
        /\ hlog' \in [Handlers -> [gen : Nat, dest : Nat]]
    <3>1. /\ hpc' = [hpc EXCEPT ![h] = "idle"]
          /\ hcfg' = [hcfg EXCEPT ![h] = NoFile]
          /\ hlog' = [hlog EXCEPT ![h] = [gen |-> 0, dest |-> 0]]
      BY <1>7 DEF Refuse, Complete, End
    <3> QED
      BY <2>2, <3>1 DEF IInv, TypeOK
  <2>4. UNCHANGED <<disk, writes, run, cfg, settings, proxy, logger, closed, mu, pc, new, sigQ, hups,
                    calls, waiting, acceptor>>
    BY <1>7 DEF Refuse, Complete
  <2> QED
    BY <2>1, <2>3, <2>4 DEF IInv, TypeOK
<1>8. ASSUME NEW f \in Files, WriteFile(f) PROVE TypeOK' /\ SlotsOK'
  BY <1>8, SlotsUnchanged DEF WriteFile, IInv, TypeOK, callVars
<1> QED
  BY <1>1, <1>2, <1>3, <1>4, <1>5, <1>6, <1>7, <1>8 DEF AcceptStep, HandlerStep

LEMMA ReturnKeeps == ASSUME IInv, FlagsOK', RunReturns PROVE IInv'
<1>1. SlotsOK'
  BY SlotsUnchanged DEF RunReturns, IInv
<1>2. 1 \in 0 .. logger.gen
  BY DEF RunReturns, IInv, ReloadInv, BootOK, TypeOK
<1>3. TypeOK'
  BY <1>2 DEF RunReturns, IInv, TypeOK, fileVars, sigVars, watchVars, callVars, acceptVars
<1>4. ReloadInv'
  BY DEF RunReturns, IInv, ReloadInv, MutexOK, BootOK, ForceOK, ShutdownOK
<1> QED
  BY <1>1, <1>3, <1>4 DEF IInv
-----------------------------------------------------------------------------
(* The inductive invariant of the daemon's life around its configuration.   *)
THEOREM Inductive == Spec => []IInv
<1>1. IInv /\ [Next]_vars => IInv'
  <2> SUFFICES ASSUME IInv, [Next]_vars PROVE IInv'
    OBVIOUS
  <2>0. FlagsOK'
    BY FlagsKeep DEF IInv, TypeOK
  <2>1. CASE UNCHANGED vars
    <3>1. ReloadInv' /\ SlotsOK'
      BY <2>1, ReloadUnchanged, SlotsUnchanged DEF IInv, vars
    <3>2. TypeOK'
      BY <2>0, <2>1 DEF IInv, TypeOK, vars, fileVars, confVars, sigVars, watchVars, callVars, acceptVars
    <3> QED
      BY <3>1, <3>2 DEF IInv
  <2>2. ASSUME NEW th \in Threads, ReloadStep(th) PROVE IInv'
    <3>1. SlotsOK'
      BY <2>2, ReloadLeavesCalls, SlotsUnchanged DEF IInv
    <3> QED
      BY <2>0, <2>2, <3>1, LoadKeeps, SwitchKeeps, LoggerKeeps, CommitKeeps DEF ReloadStep, IInv
  <2> QED
    BY <2>0, <2>1, <2>2, BootKeeps, SignalsKeep, CallsKeep, ReturnKeeps DEF Next, Stopped
<1> QED
  BY <1>1, InitIInv, PTL DEF Spec

(* Whenever no reload is under way and none has failed, the proxy, the      *)
(* audit logger and the caches are those of one configuration, d.cfg, for   *)
(* any interleaving of the two goroutines that reload.                      *)
THEOREM OneConfiguration == Spec => []InForce
<1>1. IInv => InForce
  BY DEF IInv, ReloadInv, ForceOK, InForce, ProxyIs, LoggerIs
<1> QED
  BY <1>1, Inductive, PTL

(* Once the shutdown has closed the listener no proxy runs and no reload    *)
(* can start one: the watcher was joined before the proxy was stopped.      *)
THEOREM ProxyStopped == Spec => []ShutdownStopsProxy
<1>1. IInv => ShutdownStopsProxy
  BY DEF IInv, ReloadInv, ShutdownOK, MutexOK, TypeOK, ShutdownStopsProxy, Threads, Critical
<1> QED
  BY <1>1, Inductive, PTL

(* A completed call loses its audit entry only to a reload that replaced,   *)
(* or is replacing, its logger, or that failed.                             *)
THEOREM AuditedUnlessReloaded == Spec => CallsAudited
<1>1. IInv /\ [Next]_vars =>
        [lost' # lost =>
          \E h \in Handlers :
            /\ hpc[h] = "running" /\ hpc'[h] = "idle"
            /\ hlog[h].gen # logger.gen \/ mu # "free" \/ failed]_vars
  <2> SUFFICES ASSUME IInv, Next, lost' # lost
               PROVE  \E h \in Handlers :
                        /\ hpc[h] = "running" /\ hpc'[h] = "idle"
                        /\ hlog[h].gen # logger.gen \/ mu # "free" \/ failed
    OBVIOUS
  <2>1. PICK h \in Handlers : Complete(h)
    <3> USE DEF callVars
    <3>1. ~ (BootStep \/ SendHup \/ SendTerm \/ SignalStep \/ WatcherEvent \/ WatcherStep)
      BY DEF BootStep, BootLoad, BootFails, BootServe, SendHup, SendTerm, SignalStep, TakeHup, StopWatcher,
         JoinWatcher, StopProxy, CloseListener, WatcherEvent, WatcherStep, WatcherFires, WatcherExits
    <3>2. ASSUME NEW th \in Threads, ReloadStep(th) PROVE FALSE
      BY <3>2, ReloadLeavesCalls
    <3>3. ~ (Connect \/ AcceptStep \/ RunReturns \/ Stopped \/ \E f \in Files : WriteFile(f))
      BY DEF Connect, AcceptStep, Accept, TurnAway, SendBusy, RunReturns, Stopped, WriteFile, vars
    <3>4. ASSUME NEW h \in Handlers, Snapshot(h) \/ Refuse(h) \/ Execute(h) PROVE FALSE
      BY <3>4 DEF Snapshot, Refuse, Execute
    <3> QED
      BY <3>1, <3>2, <3>3, <3>4 DEF Next, HandlerStep
  <2>2. hpc[h] = "running" /\ hpc'[h] = "idle" /\ run = "serve"
    BY <2>1 DEF Complete, End, IInv, TypeOK
  <2>4. hlog[h].gen \in closed
    <3>1. lost \in BOOLEAN /\ lost' = (lost \/ (hcfg[h].audit # 0 /\ hlog[h].gen \in closed))
      BY <2>1, Zenon DEF Complete, IInv, TypeOK, FlagsOK
    <3> QED
      BY <3>1, Zenon
  <2>3. hlog[h].gen # logger.gen \/ mu # "free" \/ failed
    BY <2>2, <2>4 DEF IInv, ReloadInv, ForceOK, LoggerIs
  <2> QED
    BY <2>2, <2>3
<1> QED
  BY <1>1, Inductive, PTL DEF Spec, CallsAudited

(* connSem counts the connections in progress, and there are never more     *)
(* than max_connections: no path of a handler leaks or returns two slots.   *)
THEOREM SlotsMatch == Spec => [](slots = Cardinality(Active) /\ slots <= MaxConns)
<1>1. IInv => slots = Cardinality(Active) /\ slots <= MaxConns
  BY DEF IInv, SlotsOK, TypeOK
<1> QED
  BY <1>1, Inductive, PTL
=============================================================================
