----------------------------- MODULE ConfigReload -----------------------------
(***************************************************************************)
(* The life of the daemon around its configuration                          *)
(* (src/internal/daemon/daemon.go): start, hot reload on SIGHUP and on file *)
(* changes, connections that run with a snapshot of the configuration, and  *)
(* shutdown.  reloadConfig is run by two goroutines, the signal handler and *)
(* the file watcher: each loads the file without a lock and applies it      *)
(* under cfgMu, in steps that readers without the lock can see.             *)
(***************************************************************************)
EXTENDS Integers, FiniteSets

CONSTANTS
  Files,       \* what the file may hold: [valid, listen, audit, id] records
  BootFiles,   \* bound: what it may hold when the daemon starts
  Handlers,    \* connection goroutines
  MaxConns,    \* max_connections when the daemon started
  MaxWrites,   \* bound: changes of the file
  MaxHups,     \* bound: SIGHUPs sent
  MaxCalls,    \* bound: clients that connect
  MayFail,     \* steps that may fail: subset of {"proxy", "audit", "stop", "watch"}
  NoFile,      \* no configuration yet
  NoProxy      \* d.httpProxy is nil

(* listen stands for the proxy settings that need a restart (the address,   *)
(* the authentication, the CA path), 0 when the proxy is disabled; audit is *)
(* the audit file, 0 when auditing is disabled; id tells routes and the     *)
(* rest apart.                                                              *)
ASSUME FileAssumption ==
  /\ Files \subseteq [valid : BOOLEAN, listen : Nat, audit : Nat, id : Nat]
  /\ BootFiles \subseteq Files
ASSUME BoundAssumption ==
  MaxConns \in Nat /\ MaxWrites \in Nat /\ MaxHups \in Nat /\ MaxCalls \in Nat
ASSUME SentinelAssumption == NoFile \notin Files

VARIABLES
  disk,        \* the configuration file
  writes,      \* changes of the file so far
  missed,      \* the file changed while nothing watched it (history)
  overtaken,   \* a SIGHUP's reload put an older file in force (history)
  run,         \* the main goroutine: "boot", "serve", "returned"
  cfg,         \* d.cfg
  settings,    \* configuration the caches and backends were set from
  proxy,       \* d.httpProxy: where it listens, its routes, whether it is up
  logger,      \* d.auditLogger: generation and destination
  closed,      \* generations of closed loggers
  mu,          \* who holds cfgMu
  pc,          \* per reloading goroutine, where it is
  new,         \* per reloading goroutine, newCfg
  sigQ,        \* sigCh: one signal at most, "none" when empty
  hups,        \* SIGHUPs sent
  events,      \* fsnotify has an event to deliver
  timer,       \* the debounce timer is armed
  stopCh,      \* configStopCh is closed
  listening,   \* the socket accepts
  failed,      \* a start or a reload failed halfway (history)
  slots,       \* connSem
  acceptor,    \* the accept loop: "accept", or "busy" while it turns one away
  waiting,     \* clients that have connected and are not accepted
  calls,       \* clients that have connected
  hpc,         \* per handler: "idle", "accepted", "running"
  hcfg,        \* per handler, its snapshot of the configuration
  hlog,        \* per handler, the logger its executor got
  lost         \* a completed call's audit entry was not written

fileVars == <<disk, writes, missed, overtaken>>
acceptVars == <<acceptor, waiting, calls>>
confVars == <<cfg, settings, proxy, logger, closed>>
sigVars == <<sigQ, hups>>
watchVars == <<events, timer, stopCh>>
callVars == <<slots, acceptVars, hpc, hcfg, hlog, lost>>
vars == <<fileVars, run, confVars, mu, pc, new, sigVars, watchVars, listening,
          failed, callVars>>

Threads == {"signal", "watcher"}

Init ==
  /\ disk \in BootFiles
  /\ writes = 0 /\ missed = FALSE /\ overtaken = FALSE
  /\ run = "boot"
  /\ cfg = NoFile /\ settings = NoFile
  /\ proxy = NoProxy
  /\ logger = [gen |-> 0, dest |-> 0] /\ closed = {}
  /\ mu = "free"
  /\ pc = [th \in Threads |-> "off"]
  /\ new = [th \in Threads |-> NoFile]
  /\ sigQ = "none" /\ hups = 0
  /\ events = FALSE /\ timer = FALSE /\ stopCh = FALSE
  /\ listening = FALSE /\ failed = FALSE
  /\ slots = 0 /\ acceptor = "accept" /\ waiting = 0 /\ calls = 0
  /\ hpc = [h \in Handlers |-> "idle"]
  /\ hcfg = [h \in Handlers |-> NoFile]
  /\ hlog = [h \in Handlers |-> [gen |-> 0, dest |-> 0]]
  /\ lost = FALSE

Watched == pc["watcher"] \notin {"off", "exited"} /\ ~ stopCh

(* Somebody changes the file; the watcher hears of it if there is one.      *)
WriteFile(f) ==
  /\ writes < MaxWrites /\ f # disk /\ run # "returned"
  /\ disk' = f
  /\ writes' = writes + 1
  /\ missed' = (missed \/ ~ Watched)
  /\ overtaken' = (overtaken /\ ~ Watched)
  /\ events' = (events \/ Watched)
  /\ UNCHANGED <<run, confVars, mu, pc, new, sigVars, timer, stopCh, listening,
                 failed, callVars>>
-----------------------------------------------------------------------------
(* Start: load, then serve with what was loaded.                            *)

StartProxy(f) == [listen |-> f.listen, routes |-> f.id, up |-> TRUE]
NextLogger(f) == [gen |-> logger.gen + 1, dest |-> f.audit]

BootLoad ==
  /\ run = "boot" /\ cfg = NoFile
  /\ disk.valid
  /\ cfg' = disk /\ settings' = disk
  /\ logger' = NextLogger(disk)
  /\ UNCHANGED <<fileVars, run, proxy, closed, mu, pc, new, sigVars, watchVars,
                 listening, failed, callVars>>

(* Load or audit.New fails: Run returns the error.                          *)
BootFails ==
  /\ run = "boot" /\ cfg = NoFile
  /\ ~ disk.valid \/ (disk.audit # 0 /\ "audit" \in MayFail)
  /\ run' = "returned"
  /\ UNCHANGED <<fileVars, confVars, mu, pc, new, sigVars, watchVars, listening,
                 failed, callVars>>

(* The HTTP proxy and the watcher are optional: without them Run goes on.   *)
BootServe ==
  /\ run = "boot" /\ cfg # NoFile
  /\ run' = "serve" /\ listening' = TRUE
  /\ \/ /\ proxy' = IF cfg.listen = 0 THEN NoProxy ELSE StartProxy(cfg)
        /\ UNCHANGED failed
     \/ /\ cfg.listen # 0 /\ "proxy" \in MayFail
        /\ failed' = TRUE /\ UNCHANGED proxy
  /\ \/ pc' = [th \in Threads |-> "wait"]
     \/ "watch" \in MayFail /\ pc' = [pc EXCEPT !["signal"] = "wait"]
  /\ UNCHANGED <<fileVars, cfg, settings, logger, closed, mu, new, sigVars, watchVars, callVars>>
-----------------------------------------------------------------------------
(* Signals and file events.                                                 *)

(* signal.Notify never blocks: a signal that finds sigCh full is dropped,   *)
(* a SIGTERM behind an unhandled SIGHUP as well.                            *)
SendHup ==
  /\ run = "serve" /\ hups < MaxHups
  /\ hups' = hups + 1
  /\ sigQ' = IF sigQ = "none" THEN "HUP" ELSE sigQ
  /\ UNCHANGED <<fileVars, run, confVars, mu, pc, new, watchVars, listening, failed, callVars>>

SendTerm ==
  /\ run = "serve" /\ sigQ = "none" /\ pc["signal"] # "exited"
  /\ sigQ' = "TERM"
  /\ UNCHANGED <<fileVars, run, confVars, mu, pc, new, hups, watchVars, listening, failed, callVars>>

TakeHup ==
  /\ pc["signal"] = "wait" /\ sigQ = "HUP"
  /\ sigQ' = "none"
  /\ pc' = [pc EXCEPT !["signal"] = "load"]
  /\ UNCHANGED <<fileVars, run, confVars, mu, new, hups, watchVars, listening, failed, callVars>>

(* A mutant of WatcherEvent: the event is taken for that of another file.   *)
WatcherEventIgnored ==
  /\ pc["watcher"] = "wait" /\ events
  /\ events' = FALSE
  /\ UNCHANGED <<fileVars, run, confVars, mu, pc, new, sigVars, timer, stopCh, listening, failed,
                 callVars>>

(* configWatchLoop: an event (re)arms the timer, the timer reloads.  The    *)
(* select may take either while the stop channel is closed too.             *)
WatcherEvent ==
  /\ pc["watcher"] = "wait" /\ events
  /\ events' = FALSE /\ timer' = TRUE
  /\ UNCHANGED <<fileVars, run, confVars, mu, pc, new, sigVars, stopCh, listening, failed, callVars>>

WatcherFires ==
  /\ pc["watcher"] = "wait" /\ timer
  /\ timer' = FALSE
  /\ pc' = [pc EXCEPT !["watcher"] = "load"]
  /\ UNCHANGED <<fileVars, run, confVars, mu, new, sigVars, events, stopCh, listening, failed, callVars>>

WatcherExits ==
  /\ pc["watcher"] = "wait" /\ stopCh
  /\ pc' = [pc EXCEPT !["watcher"] = "exited"]
  /\ UNCHANGED <<fileVars, run, confVars, mu, new, sigVars, watchVars, listening, failed, callVars>>
-----------------------------------------------------------------------------
(* reloadConfig.                                                            *)

(* config.Load, before the lock is taken; an invalid file ends the reload.  *)
Load(th) ==
  /\ pc[th] = "load"
  /\ \/ /\ disk.valid
        /\ new' = [new EXCEPT ![th] = disk]
        /\ pc' = [pc EXCEPT ![th] = "lock"]
     \/ /\ ~ disk.valid
        /\ pc' = [pc EXCEPT ![th] = "wait"]
        /\ UNCHANGED new
  /\ UNCHANGED <<fileVars, run, confVars, mu, sigVars, watchVars, listening, failed, callVars>>

LockFree == mu = "free"

Lock(th) ==
  /\ pc[th] = "lock" /\ LockFree
  /\ mu' = th
  /\ pc' = [pc EXCEPT ![th] = "proxy"]
  /\ UNCHANGED <<fileVars, run, confVars, new, sigVars, watchVars, listening, failed, callVars>>

(* The reload gives up halfway: what it changed stays changed.              *)
Abandon(th) ==
  /\ failed' = TRUE
  /\ mu' = "free"
  /\ pc' = [pc EXCEPT ![th] = "wait"]
  /\ new' = [new EXCEPT ![th] = NoFile]

Proceed(th, l) ==
  /\ pc' = [pc EXCEPT ![th] = l]
  /\ UNCHANGED <<failed, mu, new>>

(* A d.cfg that disables the proxy differs here from one that enables it;   *)
(* HTTPProxy has the other cases, of a section that is absent or the same.  *)
NeedsRestart(f) == cfg.listen # f.listen

(* The proxy is stopped; only the first call of Stop can fail.              *)
ProxyOff(th) ==
  /\ proxy # NoProxy /\ new[th].listen = 0
  /\ \/ proxy' = NoProxy /\ Proceed(th, "audit")
     \/ "stop" \in MayFail /\ proxy.up /\ proxy' = [proxy EXCEPT !.up = FALSE] /\ Abandon(th)

(* The proxy is started.                                                    *)
ProxyOn(th) ==
  /\ proxy = NoProxy /\ new[th].listen # 0
  /\ \/ proxy' = StartProxy(new[th]) /\ Proceed(th, "audit")
     \/ "proxy" \in MayFail /\ UNCHANGED proxy /\ Abandon(th)

(* The proxy is restarted, after a stop that may fail by itself.            *)
ProxyRestart(th) ==
  /\ proxy # NoProxy /\ new[th].listen # 0 /\ NeedsRestart(new[th])
  /\ \/ proxy' = StartProxy(new[th]) /\ Proceed(th, "audit")
     \/ "proxy" \in MayFail /\ proxy' = NoProxy /\ Abandon(th)
     \/ "stop" \in MayFail /\ proxy.up /\ proxy' = [proxy EXCEPT !.up = FALSE] /\ Abandon(th)

(* The proxy keeps running with new routes and credentials.                 *)
ProxyReload(th) ==
  /\ proxy # NoProxy /\ new[th].listen # 0 /\ ~ NeedsRestart(new[th])
  /\ proxy' = [proxy EXCEPT !.routes = new[th].id]
  /\ Proceed(th, "audit")

ProxyStaysOff(th) ==
  /\ proxy = NoProxy /\ new[th].listen = 0
  /\ UNCHANGED proxy
  /\ Proceed(th, "audit")

SwitchProxy(th) ==
  /\ pc[th] = "proxy"
  /\ ProxyOff(th) \/ ProxyOn(th) \/ ProxyRestart(th) \/ ProxyReload(th) \/ ProxyStaysOff(th)
  /\ UNCHANGED <<fileVars, run, cfg, settings, logger, closed, sigVars, watchVars,
                 listening, callVars>>

(* A mutant of CloseLogger: the logger is closed whatever has changed.      *)
CloseLoggerAlways(th) ==
  /\ pc[th] = "audit"
  /\ closed' = closed \union {logger.gen}
  /\ Proceed(th, IF cfg.audit # new[th].audit THEN "open" ELSE "commit")
  /\ UNCHANGED <<fileVars, run, cfg, settings, proxy, logger, sigVars, watchVars,
                 listening, callVars>>

(* auditConfigChanged: the old logger is closed before the new one exists.  *)
CloseLogger(th) ==
  /\ pc[th] = "audit"
  /\ IF cfg.audit # new[th].audit
     THEN closed' = closed \union {logger.gen} /\ Proceed(th, "open")
     ELSE UNCHANGED closed /\ Proceed(th, "commit")
  /\ UNCHANGED <<fileVars, run, cfg, settings, proxy, logger, sigVars, watchVars,
                 listening, callVars>>

OpenLogger(th) ==
  /\ pc[th] = "open"
  /\ \/ logger' = NextLogger(new[th]) /\ Proceed(th, "commit")
     \/ /\ "audit" \in MayFail /\ new[th].audit # 0
        /\ UNCHANGED logger /\ Abandon(th)
  /\ UNCHANGED <<fileVars, run, cfg, settings, proxy, closed, sigVars, watchVars,
                 listening, callVars>>

(* A mutant of Commit: the caches and backends keep the old settings.       *)
CommitWithoutSettings(th) ==
  /\ pc[th] = "commit"
  /\ cfg' = new[th]
  /\ overtaken' = (new[th] # disk /\ (overtaken \/ th = "signal"))
  /\ mu' = "free"
  /\ pc' = [pc EXCEPT ![th] = "wait"]
  /\ new' = [new EXCEPT ![th] = NoFile]
  /\ UNCHANGED <<disk, writes, missed, run, settings, proxy, logger, closed, sigVars, watchVars, listening,
                 failed, callVars>>

(* d.cfg is swapped, then the replay cache, the credential cache and the    *)
(* backends get their settings, and the lock is released.                   *)
Commit(th) ==
  /\ pc[th] = "commit"
  /\ cfg' = new[th] /\ settings' = new[th]
  /\ overtaken' = (new[th] # disk /\ (overtaken \/ th = "signal"))
  /\ mu' = "free"
  /\ pc' = [pc EXCEPT ![th] = "wait"]
  /\ new' = [new EXCEPT ![th] = NoFile]
  /\ UNCHANGED <<disk, writes, missed, run, proxy, logger, closed, sigVars, watchVars, listening,
                 failed, callVars>>
-----------------------------------------------------------------------------
(* Shutdown, in the signal goroutine.                                       *)

StopWatcher ==
  /\ pc["signal"] = "wait" /\ sigQ = "TERM"
  /\ sigQ' = "none"
  /\ stopCh' = (pc["watcher"] # "off")
  /\ pc' = [pc EXCEPT !["signal"] = "join"]
  /\ UNCHANGED <<fileVars, run, confVars, mu, new, hups, events, timer, listening, failed, callVars>>

(* A mutant of Joined: shutdown does not wait for the watcher.              *)
NotJoined == TRUE
Joined == pc["watcher"] \in {"off", "exited"}

(* A mutant of JoinWatcher: it waits with cfgMu held.                       *)
JoinWatcherHoldingLock ==
  /\ pc["signal"] = "join"
  /\ \/ mu = "free" /\ mu' = "signal" /\ UNCHANGED pc
     \/ /\ mu = "signal" /\ Joined /\ mu' = "free"
        /\ pc' = [pc EXCEPT !["signal"] = "stopProxy"]
  /\ UNCHANGED <<fileVars, run, confVars, new, sigVars, watchVars, listening, failed, callVars>>

(* configWatcherWg.Wait, without any lock held.                             *)
JoinWatcher ==
  /\ pc["signal"] = "join" /\ Joined
  /\ pc' = [pc EXCEPT !["signal"] = "stopProxy"]
  /\ UNCHANGED <<fileVars, run, confVars, mu, new, sigVars, watchVars, listening, failed, callVars>>

StopProxy ==
  /\ pc["signal"] = "stopProxy" /\ LockFree
  /\ proxy' = NoProxy
  /\ pc' = [pc EXCEPT !["signal"] = "close"]
  /\ UNCHANGED <<fileVars, run, cfg, settings, logger, closed, mu, new, sigVars, watchVars,
                 listening, failed, callVars>>

CloseListener ==
  /\ pc["signal"] = "close"
  /\ listening' = FALSE
  /\ pc' = [pc EXCEPT !["signal"] = "exited"]
  /\ UNCHANGED <<fileVars, run, confVars, mu, new, sigVars, watchVars, failed, callVars>>

(* Accept fails on the closed listener and Run returns, with the process.   *)
RunReturns ==
  /\ run = "serve" /\ ~ listening /\ acceptor = "accept"
  /\ run' = "returned"
  /\ closed' = closed \union {1}
  /\ UNCHANGED <<fileVars, cfg, settings, proxy, logger, mu, pc, new, sigVars, watchVars,
                 listening, failed, callVars>>
-----------------------------------------------------------------------------
(* Connections.                                                             *)

Release == slots' = slots - 1

Connect ==
  /\ run = "serve" /\ listening /\ calls < MaxCalls
  /\ waiting' = waiting + 1 /\ calls' = calls + 1
  /\ UNCHANGED <<fileVars, run, confVars, mu, pc, new, sigVars, watchVars, listening, failed,
                 slots, acceptor, hpc, hcfg, hlog, lost>>

(* A mutant of NoSlot: acquireConnSlot waits for one.                       *)
NoSlotAwaited == FALSE
NoSlot == slots >= MaxConns

Accepting == run = "serve" /\ listening /\ acceptor = "accept" /\ waiting > 0

(* A connection gets a slot and a goroutine.                                *)
Accept(h) ==
  /\ Accepting /\ slots < MaxConns /\ hpc[h] = "idle"
  /\ slots' = slots + 1 /\ waiting' = waiting - 1
  /\ hpc' = [hpc EXCEPT ![h] = "accepted"]
  /\ UNCHANGED <<fileVars, run, confVars, mu, pc, new, sigVars, watchVars, listening, failed,
                 acceptor, calls, hcfg, hlog, lost>>

(* Without a slot the accept loop answers itself: sendError reads d.cfg     *)
(* under the lock that a reload holds, and nobody is accepted meanwhile.    *)
TurnAway ==
  /\ Accepting /\ NoSlot
  /\ acceptor' = "busy"
  /\ UNCHANGED <<fileVars, run, confVars, mu, pc, new, sigVars, watchVars, listening, failed,
                 slots, waiting, calls, hpc, hcfg, hlog, lost>>

SendBusy ==
  /\ run = "serve" /\ acceptor = "busy" /\ LockFree
  /\ acceptor' = "accept" /\ waiting' = waiting - 1
  /\ UNCHANGED <<fileVars, run, confVars, mu, pc, new, sigVars, watchVars, listening, failed,
                 slots, calls, hpc, hcfg, hlog, lost>>

(* getConfig, under the read lock, in the new goroutine.                    *)
Snapshot(h) ==
  /\ run = "serve" /\ hpc[h] = "accepted" /\ hcfg[h] = NoFile
  /\ LockFree
  /\ hcfg' = [hcfg EXCEPT ![h] = cfg]
  /\ UNCHANGED <<fileVars, run, confVars, mu, pc, new, sigVars, watchVars, listening, failed,
                 slots, acceptVars, hpc, hlog, lost>>

End(h) ==
  /\ Release
  /\ hpc' = [hpc EXCEPT ![h] = "idle"]
  /\ hcfg' = [hcfg EXCEPT ![h] = NoFile]
  /\ hlog' = [hlog EXCEPT ![h] = [gen |-> 0, dest |-> 0]]

(* The request is refused (not read, not verified, no such tool ...) or is  *)
(* an admin request, which is answered from the snapshot.                   *)
Refuse(h) ==
  /\ run = "serve" /\ hpc[h] = "accepted" /\ hcfg[h] # NoFile
  /\ End(h)
  /\ UNCHANGED <<fileVars, run, confVars, mu, pc, new, sigVars, watchVars, listening, failed,
                 acceptVars, lost>>

(* NewToolExecutor gets d.auditLogger, read without the lock.               *)
Execute(h) ==
  /\ run = "serve" /\ hpc[h] = "accepted" /\ hcfg[h] # NoFile
  /\ hpc' = [hpc EXCEPT ![h] = "running"]
  /\ hlog' = [hlog EXCEPT ![h] = logger]
  /\ UNCHANGED <<fileVars, run, confVars, mu, pc, new, sigVars, watchVars, listening, failed,
                 slots, acceptVars, hcfg, lost>>

(* The call completes and is audited with the logger and by the             *)
(* configuration it began with; a closed logger writes nothing.             *)
Complete(h) ==
  /\ run = "serve" /\ hpc[h] = "running"
  /\ lost' = (lost \/ (hcfg[h].audit # 0 /\ hlog[h].gen \in closed))
  /\ End(h)
  /\ UNCHANGED <<fileVars, run, confVars, mu, pc, new, sigVars, watchVars, listening, failed,
                 acceptVars>>
-----------------------------------------------------------------------------
ReloadStep(th) ==
  \/ Load(th) \/ Lock(th) \/ SwitchProxy(th) \/ CloseLogger(th) \/ OpenLogger(th)
  \/ Commit(th)

SignalStep == TakeHup \/ StopWatcher \/ JoinWatcher \/ StopProxy \/ CloseListener
WatcherStep == WatcherFires \/ WatcherExits
HandlerStep(h) == Snapshot(h) \/ Refuse(h) \/ Execute(h) \/ Complete(h)
AcceptStep == (\E h \in Handlers : Accept(h)) \/ TurnAway \/ SendBusy
BootStep == BootLoad \/ BootFails \/ BootServe

Stopped == run = "returned" /\ UNCHANGED vars

Next ==
  \/ BootStep \/ SendHup \/ SendTerm
  \/ SignalStep \/ WatcherEvent \/ WatcherStep
  \/ \E th \in Threads : ReloadStep(th)
  \/ Connect \/ AcceptStep
  \/ \E h \in Handlers : HandlerStep(h)
  \/ RunReturns \/ Stopped
  \/ \E f \in Files : WriteFile(f)

Spec == Init /\ [][Next]_vars

(* Goroutines that can run do run, timers fire, and a lock that stays free   *)
(* is obtained.  Handlers owe nothing: a tool may run for ever.             *)
Fairness ==
  /\ WF_vars(BootStep) /\ WF_vars(SignalStep) /\ WF_vars(RunReturns)
  /\ WF_vars(WatcherEvent \/ WatcherStep)
  /\ \A th \in Threads : WF_vars(ReloadStep(th))
  /\ WF_vars(AcceptStep)

FairSpec == Spec /\ Fairness
-----------------------------------------------------------------------------
FlagsOK ==
  /\ missed \in BOOLEAN /\ overtaken \in BOOLEAN
  /\ events \in BOOLEAN /\ timer \in BOOLEAN /\ stopCh \in BOOLEAN
  /\ listening \in BOOLEAN /\ failed \in BOOLEAN /\ lost \in BOOLEAN

(* Every variable keeps its type.                                           *)
TypeOK ==
  /\ FlagsOK
  /\ disk \in Files /\ writes \in 0 .. MaxWrites
  /\ run \in {"boot", "serve", "returned"}
  /\ cfg \in Files \union {NoFile} /\ settings \in Files \union {NoFile}
  /\ proxy \in [listen : Nat, routes : Nat, up : BOOLEAN] \union {NoProxy}
  /\ logger \in [gen : Nat, dest : Nat] /\ closed \subseteq 0 .. logger.gen
  /\ mu \in Threads \union {"free"}
  /\ pc \in [Threads -> {"off", "wait", "load", "lock", "proxy", "audit", "open",
                         "commit", "join", "stopProxy", "close", "exited"}]
  /\ new \in [Threads -> Files \union {NoFile}]
  /\ sigQ \in {"none", "HUP", "TERM"} /\ hups \in 0 .. MaxHups
  /\ slots \in 0 .. MaxConns /\ calls \in 0 .. MaxCalls /\ waiting \in 0 .. MaxCalls
  /\ acceptor \in {"accept", "busy"}
  /\ hpc \in [Handlers -> {"idle", "accepted", "running"}]
  /\ hcfg \in [Handlers -> Files \union {NoFile}]
  /\ hlog \in [Handlers -> [gen : Nat, dest : Nat]]

(* What is in force is one configuration: whenever no reload is under way   *)
(* and none has failed, the proxy listens where d.cfg says, with its        *)
(* routes, the audit logger is open on its destination, and the caches and  *)
(* backends are set from it, for reloads racing from both goroutines.       *)
InForce ==
  run = "serve" /\ mu = "free" /\ ~ failed /\ pc["signal"] \notin {"close", "exited"} =>
    /\ proxy = IF cfg.listen = 0 THEN NoProxy ELSE StartProxy(cfg)
    /\ logger.dest = cfg.audit /\ logger.gen \notin closed
    /\ settings = cfg

(* After shutdown no proxy is left running, even if the watcher was in the  *)
(* middle of a reload that starts one.                                      *)
ShutdownStopsProxy ==
  pc["signal"] = "exited" => proxy = NoProxy /\ mu = "free"

(* "Each completed call produces one entry": a call loses its audit entry   *)
(* only to a reload that has replaced the logger it began with, is in the   *)
(* middle of replacing it, or has failed.                                   *)
CallsAudited ==
  [][lost' # lost =>
       \E h \in Handlers :
         /\ hpc[h] = "running" /\ hpc'[h] = "idle"
         /\ hlog[h].gen # logger.gen \/ mu # "free" \/ failed]_vars

(* A SIGTERM that reached the handler's channel ends the daemon: neither a  *)
(* reload under way in either goroutine, the lock, the join of the watcher, *)
(* the stop of the proxy nor a client being turned away holds it up.        *)
ShutdownEnds == sigQ = "TERM" ~> run = "returned"

(* Every client is accepted or told that the server is busy, also when all  *)
(* slots are taken for as long as they like and a reload holds the lock.    *)
ClientsAnswered == []<>(waiting = 0 \/ run = "returned")

(* KUBERNETES.md: "claw-wrap watches for that swap and reloads".  Once the  *)
(* file stays as it is, valid and seen by a watcher, it becomes the active  *)
(* configuration and stays so, unless a step of a reload fails or a SIGHUP  *)
(* whose reload read the file before the last change commits after the      *)
(* watcher's.                                                               *)
FileWins ==
  <>[](\/ cfg = disk \/ ~ disk.valid \/ missed \/ failed \/ overtaken
       \/ pc["watcher"] = "off" \/ stopCh)
=============================================================================
