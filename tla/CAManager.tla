------------------------------ MODULE CAManager ------------------------------
(***************************************************************************)
(* The certificate authority of the HTTP proxy                              *)
(* (src/internal/httpproxy/ca.go) as Proxy.Start and Proxy.Stop drive it    *)
(* (proxy.go).  Self-managed, the manager loads, rotates or generates the   *)
(* certificate and its key; external, somebody else writes the two files    *)
(* and a watcher goroutine reloads them.  The two files are read and        *)
(* written one after the other, and the daemon may die in between.          *)
(***************************************************************************)
EXTENDS Integers

CONSTANTS
  Modes,           \* the values ca.external may have
  Validity,        \* ca.validity_days
  RotationBuffer,  \* 30 days in the code
  Installs,        \* the certificates an external writer installs
  MaxTime,         \* bound: the clock stops here
  MaxDowns,        \* bound: crashes, stops and failed system calls
  MaxWrites,       \* bound: external writes
  NoFile,          \* a file that does not exist; no certificate
  Torn             \* a file that was truncated and not yet written

(* A certificate is known by its key pair; good stands for IsCA and the key *)
(* usage.                                                                   *)
Certificates == [id : Int, good : BOOLEAN, notBefore : Int, notAfter : Int]
ASSUME InstallAssumption == Installs \subseteq Certificates
ASSUME NumberAssumption ==
  /\ Validity \in Nat /\ RotationBuffer \in Nat
  /\ MaxTime \in Nat /\ MaxDowns \in Nat /\ MaxWrites \in Nat
ASSUME ModeAssumption == Modes \subseteq BOOLEAN
ASSUME SentinelAssumption == {NoFile, Torn} \cap Int = {}

VARIABLES
  external,    \* ca.external, as configured
  now,         \* the day
  certFile,    \* the certificate file
  keyFile,     \* the key file: the id of its pair
  loose,       \* the key file's mode, as a number, is above 0600
  made,        \* pairs generated so far
  cert,        \* m.cert
  pc,          \* where Proxy.Start or Stop is, and the watcher goroutine
  got,         \* per goroutine, the certificate it has read
  events,      \* file events not yet delivered
  stopCh,      \* the watcher's stop channel is closed
  missed,      \* a file changed after it was read and before it was watched
  early,       \* the last reload met a certificate that is not valid yet (history)
  failed,      \* a system call of the last start failed (history)
  downs, writes

fileVars == <<certFile, keyFile, loose, made>>
watchVars == <<events, stopCh, missed, early>>
downVars == <<downs, failed>>
vars == <<external, now, fileVars, cert, pc, got, watchVars, downVars, writes>>

Threads == {"main", "watch"}
At(m, w) == [th \in Threads |-> IF th = "main" THEN m ELSE w]
Goto(th, l) == pc' = [pc EXCEPT ![th] = l]

Init ==
  /\ external \in Modes
  /\ now = 0
  /\ certFile = NoFile /\ keyFile \in {NoFile, 0}
  /\ loose \in BOOLEAN /\ (loose => keyFile # NoFile)
  /\ made = 0 /\ cert = NoFile
  /\ pc = At("down", "off")
  /\ got = [th \in Threads |-> NoFile]
  /\ events = {} /\ stopCh = FALSE /\ missed = FALSE
  /\ early = FALSE /\ failed = FALSE /\ downs = 0 /\ writes = 0

(* Days pass while the proxy is up or down; a start takes no time.          *)
Tick ==
  /\ now < MaxTime /\ pc["main"] \in {"up", "down", "off"}
  /\ now' = now + 1
  /\ UNCHANGED <<external, fileVars, cert, pc, got, watchVars, downVars, writes>>
-----------------------------------------------------------------------------
(* Certificates.                                                            *)

(* tls.LoadX509KeyPair succeeds.                                            *)
Pairs(c, k) == c \notin {NoFile, Torn} /\ k = c.id

(* validateCA.                                                              *)
Valid(c) == c.good /\ c.notBefore <= now /\ now <= c.notAfter

NeedsRotation(c) == c.notAfter < now + RotationBuffer
-----------------------------------------------------------------------------
(* Proxy.Start: EnsureCA, then the watcher, then the listener.              *)

(* A new proxy has a new manager.                                           *)
NewManager ==
  /\ Goto("main", IF external THEN "readCert" ELSE "stat")
  /\ cert' = NoFile /\ missed' = FALSE /\ early' = FALSE /\ failed' = FALSE
  /\ UNCHANGED <<external, now, fileVars, got, events, stopCh, downs, writes>>

(* The daemon starts, and its proxy with it ...                             *)
Start == pc["main"] = "down" /\ NewManager

(* ... or a running daemon without a proxy starts one on a reload.          *)
StartOnReload == pc["main"] = "off" /\ NewManager

(* Start returns an error, and the daemon goes on without a proxy.  A       *)
(* failed system call is counted.                                           *)
Fail == Goto("main", "off")
SystemCallFails == downs < MaxDowns /\ downs' = downs + 1 /\ failed' = TRUE /\ Fail

(* loadCA's look at the key file; without a usable one a CA is generated.   *)
StatKey ==
  /\ pc["main"] = "stat"
  /\ Goto("main", IF keyFile = NoFile \/ loose THEN "createCert" ELSE "readCert")
  /\ UNCHANGED <<external, now, fileVars, cert, got, watchVars, downVars, writes>>

ReadCert(th) ==
  /\ pc[th] = "readCert"
  /\ got' = [got EXCEPT ![th] = certFile]
  /\ Goto(th, "readKey")
  /\ UNCHANGED <<external, now, fileVars, cert, watchVars, downVars, writes>>

(* A mutant of Unloadable: a pair that does not load is always an error.    *)
UnloadableFails(th) == IF th = "watch" THEN "wait" ELSE "off"

(* A pair that does not load: generate one, fail, or keep what there is.    *)
Unloadable(th) ==
  IF th = "watch" THEN "wait" ELSE IF external THEN "off" ELSE "createCert"

ReadKey(th) ==
  /\ pc[th] = "readKey"
  /\ Goto(th, IF Pairs(got[th], keyFile) THEN "check" ELSE Unloadable(th))
  /\ UNCHANGED <<external, now, fileVars, cert, got, watchVars, downVars, writes>>

(* validateCA and needsRotation in EnsureCA ...                             *)
Check ==
  LET c == got["main"] IN
  /\ pc["main"] = "check"
  /\ \/ ~ Valid(c) /\ Fail /\ UNCHANGED cert
     \/ /\ Valid(c) /\ ~ external /\ NeedsRotation(c)
        /\ Goto("main", "createCert") /\ UNCHANGED cert
     \/ /\ Valid(c) /\ (external \/ ~ NeedsRotation(c))
        /\ cert' = c /\ Goto("main", "watcher")
  /\ UNCHANGED <<external, now, fileVars, got, watchVars, downVars, writes>>

(* ... and validateCA in reloadCA.                                          *)
CheckReloaded ==
  /\ pc["watch"] = "check"
  /\ cert' = IF Valid(got["watch"]) THEN got["watch"] ELSE cert
  /\ early' = ~ (got["watch"].notBefore <= now)
  /\ Goto("watch", "wait")
  /\ UNCHANGED <<external, now, fileVars, got, events, stopCh, missed, downVars, writes>>

(* generateAndSaveCA: each os.WriteFile truncates, then writes; when the    *)
(* key cannot be saved the certificate is removed.                          *)
CreateCert ==
  /\ pc["main"] = "createCert"
  /\ \/ certFile' = Torn /\ Goto("main", "writeCert") /\ UNCHANGED downVars
     \/ SystemCallFails /\ UNCHANGED certFile
  /\ UNCHANGED <<external, now, keyFile, loose, made, cert, got, watchVars, writes>>

WriteCert ==
  /\ pc["main"] = "writeCert"
  /\ \/ /\ made' = made + 1
        /\ certFile' = [id |-> made + 1, good |-> TRUE,
                       notBefore |-> now, notAfter |-> now + Validity]
        /\ Goto("main", "createKey") /\ UNCHANGED downVars
     \/ SystemCallFails /\ UNCHANGED <<made, certFile>>
  /\ UNCHANGED <<external, now, keyFile, loose, cert, got, watchVars, writes>>

(* A file that exists keeps its mode, a new one gets 0600.                  *)
CreateKey ==
  /\ pc["main"] = "createKey"
  /\ \/ /\ keyFile' = Torn /\ loose' = (loose /\ keyFile # NoFile)
        /\ Goto("main", "writeKey") /\ UNCHANGED <<downVars, certFile>>
     \/ SystemCallFails /\ certFile' = NoFile /\ UNCHANGED <<keyFile, loose>>
  /\ UNCHANGED <<external, now, made, cert, got, watchVars, writes>>

WriteKey ==
  /\ pc["main"] = "writeKey"
  /\ \/ keyFile' = made /\ Goto("main", "chmod") /\ UNCHANGED <<downVars, certFile>>
     \/ SystemCallFails /\ certFile' = NoFile /\ UNCHANGED keyFile
  /\ UNCHANGED <<external, now, loose, made, cert, got, watchVars, writes>>

(* Chmod, and the pair is loaded from the files just written, which may     *)
(* fail and leave them.                                                     *)
ChmodKey ==
  /\ pc["main"] = "chmod"
  /\ \/ /\ loose' = FALSE /\ cert' = certFile
        /\ Goto("main", "watcher") /\ UNCHANGED <<downVars, certFile, keyFile>>
     \/ SystemCallFails /\ certFile' = NoFile /\ keyFile' = NoFile /\ UNCHANGED <<loose, cert>>
     \/ SystemCallFails /\ loose' = FALSE /\ UNCHANGED <<cert, certFile, keyFile>>
  /\ UNCHANGED <<external, now, made, got, watchVars, writes>>

(* StartWatcher, in external mode only.                                     *)
StartWatcher ==
  /\ pc["main"] = "watcher"
  /\ \/ /\ pc' = At("listen", IF external THEN "wait" ELSE "off")
        /\ events' = {} /\ stopCh' = FALSE /\ UNCHANGED downVars
     \/ external /\ SystemCallFails /\ UNCHANGED <<events, stopCh>>
  /\ UNCHANGED <<external, now, fileVars, cert, got, missed, early, writes>>

(* A mutant of CloseStopCh: the channel is not closed.                      *)
LeaveStopCh == FALSE
CloseStopCh == external

(* net.Listen, whose failure stops the watcher.                             *)
Listen ==
  /\ pc["main"] = "listen"
  /\ \/ Goto("main", "up") /\ UNCHANGED <<stopCh, downVars>>
     \/ /\ downs < MaxDowns /\ downs' = downs + 1 /\ failed' = TRUE
        /\ stopCh' = CloseStopCh /\ Goto("main", "abort")
  /\ UNCHANGED <<external, now, fileVars, cert, got, events, missed, early, writes>>

(* Proxy.Stop: StopWatcher closes the channel and waits for the goroutine.  *)
Stop ==
  /\ pc["main"] = "up" /\ downs < MaxDowns
  /\ downs' = downs + 1
  /\ stopCh' = CloseStopCh /\ Goto("main", "join")
  /\ UNCHANGED <<external, now, fileVars, cert, got, events, missed, early, failed, writes>>

(* The watcher has ended: a shutdown ends the daemon, a reload that turns   *)
(* the proxy off or a failed start leaves it without one.                   *)
JoinWatcher ==
  /\ pc["watch"] \in {"off", "exited"}
  /\ \/ pc["main"] = "join" /\ Goto("main", "down")
     \/ pc["main"] \in {"join", "abort"} /\ Goto("main", "off")
  /\ missed' = FALSE
  /\ UNCHANGED <<external, now, fileVars, cert, got, events, stopCh, early, downVars, writes>>

(* The daemon dies; the files stay as they are.                             *)
Crash ==
  /\ pc["main"] # "down" /\ downs < MaxDowns
  /\ downs' = downs + 1
  /\ pc' = At("down", "off")
  /\ cert' = NoFile /\ events' = {} /\ stopCh' = FALSE /\ missed' = FALSE /\ failed' = FALSE
  /\ UNCHANGED <<external, now, fileVars, got, early, writes>>
-----------------------------------------------------------------------------
(* External mode: the other program writes, watchLoop reloads.              *)

Watched == pc["watch"] \notin {"off", "exited"}

(* The certificate, the key, or both at once by a swap of ..data.           *)
ExternalWrite(c, what) ==
  /\ external /\ writes < MaxWrites
  /\ writes' = writes + 1
  /\ certFile' = IF what = "key" THEN certFile ELSE c
  /\ keyFile' = IF what = "cert" THEN keyFile ELSE c.id
  /\ events' = IF Watched THEN events \union {what} ELSE events
  /\ missed' = (missed \/ (~ Watched /\ pc["main"] \notin {"down", "off", "readCert"}))
  /\ UNCHANGED <<external, now, loose, made, cert, pc, got, stopCh, early, downVars>>

(* A mutant of Relevant: events of the key file are ignored.                *)
RelevantUnlessKey(what) == what # "key"
Relevant(what) == what \in {"cert", "key", "data"}

WatchEvent(what) ==
  /\ pc["watch"] = "wait" /\ what \in events
  /\ events' = events \ {what}
  /\ Goto("watch", IF Relevant(what) THEN "readCert" ELSE "wait")
  /\ UNCHANGED <<external, now, fileVars, cert, got, stopCh, missed, early, downVars, writes>>

WatchExits ==
  /\ pc["watch"] = "wait" /\ stopCh
  /\ Goto("watch", "exited")
  /\ UNCHANGED <<external, now, fileVars, cert, got, watchVars, downVars, writes>>
-----------------------------------------------------------------------------
MainStep ==
  \/ StatKey \/ ReadCert("main") \/ ReadKey("main") \/ Check
  \/ CreateCert \/ WriteCert \/ CreateKey \/ WriteKey \/ ChmodKey
  \/ StartWatcher \/ Listen \/ JoinWatcher

WatchStep ==
  \/ ReadCert("watch") \/ ReadKey("watch") \/ CheckReloaded
  \/ \E what \in {"cert", "key", "data"} : WatchEvent(what)

(* The proxy serves, and nothing happens to its certificate.                *)
Serve == pc["main"] = "up" /\ UNCHANGED vars

Next ==
  \/ Tick \/ Start \/ StartOnReload \/ MainStep \/ Stop \/ Crash \/ WatchStep \/ WatchExits \/ Serve
  \/ \E c \in Installs, what \in {"cert", "key", "data"} : ExternalWrite(c, what)

Spec == Init /\ [][Next]_vars

(* The daemon is started again when it is down (its service restarts it;    *)
(* nobody need reload one that goes on without a proxy), goroutines that    *)
(* can run do run, and the select of watchLoop does not pass over the       *)
(* closed stop channel for ever.                                            *)
Fairness ==
  /\ WF_vars(Start) /\ WF_vars(MainStep) /\ WF_vars(WatchStep) /\ SF_vars(WatchExits)

FairSpec == Spec /\ Fairness
-----------------------------------------------------------------------------
MainPCs == {"down", "stat", "readCert", "readKey", "check", "createCert", "writeCert",
            "createKey", "writeKey", "chmod", "watcher", "listen", "up", "join", "abort", "off"}
WatchPCs == {"off", "wait", "readCert", "readKey", "check", "exited"}

FlagsOK ==
  /\ external \in Modes /\ loose \in BOOLEAN /\ stopCh \in BOOLEAN /\ missed \in BOOLEAN
  /\ early \in BOOLEAN /\ failed \in BOOLEAN

(* Every variable keeps its type, and only external mode has a watcher.     *)
TypeOK ==
  /\ FlagsOK
  /\ now \in 0 .. MaxTime
  /\ certFile \in Certificates \union {NoFile, Torn}
  /\ keyFile \in Int \union {NoFile, Torn}
  /\ made \in Nat
  /\ cert \in Certificates \union {NoFile}
  /\ pc \in [Threads -> MainPCs \union WatchPCs]
  /\ pc["main"] \in MainPCs /\ pc["watch"] \in WatchPCs
  /\ ~ external => pc["watch"] = "off"
  /\ got \in [Threads -> Certificates \union {NoFile, Torn}]
  /\ events \subseteq {"cert", "key", "data"}
  /\ downs \in 0 .. MaxDowns /\ writes \in 0 .. MaxWrites

(* External files that were all looked at, with a pair that can be used and *)
(* could when it was looked at: a certificate becomes valid without an      *)
(* event.                                                                   *)
Settled ==
  /\ pc["watch"] = "wait" /\ events = {} /\ ~ missed /\ ~ early
  /\ Pairs(certFile, keyFile) /\ Valid(certFile)

(* The proxy signs with the pair in the configured files, and the mode of   *)
(* the key file is at most 0600 as a number (which is what loadCA compares: *)
(* 0444 passes), whatever an earlier start that crashed or failed has left  *)
(* there; when others write the files this holds once every event is        *)
(* handled, if the pair is one that could be used then and now: no mixture  *)
(* of two pairs, and no replaced pair, stays in use.                        *)
InUseIsOnDisk ==
  pc["main"] = "up" /\ (external => Settled) =>
    cert = certFile /\ keyFile = cert.id /\ (loose => external)

(* EnsureCA refuses the files: they hold a pair that is not valid, or no    *)
(* pair that can be used and somebody else is to write one.                 *)
Refused ==
  IF external THEN ~ (Pairs(certFile, keyFile) /\ Valid(certFile))
  ELSE Pairs(certFile, keyFile) /\ ~ Valid(certFile)

(* When the daemon is started its proxy comes up, whatever a crash or a     *)
(* failed write left in the files, unless they hold what EnsureCA refuses   *)
(* or are changed while they are read, or a system call of this start fails *)
(* (the daemon then goes on without a proxy).                               *)
StartsAgain == pc["main"] = "down" ~> pc["main"] = "up" \/ Refused \/ missed \/ failed

(* StopWatcher returns, in Proxy.Stop and in a Start that failed to listen: *)
(* it never waits for a watcher that goes on.                               *)
StopReturns == pc["main"] \in {"join", "abort"} ~> pc["main"] \in {"down", "off"}
=============================================================================
