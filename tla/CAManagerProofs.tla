--------------------------- MODULE CAManagerProofs ---------------------------
(* Proofs about CAManager, for any validity, rotation buffer, set of        *)
(* certificates others install, and number of days, crashes and writes.     *)
EXTENDS CAManager, TLAPS

(* The watcher runs only between StartWatcher and the join of Stop, and     *)
(* external mode generates nothing.                                         *)
Generating == {"stat", "createCert", "writeCert", "createKey", "writeKey", "chmod"}
ThreadsOK ==
  /\ pc["main"] \notin {"listen", "up", "join", "abort"} => ~ Watched
  /\ external => pc["main"] \notin Generating
  /\ \A th \in Threads : pc[th] = "check" => got[th] \in Certificates

(* What the goroutine th has read so far is still what the files hold.      *)
Fresh(th) ==
  /\ pc[th] = "readKey" => got[th] = certFile
  /\ pc[th] = "check" => got[th] = certFile /\ Pairs(certFile, keyFile)

(* Self-managed, nobody else writes: the files are those of the step, and   *)
(* the key file of a pair that was loaded or saved passes loadCA's check of *)
(* its mode.                                                                *)
SelfManagedOK ==
  ~ external =>
    /\ Fresh("main")
    /\ pc["main"] \in {"readCert", "readKey", "check"} => ~ loose
    /\ pc["main"] \in {"createKey", "writeKey", "chmod"} =>
         certFile \in Certificates /\ certFile.id = made
    /\ pc["main"] = "chmod" => keyFile = made
    /\ pc["main"] \in {"watcher", "listen", "up"} =>
         cert = certFile /\ keyFile = cert.id /\ ~ loose

(* A certificate that will not become valid any more.                       *)
Dead(c) == ~ c.good \/ now > c.notAfter

(* External, what was read is stale only if the change was missed or its    *)
(* event is still to be handled; and a pair that was refused stays refused, *)
(* unless it was looked at too early.                                       *)
ExternalOK ==
  external /\ ~ missed =>
    /\ ~ Watched =>
         /\ Fresh("main")
         /\ pc["main"] = "watcher" => cert = certFile
    /\ Watched /\ events = {} =>
         /\ Fresh("watch")
         /\ pc["watch"] = "wait" /\ Pairs(certFile, keyFile) /\ ~ early =>
              cert = certFile \/ Dead(certFile)

IInv == TypeOK /\ ThreadsOK /\ SelfManagedOK /\ ExternalOK

USE NumberAssumption
-----------------------------------------------------------------------------
LEMMA InitIInv == Init => IInv
<1> SUFFICES ASSUME Init PROVE IInv
  OBVIOUS
<1>0. "main" \in Threads /\ "watch" \in Threads
  BY DEF Threads
<1>1. FlagsOK
  BY Zenon DEF Init, FlagsOK
<1>2. pc["main"] = "down" /\ pc["watch"] = "off" /\ pc \in [Threads -> MainPCs \union WatchPCs]
  BY <1>0 DEF Init, At, MainPCs, WatchPCs
<1>3. got \in [Threads -> Certificates \union {NoFile, Torn}]
  BY DEF Init
<1>4. TypeOK
  BY <1>1, <1>2, <1>3 DEF Init, TypeOK, MainPCs, WatchPCs
<1>5. \A th \in Threads : pc[th] # "check"
  BY DEF Init, At
<1>6. ThreadsOK /\ SelfManagedOK /\ ExternalOK
  BY <1>2, <1>5 DEF ThreadsOK, SelfManagedOK, ExternalOK, Fresh, Watched, Generating
<1> QED
  BY <1>4, <1>6 DEF IInv

(* Flags stay flags.                                                        *)
LEMMA FlagsKeep == ASSUME FlagsOK, [Next]_vars PROVE FlagsOK'
<1>1. external' = external
  BY DEF Next, vars, Tick, Start, StartOnReload, NewManager, MainStep, StatKey, ReadCert, ReadKey, Check, CreateCert, WriteCert,
     CreateKey, WriteKey, ChmodKey, StartWatcher, Listen, JoinWatcher, Stop, Crash, WatchStep,
     CheckReloaded, WatchEvent, WatchExits, Serve, ExternalWrite
<1>2. loose' \in BOOLEAN
  BY Zenon DEF FlagsOK, Next, vars, fileVars, Tick, Start, StartOnReload, NewManager, MainStep, StatKey, ReadCert, ReadKey, Check,
     CreateCert, WriteCert, CreateKey, WriteKey, ChmodKey, StartWatcher, Listen, JoinWatcher, Stop,
     Crash, WatchStep, CheckReloaded, WatchEvent, WatchExits, Serve, ExternalWrite
<1>3. external \in BOOLEAN
  BY ModeAssumption DEF FlagsOK
<1>4. stopCh' \in BOOLEAN
  BY <1>3, Zenon DEF FlagsOK, Next, vars, watchVars, Tick, Start, StartOnReload, NewManager, MainStep, StatKey, ReadCert, ReadKey, Check,
     CreateCert, WriteCert, CreateKey, WriteKey, ChmodKey, StartWatcher, Listen, JoinWatcher, Stop,
     Crash, WatchStep, CheckReloaded, WatchEvent, WatchExits, Serve, ExternalWrite, CloseStopCh
<1>5. missed' \in BOOLEAN
  BY Zenon DEF FlagsOK, Next, vars, watchVars, Tick, Start, StartOnReload, NewManager, MainStep, StatKey, ReadCert, ReadKey, Check,
     CreateCert, WriteCert, CreateKey, WriteKey, ChmodKey, StartWatcher, Listen, JoinWatcher, Stop,
     Crash, WatchStep, CheckReloaded, WatchEvent, WatchExits, Serve, ExternalWrite
<1>6. early' \in BOOLEAN
  BY Zenon DEF FlagsOK, Next, vars, watchVars, Tick, Start, StartOnReload, NewManager, MainStep, StatKey,
     ReadCert, ReadKey, Check, CreateCert, WriteCert, CreateKey, WriteKey, ChmodKey, StartWatcher, Listen,
     JoinWatcher, Stop, Crash, WatchStep, CheckReloaded, WatchEvent, WatchExits, Serve, ExternalWrite
<1>7. failed' \in BOOLEAN
  BY Zenon DEF FlagsOK, Next, vars, downVars, Tick, Start, StartOnReload, NewManager, MainStep, StatKey,
     ReadCert, ReadKey, Check, CreateCert, WriteCert, CreateKey, WriteKey, ChmodKey, StartWatcher, Listen,
     JoinWatcher, Stop, Crash, WatchStep, CheckReloaded, WatchEvent, WatchExits, Serve, ExternalWrite,
     SystemCallFails
<1> QED
  BY <1>1, <1>2, <1>4, <1>5, <1>6, <1>7 DEF FlagsOK

LEMMA GotoMain ==
  ASSUME TypeOK, NEW l \in MainPCs, Goto("main", l)
  PROVE  /\ pc' \in [Threads -> MainPCs \union WatchPCs]
         /\ pc'["main"] = l /\ pc'["watch"] = pc["watch"]
<1>1. "main" \in Threads /\ "watch" \in Threads
  BY DEF Threads
<1> QED
  BY <1>1 DEF TypeOK, Goto

LEMMA GotoWatch ==
  ASSUME TypeOK, NEW l \in WatchPCs, Goto("watch", l)
  PROVE  /\ pc' \in [Threads -> MainPCs \union WatchPCs]
         /\ pc'["watch"] = l /\ pc'["main"] = pc["main"]
<1>1. "main" \in Threads /\ "watch" \in Threads
  BY DEF Threads
<1> QED
  BY <1>1 DEF TypeOK, Goto

LEMMA AtBoth ==
  ASSUME NEW m \in MainPCs, NEW w \in WatchPCs
  PROVE  /\ At(m, w) \in [Threads -> MainPCs \union WatchPCs]
         /\ At(m, w)["main"] = m /\ At(m, w)["watch"] = w
<1>1. "main" \in Threads /\ "watch" \in Threads
  BY DEF Threads
<1> QED
  BY <1>1 DEF At

LEMMA TheThreads == \A th : th \in Threads <=> th = "main" \/ th = "watch"
BY DEF Threads
-----------------------------------------------------------------------------
(* Proxy.Start as far as it only reads: no file, event or mode changes.     *)
LEMMA TickStep == ASSUME IInv, FlagsOK', Tick PROVE IInv'
<1>1. /\ now' \in 0 .. MaxTime /\ now' = now + 1 /\ now \in 0 .. MaxTime
      /\ UNCHANGED <<external, certFile, keyFile, loose, made, cert, pc, got, events, missed, early, downs, writes>>
  BY DEF Tick, IInv, TypeOK, fileVars, watchVars, downVars
<1>2. TypeOK'
  BY <1>1 DEF IInv, TypeOK
<1>3. ThreadsOK' /\ SelfManagedOK'
  BY <1>1 DEF IInv, ThreadsOK, SelfManagedOK, Fresh, Pairs, Watched
<1>4. Pairs(certFile, keyFile) /\ Dead(certFile) => Dead(certFile)'
  BY <1>1 DEF IInv, TypeOK, Certificates, Pairs, Dead
<1>5. ExternalOK'
  BY <1>1, <1>4 DEF IInv, ExternalOK, Fresh, Pairs, Watched
<1> QED
  BY <1>2, <1>3, <1>5 DEF IInv

LEMMA StartStep == ASSUME IInv, FlagsOK', Start \/ StartOnReload PROVE IInv'
<1>1. /\ pc["main"] \in {"down", "off"} /\ cert' = NoFile /\ ~ missed'
      /\ UNCHANGED <<external, now, certFile, keyFile, loose, made, got, events, downs, writes>>
  BY DEF Start, StartOnReload, NewManager, fileVars
<1>2. PICK l \in MainPCs : Goto("main", l) /\ l = (IF external THEN "readCert" ELSE "stat")
  BY DEF Start, StartOnReload, NewManager, MainPCs
<1>3. /\ pc' \in [Threads -> MainPCs \union WatchPCs]
      /\ pc'["main"] = l /\ pc'["watch"] = pc["watch"]
  BY <1>2, GotoMain DEF IInv
<1>4. TypeOK'
  BY <1>1, <1>3 DEF IInv, TypeOK
<1>5. ~ Watched /\ ~ Watched'
  BY <1>1, <1>3 DEF IInv, ThreadsOK, Watched
<1>6. ThreadsOK'
  BY <1>1, <1>2, <1>3, <1>5, TheThreads DEF IInv, ThreadsOK, Generating
<1>7. SelfManagedOK'
  BY <1>1, <1>2, <1>3 DEF SelfManagedOK, Fresh
<1>8. ExternalOK'
  BY <1>1, <1>2, <1>3, <1>5 DEF ExternalOK, Fresh
<1> QED
  BY <1>4, <1>6, <1>7, <1>8 DEF IInv

(* loadCA looks at the key file, and goes on only if it is private.         *)
LEMMA StatKeyStep == ASSUME IInv, FlagsOK', StatKey PROVE IInv'
<1>1. /\ pc["main"] = "stat"
      /\ UNCHANGED <<external, now, certFile, keyFile, loose, made, cert, got, events, missed, early, downs, writes>>
  BY DEF StatKey, fileVars, watchVars, downVars
<1>2. PICK l \in MainPCs : Goto("main", l) /\ l = (IF keyFile = NoFile \/ loose THEN "createCert" ELSE "readCert")
  BY DEF StatKey, MainPCs
<1>3. /\ pc' \in [Threads -> MainPCs \union WatchPCs]
      /\ pc'["main"] = l /\ pc'["watch"] = pc["watch"]
  BY <1>2, GotoMain DEF IInv
<1>4. TypeOK'
  BY <1>1, <1>3 DEF IInv, TypeOK
<1>5. ~ external
  BY <1>1 DEF IInv, ThreadsOK, Generating
<1>6. ThreadsOK'
  BY <1>1, <1>2, <1>3, <1>5, TheThreads DEF IInv, ThreadsOK, Watched
<1>7. SelfManagedOK' /\ ExternalOK'
  BY <1>1, <1>2, <1>3, <1>5 DEF SelfManagedOK, ExternalOK, Fresh
<1> QED
  BY <1>4, <1>6, <1>7 DEF IInv

(* A goroutine has read the certificate ...                                 *)
LEMMA ReadCertStep ==
  ASSUME IInv, FlagsOK', NEW th \in Threads, ReadCert(th) PROVE IInv'
<1>1. /\ pc[th] = "readCert" /\ got' = [got EXCEPT ![th] = certFile]
      /\ UNCHANGED <<external, now, certFile, keyFile, loose, made, cert, events, missed, early, downs, writes>>
      /\ Goto(th, "readKey")
  BY DEF ReadCert, fileVars, watchVars, downVars
<1>2. got' \in [Threads -> Certificates \union {NoFile, Torn}] /\ got'[th] = certFile
      /\ \A t \in Threads \ {th} : got'[t] = got[t]
  BY <1>1 DEF IInv, TypeOK
<1>3. /\ pc' \in [Threads -> MainPCs \union WatchPCs] /\ pc'["main"] \in MainPCs /\ pc'["watch"] \in WatchPCs
      /\ pc'[th] = "readKey" /\ \A t \in Threads \ {th} : pc'[t] = pc[t]
  BY <1>1, GotoMain, GotoWatch, TheThreads DEF IInv, TypeOK, MainPCs, WatchPCs
<1>4. Watched' <=> Watched
  BY <1>1, <1>3, TheThreads DEF Watched
<1>5. TypeOK'
  BY <1>1, <1>2, <1>3, TheThreads DEF IInv, TypeOK
<1>6. ThreadsOK'
  BY <1>1, <1>2, <1>3, <1>4, TheThreads DEF IInv, ThreadsOK, Generating
<1>7. \A t \in Threads : t # th /\ Fresh(t) => Fresh(t)'
  BY <1>1, <1>2, <1>3 DEF Fresh, Pairs
<1>8. Fresh(th)'
  BY <1>1, <1>2, <1>3 DEF Fresh
<1>9. SelfManagedOK'
  <2> SUFFICES ASSUME ~ external PROVE SelfManagedOK'
    BY <1>1 DEF SelfManagedOK
  <2>1. th = "main"
    BY <1>1, TheThreads DEF IInv, TypeOK
  <2> QED
    BY <1>1, <1>3, <1>8, <2>1 DEF IInv, SelfManagedOK
<1>10. ExternalOK'
  <2>1. ~ Watched => th = "main"
    BY <1>1, TheThreads DEF Watched
  <2>2. CASE th = "main"
    <3>1. ~ Watched
      BY <1>1, <2>2 DEF IInv, ThreadsOK
    <3> QED
      BY <1>1, <1>3, <1>4, <1>8, <2>2, <3>1 DEF ExternalOK
  <2>3. CASE th = "watch"
    BY <1>1, <1>3, <1>4, <1>8, <2>1, <2>3 DEF ExternalOK
  <2> QED
    BY <2>2, <2>3, TheThreads
<1> QED
  BY <1>5, <1>6, <1>9, <1>10 DEF IInv

(* ... and then the key: the two go on together only if they pair.          *)
LEMMA ReadKeyMainStep == ASSUME IInv, FlagsOK', ReadKey("main") PROVE IInv'
<1>1. /\ pc["main"] = "readKey"
      /\ UNCHANGED <<external, now, certFile, keyFile, loose, made, cert, got, events, missed, early, downs, writes>>
  BY DEF ReadKey, fileVars, watchVars, downVars
<1>2. PICK l \in MainPCs : /\ Goto("main", l)
                           /\ l = (IF Pairs(got["main"], keyFile) THEN "check"
                                   ELSE IF external THEN "off" ELSE "createCert")
  BY DEF ReadKey, Unloadable, MainPCs
<1>3. /\ pc' \in [Threads -> MainPCs \union WatchPCs]
      /\ pc'["main"] = l /\ pc'["watch"] = pc["watch"]
  BY <1>2, GotoMain DEF IInv
<1>4. TypeOK'
  BY <1>1, <1>3 DEF IInv, TypeOK
<1>5. ~ Watched /\ ~ Watched'
  BY <1>1, <1>3 DEF IInv, ThreadsOK, Watched
<1>6. got["main"] \in Certificates \union {NoFile, Torn}
  BY TheThreads DEF IInv, TypeOK
<1>7. ThreadsOK'
  BY <1>1, <1>2, <1>3, <1>5, <1>6, TheThreads DEF IInv, ThreadsOK, Generating, Pairs
<1>8. Fresh("main") => Fresh("main")'
  BY <1>1, <1>2, <1>3 DEF Fresh, Pairs
<1>9. SelfManagedOK'
  BY <1>1, <1>2, <1>3, <1>8 DEF IInv, SelfManagedOK
<1>10. ExternalOK'
  BY <1>1, <1>2, <1>3, <1>5, <1>8 DEF IInv, ExternalOK
<1> QED
  BY <1>4, <1>7, <1>9, <1>10 DEF IInv

LEMMA ReadKeyWatchStep == ASSUME IInv, FlagsOK', ReadKey("watch") PROVE IInv'
<1>1. /\ pc["watch"] = "readKey"
      /\ UNCHANGED <<external, now, certFile, keyFile, loose, made, cert, got, events, missed, early, downs, writes>>
  BY DEF ReadKey, fileVars, watchVars, downVars
<1>2. PICK l \in WatchPCs : /\ Goto("watch", l)
                            /\ l = (IF Pairs(got["watch"], keyFile) THEN "check" ELSE "wait")
  BY DEF ReadKey, Unloadable, WatchPCs
<1>3. /\ pc' \in [Threads -> MainPCs \union WatchPCs]
      /\ pc'["watch"] = l /\ pc'["main"] = pc["main"]
  BY <1>2, GotoWatch DEF IInv
<1>4. external /\ Watched /\ Watched'
  BY <1>1, <1>2, <1>3 DEF IInv, TypeOK, Watched
<1>5. TypeOK'
  BY <1>1, <1>3, <1>4 DEF IInv, TypeOK
<1>6. got["watch"] \in Certificates \union {NoFile, Torn}
  BY TheThreads DEF IInv, TypeOK
<1>7. ThreadsOK'
  BY <1>1, <1>2, <1>3, <1>4, <1>6, TheThreads DEF IInv, ThreadsOK, Generating, Pairs
<1>8. Fresh("watch") => Fresh("watch")' /\ (l = "wait" => ~ Pairs(certFile, keyFile))
  BY <1>1, <1>2, <1>3 DEF Fresh, Pairs
<1>9. SelfManagedOK'
  BY <1>1, <1>4 DEF SelfManagedOK
<1>10. ExternalOK'
  <2>1. Pairs(certFile, keyFile)' <=> Pairs(certFile, keyFile)
    BY <1>1 DEF Pairs
  <2> QED
    BY <1>1, <1>3, <1>4, <1>8, <2>1 DEF IInv, ExternalOK
<1> QED
  BY <1>5, <1>7, <1>9, <1>10 DEF IInv

(* EnsureCA takes the pair it has loaded only if it is valid.               *)
LEMMA CheckStep == ASSUME IInv, FlagsOK', Check PROVE IInv'
<1>1. /\ pc["main"] = "check" /\ got["main"] \in Certificates
      /\ UNCHANGED <<external, now, certFile, keyFile, loose, made, got, events, missed, early, downs, writes>>
  BY TheThreads DEF Check, fileVars, watchVars, downVars, IInv, ThreadsOK
<1>2. PICK l \in MainPCs : /\ Goto("main", l)
                           /\ l \in {"off", "createCert", "watcher"}
                           /\ l = "createCert" => ~ external
                           /\ l = "watcher" => cert' = got["main"]
                           /\ cert' \in {cert, got["main"]}
  BY DEF Check, Fail, MainPCs
<1>3. /\ pc' \in [Threads -> MainPCs \union WatchPCs]
      /\ pc'["main"] = l /\ pc'["watch"] = pc["watch"]
  BY <1>2, GotoMain DEF IInv
<1>4. TypeOK'
  BY <1>1, <1>2, <1>3 DEF IInv, TypeOK
<1>5. ~ Watched /\ ~ Watched'
  BY <1>1, <1>3 DEF IInv, ThreadsOK, Watched
<1>6. ThreadsOK'
  BY <1>1, <1>2, <1>3, <1>5, TheThreads DEF IInv, ThreadsOK, Generating
<1>7. Fresh("main") /\ l = "watcher" => cert' = certFile /\ keyFile = certFile.id
  BY <1>1, <1>2 DEF Fresh, Pairs
<1>8. Fresh("main")'
  BY <1>2, <1>3 DEF Fresh
<1>9. SelfManagedOK'
  BY <1>1, <1>2, <1>3, <1>7, <1>8 DEF IInv, SelfManagedOK
<1>10. ExternalOK'
  BY <1>1, <1>2, <1>3, <1>5, <1>7, <1>8 DEF IInv, ExternalOK
<1> QED
  BY <1>4, <1>6, <1>9, <1>10 DEF IInv

(* reloadCA takes it over from what was in use.                             *)
LEMMA CheckReloadedStep == ASSUME IInv, FlagsOK', CheckReloaded PROVE IInv'
<1>1. /\ pc["watch"] = "check" /\ got["watch"] \in Certificates
      /\ cert' = (IF Valid(got["watch"]) THEN got["watch"] ELSE cert)
      /\ UNCHANGED <<external, now, certFile, keyFile, loose, made, got, events, missed, downs, writes>>
      /\ (~ early' => got["watch"].notBefore <= now)
  <2>1. ~ early' => got["watch"].notBefore <= now
    BY Zenon DEF CheckReloaded
  <2> QED
    BY <2>1, TheThreads DEF CheckReloaded, fileVars, watchVars, downVars, IInv, ThreadsOK
<1>2. "wait" \in WatchPCs /\ Goto("watch", "wait")
  BY DEF CheckReloaded, WatchPCs
<1>3. /\ pc' \in [Threads -> MainPCs \union WatchPCs]
      /\ pc'["watch"] = "wait" /\ pc'["main"] = pc["main"]
  BY <1>2, GotoWatch DEF IInv
<1>4. external /\ Watched /\ Watched'
  BY <1>1, <1>3 DEF IInv, TypeOK, Watched
<1>5. TypeOK'
  BY <1>1, <1>2, <1>3, <1>4 DEF IInv, TypeOK
<1>6. ThreadsOK'
  BY <1>1, <1>3, <1>4, TheThreads DEF IInv, ThreadsOK, Generating
<1>7. SelfManagedOK'
  BY <1>1, <1>4 DEF SelfManagedOK
<1>8. Fresh("watch") => got["watch"] = certFile
  BY <1>1 DEF Fresh
<1>9. Fresh("watch") /\ ~ early' => cert' = certFile \/ Dead(certFile)'
  <2>1. now \in Int /\ now' = now /\ certFile' = certFile
    BY <1>1 DEF IInv, TypeOK
  <2> SUFFICES ASSUME Fresh("watch"), ~ early' PROVE cert' = certFile \/ Dead(certFile)'
    OBVIOUS
  <2>2. got["watch"] = certFile /\ certFile \in Certificates /\ certFile.notBefore <= now
    BY <1>1, <1>8
  <2>3. Valid(certFile) \/ Dead(certFile)
    BY <2>1, <2>2 DEF Valid, Dead, Certificates
  <2>4. Dead(certFile)' <=> Dead(certFile)
    BY <2>1 DEF Dead
  <2> QED
    BY <1>1, <2>2, <2>3, <2>4
<1>10. Fresh("watch")'
  BY <1>3 DEF Fresh
<1>11. ExternalOK'
  BY <1>1, <1>3, <1>4, <1>8, <1>9, <1>10 DEF IInv, ExternalOK
<1> QED
  BY <1>5, <1>6, <1>7, <1>11 DEF IInv
-----------------------------------------------------------------------------
(* generateAndSaveCA.  Its steps need only say what they leave in the files *)
(* for the step they go to.                                                 *)
LEMMA GeneratingStep ==
  ASSUME IInv, FlagsOK', ~ external, UNCHANGED <<external, now, got, events, writes>>,
         NEW l \in {"off", "writeCert", "createKey", "writeKey", "chmod", "watcher"}, Goto("main", l),
         certFile' \in Certificates \union {NoFile, Torn}, keyFile' \in Int \union {NoFile, Torn},
         made' \in Nat, cert' \in Certificates \union {NoFile}, downs' \in 0 .. MaxDowns,
         l \in {"createKey", "writeKey", "chmod"} => certFile' \in Certificates /\ certFile'.id = made',
         l = "chmod" => keyFile' = made',
         l = "watcher" => cert' = certFile' /\ keyFile' = cert'.id /\ ~ loose'
  PROVE  IInv'
<1>1. l \in MainPCs
  BY DEF MainPCs
<1>2. /\ pc' \in [Threads -> MainPCs \union WatchPCs]
      /\ pc'["main"] = l /\ pc'["watch"] = pc["watch"]
  BY <1>1, GotoMain DEF IInv
<1>3. TypeOK'
  BY <1>1, <1>2 DEF IInv, TypeOK
<1>4. pc["watch"] = "off"
  BY DEF IInv, TypeOK
<1>5. ThreadsOK'
  BY <1>2, <1>4, TheThreads DEF ThreadsOK, Watched
<1>6. Fresh("main")'
  BY <1>2 DEF Fresh
<1>7. SelfManagedOK' /\ ExternalOK'
  BY <1>2, <1>6 DEF SelfManagedOK, ExternalOK
<1> QED
  BY <1>3, <1>5, <1>7 DEF IInv

(* A certificate that was just generated.                                   *)
LEMMA NewCertificate ==
  ASSUME NEW i \in Int, NEW b \in Int, NEW n \in Int
  PROVE  /\ [id |-> i, good |-> TRUE, notBefore |-> b, notAfter |-> n] \in Certificates
         /\ [id |-> i, good |-> TRUE, notBefore |-> b, notAfter |-> n].id = i
<1>1. ASSUME NEW g \in BOOLEAN
      PROVE  [id |-> i, good |-> g, notBefore |-> b, notAfter |-> n] \in Certificates
  BY <1>1, Zenon DEF Certificates
<1> QED
  BY <1>1, Zenon

LEMMA GenerateStep ==
  ASSUME IInv, FlagsOK', CreateCert \/ WriteCert \/ CreateKey \/ WriteKey \/ ChmodKey PROVE IInv'
<1>1. /\ pc["main"] \in {"createCert", "writeCert", "createKey", "writeKey", "chmod"}
      /\ UNCHANGED <<external, now, got, events, writes>>
  BY DEF CreateCert, WriteCert, CreateKey, WriteKey, ChmodKey, watchVars
<1>2. ~ external
  BY <1>1 DEF IInv, ThreadsOK, Generating
<1>3. /\ certFile \in Certificates \union {NoFile, Torn} /\ keyFile \in Int \union {NoFile, Torn}
      /\ made \in Nat /\ made + 1 \in Nat /\ now \in Int /\ now + Validity \in Int
      /\ cert \in Certificates \union {NoFile} /\ downs \in 0 .. MaxDowns
  BY DEF IInv, TypeOK
<1>4. /\ pc["main"] \in {"createKey", "writeKey", "chmod"} =>
           certFile \in Certificates /\ certFile.id = made
      /\ pc["main"] = "chmod" => keyFile = made
  BY <1>2 DEF IInv, SelfManagedOK
<1>5. CASE CreateCert
  <2>1. CASE certFile' = Torn /\ Goto("main", "writeCert") /\ UNCHANGED downVars
    BY <1>1, <1>2, <1>3, <1>5, <2>1, GeneratingStep DEF CreateCert, downVars
  <2>2. CASE SystemCallFails /\ UNCHANGED certFile
    BY <1>1, <1>2, <1>3, <1>5, <2>2, GeneratingStep DEF CreateCert, SystemCallFails, Fail
  <2> QED
    BY <1>5, <2>1, <2>2 DEF CreateCert
<1>6. CASE WriteCert
  <2>1. CASE /\ made' = made + 1 /\ Goto("main", "createKey") /\ UNCHANGED downVars
             /\ certFile' = [id |-> made + 1, good |-> TRUE, notBefore |-> now, notAfter |-> now + Validity]
    <3>1. certFile' \in Certificates /\ certFile'.id = made'
      BY <1>3, <2>1, NewCertificate
    <3> QED
      BY <1>1, <1>2, <1>3, <1>6, <2>1, <3>1, GeneratingStep DEF WriteCert, downVars
  <2>2. CASE SystemCallFails /\ UNCHANGED <<made, certFile>>
    BY <1>1, <1>2, <1>3, <1>6, <2>2, GeneratingStep DEF WriteCert, SystemCallFails, Fail
  <2> QED
    BY <1>6, <2>1, <2>2 DEF WriteCert
<1>7. CASE CreateKey
  <2>1. CASE keyFile' = Torn /\ Goto("main", "writeKey") /\ UNCHANGED <<downVars, certFile>>
    BY <1>1, <1>2, <1>3, <1>4, <1>7, <2>1, GeneratingStep DEF CreateKey, downVars
  <2>2. CASE SystemCallFails /\ certFile' = NoFile /\ UNCHANGED keyFile
    BY <1>1, <1>2, <1>3, <1>7, <2>2, GeneratingStep DEF CreateKey, SystemCallFails, Fail
  <2> QED
    BY <1>7, <2>1, <2>2 DEF CreateKey
<1>8. CASE WriteKey
  <2>1. CASE keyFile' = made /\ Goto("main", "chmod") /\ UNCHANGED <<downVars, certFile>>
    BY <1>1, <1>2, <1>3, <1>4, <1>8, <2>1, GeneratingStep DEF WriteKey, downVars
  <2>2. CASE SystemCallFails /\ certFile' = NoFile /\ UNCHANGED keyFile
    BY <1>1, <1>2, <1>3, <1>8, <2>2, GeneratingStep DEF WriteKey, SystemCallFails, Fail
  <2> QED
    BY <1>8, <2>1, <2>2 DEF WriteKey
<1>9. CASE ChmodKey
  <2>1. CASE /\ ~ loose' /\ cert' = certFile
             /\ Goto("main", "watcher") /\ UNCHANGED <<downVars, certFile, keyFile>>
    BY <1>1, <1>2, <1>3, <1>4, <1>9, <2>1, GeneratingStep DEF ChmodKey, downVars
  <2>2. CASE SystemCallFails /\ certFile' = NoFile /\ keyFile' = NoFile /\ UNCHANGED cert
    BY <1>1, <1>2, <1>3, <1>9, <2>2, GeneratingStep DEF ChmodKey, SystemCallFails, Fail
  <2>3. CASE SystemCallFails /\ UNCHANGED <<cert, certFile, keyFile>>
    BY <1>1, <1>2, <1>3, <1>9, <2>3, GeneratingStep DEF ChmodKey, SystemCallFails, Fail
  <2> QED
    BY <1>9, <2>1, <2>2, <2>3 DEF ChmodKey
<1> QED
  BY <1>5, <1>6, <1>7, <1>8, <1>9
-----------------------------------------------------------------------------
(* The watcher starts with what Start has read ...                          *)
LEMMA StartWatcherStep == ASSUME IInv, FlagsOK', StartWatcher PROVE IInv'
<1>1. /\ pc["main"] = "watcher"
      /\ UNCHANGED <<external, now, certFile, keyFile, loose, made, cert, got, missed, early, writes>>
  BY DEF StartWatcher, fileVars
<1>2. ~ Watched
  BY <1>1 DEF IInv, ThreadsOK
<1>3. CASE pc' = At("listen", IF external THEN "wait" ELSE "off") /\ events' = {} /\ UNCHANGED downVars
  <2>1. /\ pc' \in [Threads -> MainPCs \union WatchPCs] /\ pc'["main"] = "listen"
        /\ pc'["watch"] = (IF external THEN "wait" ELSE "off")
    BY <1>3, AtBoth DEF MainPCs, WatchPCs
  <2>2. TypeOK'
    BY <1>1, <1>3, <2>1 DEF IInv, TypeOK, MainPCs, WatchPCs, downVars
  <2>3. ThreadsOK'
    BY <2>1, TheThreads DEF ThreadsOK, Generating
  <2>4. SelfManagedOK'
    BY <1>1, <2>1 DEF IInv, SelfManagedOK, Fresh
  <2>5. ExternalOK'
    BY <1>1, <1>2, <2>1 DEF IInv, ExternalOK, Fresh, Watched
  <2> QED
    BY <2>2, <2>3, <2>4, <2>5 DEF IInv
<1>4. CASE external /\ SystemCallFails /\ UNCHANGED events
  <2>1. "off" \in MainPCs /\ Goto("main", "off") /\ downs' = downs + 1 /\ downs < MaxDowns
    BY <1>4 DEF SystemCallFails, Fail, MainPCs
  <2>2. /\ pc' \in [Threads -> MainPCs \union WatchPCs]
        /\ pc'["main"] = "off" /\ pc'["watch"] = pc["watch"]
    BY <2>1, GotoMain DEF IInv
  <2>3. TypeOK'
    BY <1>1, <1>4, <2>1, <2>2 DEF IInv, TypeOK
  <2>4. ThreadsOK' /\ ~ Watched'
    BY <1>1, <1>2, <2>2, TheThreads DEF IInv, ThreadsOK, Generating, Watched
  <2>5. SelfManagedOK' /\ ExternalOK'
    BY <1>1, <1>4, <2>2, <2>4 DEF SelfManagedOK, ExternalOK, Fresh
  <2> QED
    BY <2>3, <2>4, <2>5 DEF IInv
<1> QED
  BY <1>3, <1>4 DEF StartWatcher

(* ... and serving, stopping and joining touch neither files nor events.    *)
LEMMA ServingStep == ASSUME IInv, FlagsOK', Listen \/ Stop \/ JoinWatcher PROVE IInv'
<1>1. /\ UNCHANGED <<external, now, certFile, keyFile, loose, made, cert, got, events, early, writes>>
      /\ missed' = missed \/ ~ Watched
  BY DEF Listen, Stop, JoinWatcher, fileVars, Watched
<1>2. PICK l \in MainPCs : /\ Goto("main", l) /\ l \in {"up", "join", "abort", "down", "off"}
                           /\ l = "up" => pc["main"] = "listen"
                           /\ l \in {"join", "abort"} => pc["main"] \in {"listen", "up"}
                           /\ l \in {"down", "off"} => ~ Watched
                           /\ l \in {"up", "join", "abort"} => missed' = missed
                           /\ downs' = downs \/ (downs < MaxDowns /\ downs' = downs + 1)
  BY DEF Listen, Stop, JoinWatcher, MainPCs, downVars, Watched
<1>3. pc["main"] \in {"listen", "up", "join", "abort"}
  BY DEF Listen, Stop, JoinWatcher
<1>4. /\ pc' \in [Threads -> MainPCs \union WatchPCs]
      /\ pc'["main"] = l /\ pc'["watch"] = pc["watch"]
  BY <1>2, GotoMain DEF IInv
<1>5. TypeOK'
  BY <1>1, <1>2, <1>4 DEF IInv, TypeOK
<1>6. Watched' <=> Watched
  BY <1>4 DEF Watched
<1>7. ThreadsOK'
  BY <1>1, <1>2, <1>4, <1>6, TheThreads DEF IInv, ThreadsOK, Generating
<1>8. SelfManagedOK'
  BY <1>1, <1>2, <1>4 DEF IInv, SelfManagedOK, Fresh
<1>9. (Fresh("watch") => Fresh("watch")') /\ Fresh("main")'
  BY <1>1, <1>2, <1>4 DEF Fresh, Pairs
<1>10. ExternalOK'
  BY <1>1, <1>2, <1>4, <1>6, <1>9 DEF IInv, ExternalOK, Pairs, Dead
<1> QED
  BY <1>5, <1>7, <1>8, <1>10 DEF IInv

LEMMA CrashStep == ASSUME IInv, FlagsOK', Crash PROVE IInv'
<1>1. /\ pc' = At("down", "off") /\ cert' = NoFile /\ events' = {}
      /\ downs < MaxDowns /\ downs' = downs + 1
      /\ UNCHANGED <<external, now, certFile, keyFile, loose, made, got, writes>>
  BY DEF Crash, fileVars
<1>2. /\ pc' \in [Threads -> MainPCs \union WatchPCs]
      /\ pc'["main"] = "down" /\ pc'["watch"] = "off"
  BY <1>1, AtBoth DEF MainPCs, WatchPCs
<1>3. TypeOK'
  BY <1>1, <1>2 DEF IInv, TypeOK, MainPCs, WatchPCs
<1>4. ThreadsOK'
  BY <1>2, TheThreads DEF ThreadsOK, Watched, Generating
<1>5. SelfManagedOK' /\ ExternalOK'
  BY <1>2 DEF SelfManagedOK, ExternalOK, Fresh, Watched
<1> QED
  BY <1>3, <1>4, <1>5 DEF IInv

(* Another program writes a file: the watcher has an event, or the change   *)
(* is missed, or nothing has been read yet.                                 *)
LEMMA ExternalWriteStep ==
  ASSUME IInv, FlagsOK', NEW c \in Installs, NEW what \in {"cert", "key", "data"}, ExternalWrite(c, what)
  PROVE  IInv'
<1>1. /\ external /\ writes < MaxWrites /\ writes' = writes + 1
      /\ certFile' = (IF what = "key" THEN certFile ELSE c)
      /\ keyFile' = (IF what = "cert" THEN keyFile ELSE c.id)
      /\ events' = (IF Watched THEN events \union {what} ELSE events)
      /\ UNCHANGED <<external, now, made, cert, pc, got, early, downs>>
  BY DEF ExternalWrite, downVars
<1>2. c \in Certificates /\ c.id \in Int
  BY InstallAssumption DEF Certificates
<1>3. Watched' <=> Watched
  BY <1>1 DEF Watched
<1>4. TypeOK'
  <2>1. certFile' \in Certificates \union {NoFile, Torn} /\ keyFile' \in Int \union {NoFile, Torn}
    BY <1>1, <1>2 DEF IInv, TypeOK
  <2>2. events' \subseteq {"cert", "key", "data"} /\ writes' \in 0 .. MaxWrites
    BY <1>1 DEF IInv, TypeOK
  <2> QED
    BY <1>1, <2>1, <2>2 DEF IInv, TypeOK
<1>5. ThreadsOK'
  BY <1>1, <1>3 DEF IInv, ThreadsOK
<1>6. SelfManagedOK'
  BY <1>1 DEF SelfManagedOK
<1>7. ExternalOK'
  <2>1. CASE Watched
    <3>1. events' # {}
      BY <1>1, <2>1
    <3> QED
      BY <1>3, <2>1, <3>1 DEF ExternalOK
  <2>2. CASE ~ Watched
    <3>1. ~ missed' => pc["main"] \in {"down", "off", "readCert"}
      BY <2>2, Zenon DEF ExternalWrite
    <3> QED
      BY <1>1, <1>3, <2>2, <3>1 DEF ExternalOK, Fresh
  <2> QED
    BY <2>1, <2>2
<1> QED
  BY <1>4, <1>5, <1>6, <1>7 DEF IInv

(* watchLoop takes an event, and reads both files again, or it returns.     *)
LEMMA WatchLoopStep ==
  ASSUME IInv, FlagsOK', WatchExits \/ \E what \in {"cert", "key", "data"} : WatchEvent(what)
  PROVE  IInv'
<1>1. /\ pc["watch"] = "wait" /\ events' \subseteq events
      /\ UNCHANGED <<external, now, certFile, keyFile, loose, made, cert, got, missed, early, downs, writes>>
  BY DEF WatchExits, WatchEvent, fileVars, watchVars, downVars
<1>2. PICK l \in WatchPCs : Goto("watch", l) /\ l \in {"readCert", "exited"}
  BY DEF WatchExits, WatchEvent, Relevant, WatchPCs
<1>3. /\ pc' \in [Threads -> MainPCs \union WatchPCs]
      /\ pc'["watch"] = l /\ pc'["main"] = pc["main"]
  BY <1>2, GotoWatch DEF IInv
<1>4. external /\ Watched
  BY <1>1 DEF IInv, TypeOK, Watched
<1>5. TypeOK'
  BY <1>1, <1>3, <1>4 DEF IInv, TypeOK
<1>6. pc["main"] \in {"listen", "up", "join", "abort"}
  BY <1>4 DEF IInv, ThreadsOK
<1>7. ThreadsOK'
  BY <1>1, <1>2, <1>3, <1>6, TheThreads DEF ThreadsOK, Generating
<1>8. SelfManagedOK'
  BY <1>1, <1>4 DEF SelfManagedOK
<1>9. ExternalOK'
  BY <1>2, <1>3, <1>6 DEF ExternalOK, Fresh
<1> QED
  BY <1>5, <1>7, <1>8, <1>9 DEF IInv

LEMMA NextIInv == IInv /\ [Next]_vars => IInv'
<1> SUFFICES ASSUME IInv, [Next]_vars PROVE IInv'
  OBVIOUS
<1>0. FlagsOK' /\ "main" \in Threads /\ "watch" \in Threads
  BY FlagsKeep DEF IInv, TypeOK, Threads
<1>1. CASE Tick \/ Start \/ StartOnReload \/ Stop \/ Crash
  BY <1>0, <1>1, TickStep, StartStep, ServingStep, CrashStep
<1>2. CASE MainStep
  BY <1>0, <1>2, StatKeyStep, ReadCertStep, ReadKeyMainStep, CheckStep, GenerateStep, StartWatcherStep,
     ServingStep DEF MainStep
<1>3. CASE WatchStep \/ WatchExits
  BY <1>0, <1>3, ReadCertStep, ReadKeyWatchStep, CheckReloadedStep, WatchLoopStep DEF WatchStep
<1>4. ASSUME NEW c \in Installs, NEW what \in {"cert", "key", "data"}, ExternalWrite(c, what) PROVE IInv'
  BY <1>0, <1>4, ExternalWriteStep
<1>5. CASE Serve \/ UNCHANGED vars
  <2>1. UNCHANGED <<external, now, certFile, keyFile, loose, made, cert, pc, got, events, missed, early, downs, writes>>
    BY <1>5 DEF Serve, vars, fileVars, watchVars, downVars
  <2>2. TypeOK'
    BY <1>0, <2>1 DEF IInv, TypeOK
  <2>3. ThreadsOK' /\ SelfManagedOK' /\ ExternalOK'
    BY <2>1 DEF IInv, ThreadsOK, SelfManagedOK, ExternalOK, Fresh, Watched, Pairs, Dead
  <2> QED
    BY <2>2, <2>3 DEF IInv
<1> QED
  BY <1>1, <1>2, <1>3, <1>4, <1>5 DEF Next

(* In every reachable state the variables have their types and what a start *)
(* or a reload has read is what the files hold, unless a change was missed  *)
(* or its event is still to be handled.                                     *)
THEOREM Inductive == Spec => []IInv
BY InitIInv, NextIInv, PTL DEF Spec

(* The pair in use is the one in the configured files, with a key file that *)
(* passes the check of its mode, after any crashes and failed starts        *)
(* between any two writes; with an external writer, once every event was    *)
(* handled, if the pair is valid and was so when it was looked at.          *)
THEOREM SignsWithTheFiles == Spec => []InUseIsOnDisk
<1>1. IInv => InUseIsOnDisk
  <2> SUFFICES ASSUME IInv, pc["main"] = "up", external => Settled
               PROVE  cert = certFile /\ keyFile = cert.id /\ (loose => external)
    BY DEF InUseIsOnDisk
  <2>1. CASE ~ external
    BY <2>1 DEF IInv, SelfManagedOK
  <2>2. CASE external
    <3>1. Watched /\ events = {} /\ ~ missed /\ ~ early /\ pc["watch"] = "wait"
          /\ Pairs(certFile, keyFile) /\ Valid(certFile)
      BY <2>2 DEF Settled, Watched
    <3>2. certFile \in Certificates /\ now \in Int /\ ~ Dead(certFile)
      BY <3>1 DEF IInv, TypeOK, Certificates, Pairs, Valid, Dead
    <3>3. cert = certFile
      BY <2>2, <3>1, <3>2 DEF IInv, ExternalOK
    <3> QED
      BY <2>2, <3>1, <3>3 DEF Pairs
  <2> QED
    BY <2>1, <2>2
<1> QED
  BY <1>1, Inductive, PTL
=============================================================================
