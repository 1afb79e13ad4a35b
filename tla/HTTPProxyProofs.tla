--------------------------- MODULE HTTPProxyProofs ---------------------------
(* Proofs about HTTPProxy, for any number of connections, hosts, paths,      *)
(* configurations, reloads and restarts of the proxy.                        *)
EXTENDS HTTPProxy, WellFoundedInduction, TLAPS

(* A configuration that was loaded, with its version.                       *)
Loaded == [ver : 0 .. MaxVer, c : Configs]

(* A started proxy has a configuration and the credentials of the same one. *)
ProxiesOK ==
  \A g \in 1 .. last :
    /\ conf[g] \in Loaded /\ creds[g] \in Loaded
    /\ conf[g].ver = creds[g].ver /\ conf[g].ver <= ver

(* What the rules of the first route for the host say of a request.         *)
Permitted(routes, r) ==
  \E i \in 1 .. Len(routes) :
    LET route == routes[i] IN
    /\ r.host \in route.hosts
    /\ \A j \in 1 .. i - 1 : r.host \notin routes[j].hosts
    /\ \A j \in 1 .. Len(route.deny) : r.path \notin route.deny[j]
    /\ route.allow # <<>> => \E j \in 1 .. Len(route.allow) : r.path \in route.allow[j]

(* A connection: what its tunnel and the steps of its request stand for.    *)
ConnOK(k) ==
  /\ rpc[k] # "idle" => on[k] # 0 /\ req[k] \in Requests
  /\ tunnel[k] => on[k] # 0 /\ (auth[on[k]] => proved[k])
  /\ rpc[k] = "handle" => at[k] <= conf[on[k]].ver
  /\ rpc[k] \in {"creds", "resolve"} =>
       /\ rcfg[k] \in Loaded /\ at[k] <= rcfg[k].ver
       /\ auth[on[k]] => proved[k] \/ req[k].token
       /\ Permitted(rcfg[k].c.routes, req[k])
  /\ rpc[k] = "creds" => rcfg[k].ver <= creds[on[k]].ver
  /\ rpc[k] = "resolve" => rcreds[k] \in Loaded /\ rcfg[k].ver <= rcreds[k].ver

ConnsOK == \A k \in Conns : ConnOK(k)
IInv == TypeOK /\ ProxiesOK /\ ConnsOK /\ OneListener

USE BoundAssumption
-----------------------------------------------------------------------------
(* Policy: what findMatchingRoute and isRequestAllowed decide.              *)

LEMMA LeastNat ==
  ASSUME NEW T, T \subseteq Nat, T # {} PROVE \E x \in T : \A y \in T : x <= y
<1>1. PICK x \in T : \A y \in T : ~ (<<y, x>> \in OpToRel(<, Nat))
  BY NatLessThanWellFounded, WFMin, Zenon
<1>2. \A y \in T : ~ (y < x)
  BY <1>1 DEF OpToRel
<1> QED
  BY <1>2

(* findMatchingRoute returns the first route that matches the host.         *)
LEMMA FirstRoute ==
  ASSUME NEW routes, Len(routes) \in Nat, NEW host, FindMatchingRoute(routes, host) # 0
  PROVE  LET i == FindMatchingRoute(routes, host) IN
         /\ i \in 1 .. Len(routes) /\ host \in routes[i].hosts
         /\ \A j \in 1 .. i - 1 : host \notin routes[j].hosts
<1> DEFINE matching == {i \in 1 .. Len(routes) : host \in routes[i].hosts}
           i == FindMatchingRoute(routes, host)
<1>1. matching # {} /\ i = CHOOSE x \in matching : \A j \in matching : x <= j
  BY DEF FindMatchingRoute
<1>2. matching \subseteq Nat
  OBVIOUS
<1>3. \E x \in matching : \A j \in matching : x <= j
  <2> HIDE DEF matching
  <2> QED
    BY <1>1, <1>2, LeastNat
<1>4. i \in matching /\ \A j \in matching : i <= j
  <2> HIDE DEF matching, i
  <2> QED
    BY <1>1, <1>3
<1>5. ASSUME NEW j \in 1 .. i - 1 PROVE host \notin routes[j].hosts
  BY <1>4
<1> QED
  BY <1>4, <1>5

(* A request that is let through is permitted by the first route for it.    *)
LEMMA AllowedIsPermitted ==
  ASSUME NEW c \in Configs, NEW r \in Requests, FindMatchingRoute(c.routes, r.host) # 0,
         IsRequestAllowed(c.routes[FindMatchingRoute(c.routes, r.host)], r.path)
  PROVE  Permitted(c.routes, r)
<1> DEFINE i == FindMatchingRoute(c.routes, r.host)
<1>1. Len(c.routes) \in Nat
  BY ConfigAssumption
<1>2. /\ i \in 1 .. Len(c.routes) /\ r.host \in c.routes[i].hosts
      /\ \A j \in 1 .. i - 1 : r.host \notin c.routes[j].hosts
  BY <1>1, FirstRoute
<1>3. ~ Matches(c.routes[i].deny, r.path)
      /\ (c.routes[i].allow = <<>> \/ Matches(c.routes[i].allow, r.path))
  BY DEF IsRequestAllowed
<1> HIDE DEF i
<1> QED
  BY <1>2, <1>3 DEF Permitted, Matches
-----------------------------------------------------------------------------
LEMMA VersionedLoaded ==
  ASSUME TypeOK, ver < MaxVer, NEW c \in Configs
  PROVE  Versioned(c) \in Loaded /\ Versioned(c).ver = ver + 1
BY DEF TypeOK, Versioned, Loaded

LEMMA LoadedVersions == Loaded \subseteq Versions
BY DEF Loaded, Versions

LEMMA InitIInv == Init => IInv
<1> SUFFICES ASSUME Init PROVE IInv
  OBVIOUS
<1>0. None \in Versions /\ 0 \in 0 .. MaxVer
  BY DEF Versions
<1>1. FlagsOK
  BY Zenon DEF Init, FlagsOK
<1>2. cfg \in Versions
  BY LoadedVersions DEF Init, Loaded
<1>3. TypeOK
  BY <1>0, <1>1, <1>2 DEF Init, TypeOK
<1>4. ProxiesOK /\ ConnsOK
  BY DEF Init, ProxiesOK, ConnsOK, ConnOK
<1>5. OneListener
  BY DEF Init, OneListener, Insts
<1> QED
  BY <1>3, <1>4, <1>5 DEF IInv

(* Flags stay flags.                                                        *)
LEMMA FlagsKeep == ASSUME FlagsOK PROVE [Next]_vars => FlagsOK'
<1> USE DEF FlagsOK, vars, proxyVars, connVars, reqVars
<1>1. ASSUME NEW c \in Configs, Reload(c) PROVE FlagsOK'
  <2>0. c.auth \in BOOLEAN
    BY ConfigAssumption
  <2>1. auth' \in [Insts -> BOOLEAN] /\ open' \in [Insts -> BOOLEAN]
    BY <1>1, <2>0, Zenon DEF Reload, ReloadOff, ReloadStaysOff, ReloadOn, ReloadRestart, ReloadConfig,
       ReloadStartFails, ReloadStopFails, StartProxy, StopProxy
  <2>2. stopped' \in [Insts -> BOOLEAN]
    BY <1>1, Zenon DEF Reload, ReloadOff, ReloadStaysOff, ReloadOn, ReloadRestart, ReloadConfig,
       ReloadStartFails, ReloadStopFails, StopDone
  <2> QED
    BY <1>1, <2>1, <2>2 DEF Reload
<1>2. ASSUME NEW c \in Configs, ReloadPanics(c) PROVE FlagsOK'
  BY <1>2, Zenon DEF ReloadPanics
<1>3. ASSUME NEW k \in Conns, Connect(k) \/ Close(k) PROVE FlagsOK'
  BY <1>3, Zenon DEF Connect, Close, Hangup
<1>4. ASSUME NEW k \in Conns, NEW token \in BOOLEAN, HandleConnect(k, token) PROVE FlagsOK'
  BY <1>4, Zenon DEF HandleConnect, Hangup
<1>5. ASSUME NEW k \in Conns, NEW r \in Requests, Send(k, r) PROVE FlagsOK'
  BY <1>5, Zenon DEF Send
<1>6. ASSUME NEW k \in Conns, HandleRequest(k) \/ SnapshotCreds(k) \/ Resolve(k) \/ HandleResponse(k)
      PROVE  FlagsOK'
  BY <1>6, Zenon DEF HandleRequest, SnapshotCreds, Resolve, HandleResponse
<1>7. CASE Idle \/ UNCHANGED vars
  BY <1>7, Zenon DEF Idle
<1>8. CASE ServeEnds
  BY <1>8, Zenon DEF ServeEnds
<1> QED
  BY <1>1, <1>2, <1>3, <1>4, <1>5, <1>6, <1>7, <1>8 DEF Next
-----------------------------------------------------------------------------
(* The reload.  A proxy that was started keeps whether it asks for the      *)
(* token, and its configuration and credentials only get newer.             *)
Newer ==
  /\ last <= last'
  /\ \A g \in 1 .. last :
       auth'[g] = auth[g] /\ conf[g].ver <= conf'[g].ver /\ creds[g].ver <= creds'[g].ver

(* What Reload changes of the proxies, once the listeners are left aside.   *)
LEMMA ReloadNewer ==
  ASSUME IInv, NEW c \in Configs, Reload(c)
  PROVE  /\ Newer /\ ProxiesOK'
         /\ last' \in 0 .. MaxInst /\ inst' \in 0 .. last'
         /\ conf' \in [Insts -> Versions] /\ creds' \in [Insts -> Versions]
<1>1. /\ ver \in 0 .. MaxVer /\ ver < MaxVer /\ ver' = ver + 1
      /\ last \in 0 .. MaxInst /\ inst \in 0 .. last
      /\ conf \in [Insts -> Versions] /\ creds \in [Insts -> Versions]
      /\ DOMAIN auth = Insts
      /\ Versioned(c) \in Loaded /\ Versioned(c).ver = ver + 1 /\ Versioned(c) \in Versions
  BY VersionedLoaded, LoadedVersions DEF IInv, TypeOK, FlagsOK, Reload
<1>2. \A g \in 1 .. last : g \in Insts /\ g # last + 1 /\ conf[g] \in Loaded /\ creds[g] \in Loaded
                           /\ conf[g].ver = creds[g].ver /\ conf[g].ver <= ver
                           /\ conf[g].ver \in 0 .. MaxVer
  BY <1>1 DEF IInv, ProxiesOK, Insts, Loaded
<1>3. CASE UNCHANGED <<last, conf, creds, auth>> /\ inst' \in {0, inst}
  BY <1>1, <1>2, <1>3 DEF Newer, ProxiesOK
<1>4. ASSUME NEW closed, StartProxy(c, closed)
      PROVE  /\ Newer /\ ProxiesOK'
             /\ last' \in 0 .. MaxInst /\ inst' \in 0 .. last'
             /\ conf' \in [Insts -> Versions] /\ creds' \in [Insts -> Versions]
  <2>1. /\ last' = last + 1 /\ inst' = last + 1 /\ last + 1 \in Insts
        /\ conf' = [conf EXCEPT ![last + 1] = Versioned(c)]
        /\ creds' = [creds EXCEPT ![last + 1] = Versioned(c)]
        /\ auth' = [auth EXCEPT ![last + 1] = c.auth]
    BY <1>1, <1>4 DEF StartProxy, Insts
  <2>2. conf' \in [Insts -> Versions] /\ creds' \in [Insts -> Versions]
    BY <1>1, <2>1
  <2>3. \A g \in 1 .. last : auth'[g] = auth[g] /\ conf'[g] = conf[g] /\ creds'[g] = creds[g]
    BY <1>1, <1>2, <2>1
  <2>4. conf'[last + 1] = Versioned(c) /\ creds'[last + 1] = Versioned(c)
    BY <1>1, <2>1
  <2>5. ASSUME NEW g \in 1 .. last' PROVE g \in 1 .. last \/ g = last + 1
    BY <1>1, <2>1
  <2>6. Newer
    BY <1>1, <1>2, <2>1, <2>3 DEF Newer
  <2>7. ProxiesOK'
    BY <1>1, <1>2, <2>3, <2>4, <2>5 DEF ProxiesOK
  <2> QED
    BY <1>1, <2>1, <2>2, <2>6, <2>7 DEF Insts
<1>5. CASE ReloadConfig(c)
  <2>1. /\ last' = last /\ inst' = inst /\ inst \in 1 .. last /\ auth' = auth
        /\ conf' = [conf EXCEPT ![inst] = Versioned(c)]
        /\ creds' = [creds EXCEPT ![inst] = Versioned(c)]
    BY <1>1, <1>5 DEF ReloadConfig
  <2>2. conf' \in [Insts -> Versions] /\ creds' \in [Insts -> Versions]
    BY <1>1, <2>1
  <2>3. \A g \in 1 .. last : g # inst => conf'[g] = conf[g] /\ creds'[g] = creds[g]
    BY <1>1, <1>2, <2>1
  <2>4. conf'[inst] = Versioned(c) /\ creds'[inst] = Versioned(c)
    BY <1>1, <1>2, <2>1
  <2>5. Newer
    BY <1>1, <1>2, <2>1, <2>3, <2>4 DEF Newer
  <2>6. ProxiesOK'
    BY <1>1, <1>2, <2>1, <2>3, <2>4 DEF ProxiesOK
  <2> QED
    BY <1>1, <2>1, <2>2, <2>5, <2>6
<1>6. CASE ReloadOff(c) \/ ReloadStaysOff(c) \/ ReloadStartFails(c) \/ ReloadStopFails(c)
  BY <1>3, <1>6 DEF ReloadOff, ReloadStaysOff, ReloadStartFails, ReloadStopFails
<1>7. CASE ReloadOn(c) \/ ReloadRestart(c)
  BY <1>4, <1>7 DEF ReloadOn, ReloadRestart
<1> QED
  BY <1>5, <1>6, <1>7 DEF Reload

(* After a reload no proxy listens but the one in service.                  *)
LEMMA ReloadListens ==
  ASSUME IInv, NEW c \in Configs, Reload(c) PROVE OneListener'
<1>1. /\ open \in [Insts -> BOOLEAN] /\ last \in 0 .. MaxInst /\ inst \in 0 .. last
      /\ \A g \in Insts : open[g] => g = inst
  BY DEF IInv, TypeOK, FlagsOK, OneListener
<1>2. \A g \in Insts : ~ StopProxy[g]
  BY <1>1, Zenon DEF StopProxy
<1>3. DOMAIN StopProxy = Insts /\ 0 \notin Insts
  BY <1>1 DEF StopProxy, Insts
<1>4. ASSUME NEW closed, DOMAIN closed = Insts, \A g \in Insts : ~ closed[g], StartProxy(c, closed)
      PROVE  OneListener'
  <2>1. last + 1 \in Insts /\ inst' = last + 1 /\ open' = [closed EXCEPT ![last + 1] = TRUE]
    BY <1>1, <1>4 DEF StartProxy, Insts
  <2> QED
    BY <1>4, <2>1 DEF OneListener
<1>5. CASE open' = StopProxy
  BY <1>2, <1>5 DEF OneListener
<1>6. CASE open' = open /\ inst' = inst
  BY <1>1, <1>6 DEF OneListener
<1>7. CASE ReloadRestart(c)
  BY <1>2, <1>3, <1>4, <1>7 DEF ReloadRestart
<1>8. CASE ReloadOn(c)
  <2>1. \A g \in Insts : ~ open[g]
    BY <1>1, <1>3, <1>8 DEF ReloadOn
  <2> QED
    BY <1>1, <1>4, <1>8, <2>1 DEF ReloadOn
<1> QED
  BY <1>5, <1>6, <1>7, <1>8
  DEF Reload, ReloadOff, ReloadStaysOff, ReloadConfig, ReloadStartFails, ReloadStopFails

(* A connection keeps what it stands for while the proxies are reloaded.    *)
LEMMA ReloadKeepsConns ==
  ASSUME IInv, Newer, ProxiesOK', last' \in 0 .. MaxInst, UNCHANGED <<connVars, reqVars>>
  PROVE  ConnsOK'
<1> SUFFICES ASSUME NEW k \in Conns PROVE ConnOK(k)'
  BY DEF ConnsOK
<1>1. /\ on[k] \in 0 .. last /\ last \in Nat /\ at[k] \in Nat /\ ConnOK(k)
      /\ rpc[k] \in {"idle", "handle", "creds", "resolve", "sent"}
  BY DEF IInv, TypeOK, ConnsOK
<1>2. /\ on' = on /\ tunnel' = tunnel /\ proved' = proved /\ req' = req /\ rpc' = rpc
      /\ rcfg' = rcfg /\ rcreds' = rcreds /\ at' = at
  BY DEF connVars, reqVars
<1>3. ASSUME on[k] # 0
      PROVE  /\ auth'[on[k]] = auth[on[k]]
             /\ conf[on[k]].ver <= conf'[on[k]].ver /\ creds[on[k]].ver <= creds'[on[k]].ver
             /\ conf[on[k]].ver \in Nat /\ conf'[on[k]].ver \in Nat
             /\ creds[on[k]].ver \in Nat /\ creds'[on[k]].ver \in Nat
  <2>1. on[k] \in 1 .. last /\ on[k] \in 1 .. last'
    BY <1>1, <1>3 DEF Newer
  <2> QED
    BY <2>1 DEF Newer, IInv, ProxiesOK, Loaded
<1>4. rcfg[k] \in Loaded => rcfg[k].ver \in Nat
  BY DEF Loaded
<1>5. (tunnel[k] => on[k] # 0 /\ (auth[on[k]] => proved[k]))'
  BY <1>1, <1>2, <1>3, Zenon DEF ConnOK
<1>6. (rpc[k] \in {"creds", "resolve"} => (auth[on[k]] => proved[k] \/ req[k].token))'
  BY <1>1, <1>2, <1>3, Zenon DEF ConnOK
<1> QED
  BY <1>1, <1>2, <1>3, <1>4, <1>5, <1>6 DEF ConnOK

LEMMA ReloadStep ==
  ASSUME IInv, FlagsOK', NEW c \in Configs, Reload(c) PROVE IInv'
<1>1. /\ Newer /\ ProxiesOK'
      /\ last' \in 0 .. MaxInst /\ inst' \in 0 .. last'
      /\ conf' \in [Insts -> Versions] /\ creds' \in [Insts -> Versions]
  BY ReloadNewer
<1>2. UNCHANGED <<connVars, reqVars>>
  BY DEF Reload
<1>3. ver' \in 0 .. MaxVer /\ cfg' \in Versions
  <2>1. ver' = ver + 1 /\ ver < MaxVer /\ ver \in 0 .. MaxVer /\ cfg \in Versions
    BY DEF Reload, IInv, TypeOK
  <2>2. Versioned(c) \in Versions
    BY <2>1, VersionedLoaded, LoadedVersions DEF IInv
  <2>3. cfg' \in {Versioned(c), cfg}
    BY DEF Reload, ReloadStartFails, ReloadStopFails
  <2> QED
    BY <2>1, <2>2, <2>3
<1>4. on' \in [Conns -> 0 .. last']
  <2>1. on \in [Conns -> 0 .. last] /\ last <= last' /\ last \in 0 .. MaxInst /\ on' = on
    BY <1>1, <1>2 DEF IInv, TypeOK, Newer, connVars
  <2> QED
    BY <1>1, <2>1
<1>5. /\ req' \in [Conns -> Requests \union {NoReq}]
      /\ rpc' \in [Conns -> {"idle", "handle", "creds", "resolve", "sent"}]
      /\ rcfg' \in [Conns -> Versions] /\ rcreds' \in [Conns -> Versions]
      /\ at' \in [Conns -> 0 .. MaxVer]
  BY <1>2 DEF IInv, TypeOK, reqVars
<1>6. TypeOK'
  BY <1>1, <1>3, <1>4, <1>5 DEF TypeOK, Insts
<1> QED
  BY <1>1, <1>2, <1>6, ReloadListens, ReloadKeepsConns DEF IInv

(* The process ends: nothing listens and no connection is left.             *)
LEMMA PanicStep ==
  ASSUME IInv, FlagsOK', NEW c \in Configs, ReloadPanics(c) PROVE IInv'
<1>1. None \in Versions /\ 0 \in 0 .. MaxVer
  BY DEF Versions
<1>2. ver' \in 0 .. MaxVer /\ 0 \in 0 .. last /\ last \in 0 .. MaxInst
  BY DEF ReloadPanics, IInv, TypeOK
<1>3. TypeOK'
  BY <1>1, <1>2 DEF ReloadPanics, IInv, TypeOK, Insts
<1>4. ProxiesOK'
  <2>1. ver' = ver + 1 /\ ver \in Nat /\ UNCHANGED <<last, conf, creds>> /\ ProxiesOK
    BY DEF ReloadPanics, IInv, TypeOK
  <2>2. \A g \in 1 .. last : conf[g].ver \in Nat
    BY <2>1 DEF ProxiesOK, Loaded
  <2> QED
    BY <2>1, <2>2 DEF ProxiesOK
<1>5. ConnsOK'
  <2> SUFFICES ASSUME NEW k \in Conns PROVE ConnOK(k)'
    BY DEF ConnsOK
  <2>1. rpc'[k] = "idle" /\ ~ tunnel'[k]
    BY DEF ReloadPanics
  <2> QED
    BY <2>1 DEF ConnOK
<1>6. OneListener'
  <2>1. inst' = 0 /\ \A g \in Insts : ~ open'[g] /\ g # 0
    BY DEF ReloadPanics, Insts
  <2> QED
    BY <2>1 DEF OneListener
<1> QED
  BY <1>3, <1>4, <1>5, <1>6 DEF IInv
-----------------------------------------------------------------------------
(* The connections.                                                         *)

(* The step of k leaves the other connections as they are.                  *)
Others(k) ==
  \A j \in Conns \ {k} :
    /\ on'[j] = on[j] /\ tunnel'[j] = tunnel[j] /\ proved'[j] = proved[j]
    /\ req'[j] = req[j] /\ rpc'[j] = rpc[j] /\ rcfg'[j] = rcfg[j]
    /\ rcreds'[j] = rcreds[j] /\ at'[j] = at[j]

LEMMA OtherConns ==
  ASSUME IInv, NEW k \in Conns, Others(k), UNCHANGED proxyVars, ConnOK(k)' PROVE ConnsOK'
<1> SUFFICES ASSUME NEW j \in Conns, j # k PROVE ConnOK(j)'
  BY DEF ConnsOK
<1>1. ConnOK(j) /\ auth' = auth /\ conf' = conf /\ creds' = creds
  BY DEF IInv, ConnsOK, proxyVars
<1>2. /\ on'[j] = on[j] /\ tunnel'[j] = tunnel[j] /\ proved'[j] = proved[j]
      /\ req'[j] = req[j] /\ rpc'[j] = rpc[j] /\ rcfg'[j] = rcfg[j]
      /\ rcreds'[j] = rcreds[j] /\ at'[j] = at[j]
  BY DEF Others
<1> QED
  BY <1>1, <1>2, Zenon DEF ConnOK

(* The step of a connection leaves the proxies as they are.                 *)
LEMMA ProxiesStay ==
  ASSUME IInv, UNCHANGED proxyVars, FlagsOK',
         on' \in [Conns -> 0 .. last],
         req' \in [Conns -> Requests \union {NoReq}],
         rpc' \in [Conns -> {"idle", "handle", "creds", "resolve", "sent"}],
         rcfg' \in [Conns -> Versions], rcreds' \in [Conns -> Versions],
         at' \in [Conns -> 0 .. MaxVer]
  PROVE  TypeOK' /\ ProxiesOK' /\ OneListener'
<1>1. /\ ver' = ver /\ cfg' = cfg /\ inst' = inst /\ last' = last /\ conf' = conf
      /\ creds' = creds /\ open' = open
  BY DEF proxyVars
<1>2. TypeOK'
  BY <1>1 DEF IInv, TypeOK, Insts
<1> QED
  BY <1>1, <1>2 DEF IInv, ProxiesOK, OneListener

(* What a connection knows of the proxy that serves it.                     *)
LEMMA ServedBy ==
  ASSUME IInv, NEW k \in Conns, on[k] # 0
  PROVE  /\ conf[on[k]] \in Loaded /\ creds[on[k]] \in Loaded
         /\ conf[on[k]].ver = creds[on[k]].ver
         /\ conf[on[k]].ver \in 0 .. MaxVer
<1>1. on[k] \in 1 .. last
  BY DEF IInv, TypeOK
<1> QED
  BY <1>1 DEF IInv, ProxiesOK, Loaded

(* The variables of the connections are functions on them.                  *)
LEMMA ConnTypes ==
  ASSUME IInv
  PROVE  /\ on \in [Conns -> 0 .. last] /\ tunnel \in [Conns -> BOOLEAN]
         /\ proved \in [Conns -> BOOLEAN]
         /\ req \in [Conns -> Requests \union {NoReq}]
         /\ rpc \in [Conns -> {"idle", "handle", "creds", "resolve", "sent"}]
         /\ rcfg \in [Conns -> Versions] /\ rcreds \in [Conns -> Versions]
         /\ at \in [Conns -> 0 .. MaxVer]
         /\ inst \in 0 .. last /\ last \in 0 .. MaxInst
BY DEF IInv, TypeOK, FlagsOK

LEMMA ConnectStep ==
  ASSUME IInv, FlagsOK', NEW k \in Conns, Connect(k) PROVE IInv'
<1>1. /\ on[k] = 0 /\ on' = [on EXCEPT ![k] = inst] /\ UNCHANGED proxyVars
      /\ UNCHANGED <<tunnel, proved, req, rpc, rcfg, rcreds, at>>
  BY DEF Connect, reqVars
<1>2. TypeOK' /\ ProxiesOK' /\ OneListener'
  BY <1>1, ConnTypes, ProxiesStay
<1>3. Others(k)
  BY <1>1, ConnTypes DEF Others
<1>4. ConnOK(k)'
  <2>1. ConnOK(k) /\ rpc[k] = "idle" /\ ~ tunnel[k]
    BY <1>1 DEF IInv, ConnsOK, ConnOK
  <2> QED
    BY <1>1, <2>1 DEF ConnOK
<1> QED
  BY <1>1, <1>2, <1>3, <1>4, OtherConns DEF IInv

LEMMA HangupStep ==
  ASSUME IInv, FlagsOK', NEW k \in Conns, rpc[k] = "idle", Hangup(k), UNCHANGED <<proxyVars, reqVars>>
  PROVE  IInv'
<1>1. /\ on' = [on EXCEPT ![k] = 0] /\ tunnel' = [tunnel EXCEPT ![k] = FALSE]
      /\ proved' = [proved EXCEPT ![k] = FALSE]
      /\ UNCHANGED proxyVars /\ UNCHANGED <<req, rpc, rcfg, rcreds, at>>
  BY DEF Hangup, reqVars
<1>2. TypeOK' /\ ProxiesOK' /\ OneListener'
  BY <1>1, ConnTypes, ProxiesStay
<1>3. Others(k)
  BY <1>1, ConnTypes DEF Others
<1>4. rpc'[k] = "idle" /\ ~ tunnel'[k]
  BY <1>1, ConnTypes
<1>5. ConnOK(k)'
  BY <1>4 DEF ConnOK
<1> QED
  BY <1>1, <1>2, <1>3, <1>5, OtherConns DEF IInv

LEMMA HandleConnectStep ==
  ASSUME IInv, FlagsOK', NEW k \in Conns, NEW token \in BOOLEAN, HandleConnect(k, token) PROVE IInv'
<1>1. on[k] # 0 /\ rpc[k] = "idle" /\ ~ tunnel[k] /\ UNCHANGED <<proxyVars, reqVars>>
  BY DEF HandleConnect
<1>2. CASE Hangup(k)
  BY <1>1, <1>2, HangupStep
<1>3. CASE /\ IsAuthenticated(k, token) /\ on' = on
           /\ tunnel' = [tunnel EXCEPT ![k] = TRUE] /\ proved' = [proved EXCEPT ![k] = token]
  <2>1. UNCHANGED proxyVars /\ UNCHANGED <<req, rpc, rcfg, rcreds, at>> /\ auth' = auth
    BY <1>1 DEF reqVars, proxyVars
  <2>2. TypeOK' /\ ProxiesOK' /\ OneListener'
    BY <1>3, <2>1, ConnTypes, ProxiesStay
  <2>3. Others(k)
    BY <1>3, <2>1, ConnTypes DEF Others
  <2>4. rpc'[k] = "idle" /\ on'[k] # 0 /\ proved'[k] = token
    BY <1>1, <1>3, <2>1, ConnTypes
  <2>5. auth'[on'[k]] => proved'[k]
    BY <1>1, <1>3, <2>1, <2>4, Zenon DEF IsAuthenticated
  <2>6. ConnOK(k)'
    BY <2>4, <2>5 DEF ConnOK
  <2> QED
    BY <2>1, <2>2, <2>3, <2>6, OtherConns DEF IInv
<1> QED
  BY <1>2, <1>3 DEF HandleConnect

LEMMA SendStep ==
  ASSUME IInv, FlagsOK', NEW k \in Conns, NEW r \in Requests, Send(k, r) PROVE IInv'
<1>1. /\ on[k] # 0 /\ rpc[k] = "idle" /\ rpc' = [rpc EXCEPT ![k] = "handle"]
      /\ req' = [req EXCEPT ![k] = r] /\ at' = [at EXCEPT ![k] = conf[on[k]].ver]
      /\ UNCHANGED proxyVars /\ UNCHANGED <<on, tunnel, proved, rcfg, rcreds>>
      /\ auth' = auth /\ conf' = conf
  BY DEF Send, connVars, proxyVars
<1>2. conf[on[k]].ver \in 0 .. MaxVer
  BY <1>1, ServedBy
<1>3. TypeOK' /\ ProxiesOK' /\ OneListener'
  BY <1>1, <1>2, ConnTypes, ProxiesStay
<1>4. Others(k)
  BY <1>1, ConnTypes DEF Others
<1>5. rpc'[k] = "handle" /\ req'[k] = r /\ at'[k] = conf[on[k]].ver /\ on'[k] = on[k]
  BY <1>1, ConnTypes
<1>6. (tunnel[k] => on[k] # 0 /\ (auth[on[k]] => proved[k]))'
  BY <1>1, Zenon DEF IInv, ConnsOK, ConnOK
<1>7. ConnOK(k)'
  BY <1>1, <1>2, <1>5, <1>6 DEF ConnOK
<1> QED
  BY <1>1, <1>3, <1>4, <1>7, OtherConns DEF IInv

(* A request that ends leaves its connection idle, as HandleRequest,        *)
(* Resolve and HandleResponse may.                                          *)
LEMMA AnswerStep ==
  ASSUME IInv, FlagsOK', NEW k \in Conns, Answer(k), UNCHANGED <<proxyVars, connVars>>,
         rcfg' \in {rcfg, [rcfg EXCEPT ![k] = None]},
         rcreds' \in {rcreds, [rcreds EXCEPT ![k] = None]}
  PROVE  IInv'
<1>1. /\ rpc' = [rpc EXCEPT ![k] = "idle"] /\ req' = [req EXCEPT ![k] = NoReq]
      /\ at' = [at EXCEPT ![k] = 0]
      /\ UNCHANGED proxyVars /\ UNCHANGED <<on, tunnel, proved>> /\ auth' = auth
  BY DEF Answer, connVars, proxyVars
<1>2. None \in Versions /\ 0 \in 0 .. MaxVer
  BY DEF Versions
<1>3. TypeOK' /\ ProxiesOK' /\ OneListener'
  BY <1>1, <1>2, ConnTypes, ProxiesStay
<1>4. Others(k)
  BY <1>1, ConnTypes DEF Others
<1>5. rpc'[k] = "idle"
  BY <1>1, ConnTypes
<1>6. (tunnel[k] => on[k] # 0 /\ (auth[on[k]] => proved[k]))'
  BY <1>1, Zenon DEF IInv, ConnsOK, ConnOK
<1>7. ConnOK(k)'
  BY <1>5, <1>6 DEF ConnOK
<1> QED
  BY <1>1, <1>3, <1>4, <1>7, OtherConns DEF IInv

(* The request goes on, or was sent.                                        *)
LEMMA SentStep ==
  ASSUME IInv, FlagsOK', NEW k \in Conns, rpc[k] # "idle", rpc' = [rpc EXCEPT ![k] = "sent"],
         UNCHANGED <<proxyVars, connVars, req, at>>,
         rcfg' \in {rcfg, [rcfg EXCEPT ![k] = None]},
         rcreds' \in {rcreds, [rcreds EXCEPT ![k] = None]}
  PROVE  IInv'
<1>1. UNCHANGED proxyVars /\ UNCHANGED <<on, tunnel, proved, req, at>> /\ auth' = auth
  BY DEF connVars, proxyVars
<1>2. None \in Versions
  BY DEF Versions
<1>3. TypeOK' /\ ProxiesOK' /\ OneListener'
  BY <1>1, <1>2, ConnTypes, ProxiesStay
<1>4. Others(k)
  BY <1>1, ConnTypes DEF Others
<1>5. rpc'[k] = "sent" /\ on'[k] # 0 /\ req'[k] \in Requests
  BY <1>1, ConnTypes DEF IInv, ConnsOK, ConnOK
<1>6. (tunnel[k] => on[k] # 0 /\ (auth[on[k]] => proved[k]))'
  BY <1>1, Zenon DEF IInv, ConnsOK, ConnOK
<1>7. ConnOK(k)'
  BY <1>5, <1>6 DEF ConnOK
<1> QED
  BY <1>1, <1>3, <1>4, <1>7, OtherConns DEF IInv

(* handleRequest goes on to inject only for a client that it accepted and a *)
(* request that the policy of its snapshot permits.                         *)
LEMMA HandleRequestStep ==
  ASSUME IInv, FlagsOK', NEW k \in Conns, HandleRequest(k) PROVE IInv'
<1> DEFINE cf == conf[on[k]]
           i == FindMatchingRoute(cf.c.routes, req[k].host)
<1>1. rpc[k] = "handle" /\ UNCHANGED <<proxyVars, connVars, rcreds>>
  BY DEF HandleRequest
<1>2. /\ on[k] # 0 /\ req[k] \in Requests /\ at[k] <= cf.ver
      /\ cf \in Loaded /\ cf.c \in Configs /\ cf.ver = creds[on[k]].ver
      /\ cf.ver \in 0 .. MaxVer /\ at[k] \in Nat /\ cf \in Versions
  <2>1. on[k] # 0 /\ req[k] \in Requests /\ at[k] <= cf.ver
    BY <1>1 DEF IInv, ConnsOK, ConnOK
  <2>2. cf \in Loaded /\ cf.ver = creds[on[k]].ver /\ cf.ver \in 0 .. MaxVer
    BY <2>1, ServedBy
  <2>3. at[k] \in Nat
    BY ConnTypes
  <2>4. cf.c \in Configs /\ cf \in Versions
    BY <2>2, LoadedVersions DEF Loaded
  <2> QED
    BY <2>1, <2>2, <2>3, <2>4
<1>3. CASE Answer(k) /\ rcfg' = rcfg
  BY <1>1, <1>3, AnswerStep
<1>4. CASE rpc' = [rpc EXCEPT ![k] = "sent"] /\ UNCHANGED <<req, at, rcfg>>
  BY <1>1, <1>4, SentStep
<1>5. CASE /\ IsAuthenticated(k, req[k].token) /\ i # 0
           /\ IsRequestAllowed(cf.c.routes[i], req[k].path)
           /\ rpc' = [rpc EXCEPT ![k] = "creds"] /\ rcfg' = [rcfg EXCEPT ![k] = cf]
           /\ UNCHANGED <<req, at>>
  <2>1. Permitted(cf.c.routes, req[k])
    BY <1>2, <1>5, AllowedIsPermitted
  <2> HIDE DEF cf, i
  <2>2. UNCHANGED proxyVars /\ UNCHANGED <<on, tunnel, proved, req, at, rcreds>> /\ auth' = auth
        /\ creds' = creds
    BY <1>1, <1>5 DEF connVars, proxyVars
  <2>3. TypeOK' /\ ProxiesOK' /\ OneListener'
    BY <1>2, <1>5, <2>2, ConnTypes, ProxiesStay
  <2>4. Others(k)
    BY <1>5, <2>2, ConnTypes DEF Others
  <2>5. rpc'[k] = "creds" /\ rcfg'[k] = cf
    BY <1>5, ConnTypes
  <2>6. (tunnel[k] => on[k] # 0 /\ (auth[on[k]] => proved[k]))'
    BY <2>2, Zenon DEF IInv, ConnsOK, ConnOK
  <2>7. (auth[on[k]] => proved[k] \/ req[k].token)'
    <3>1. tunnel[k] => (auth[on[k]] => proved[k])
      BY Zenon DEF IInv, ConnsOK, ConnOK
    <3> QED
      BY <1>5, <2>2, <3>1, Zenon DEF IsAuthenticated
  <2>8. Permitted(rcfg'[k].c.routes, req'[k])
    BY <2>1, <2>2, <2>5
  <2>9. ConnOK(k)'
    BY <1>2, <2>2, <2>5, <2>6, <2>7, <2>8 DEF ConnOK
  <2> QED
    BY <2>2, <2>3, <2>4, <2>9, OtherConns DEF IInv
<1> QED
  BY <1>3, <1>4, <1>5 DEF HandleRequest

(* The credentials read next are those of the same proxy, no older.         *)
LEMMA SnapshotCredsStep ==
  ASSUME IInv, FlagsOK', NEW k \in Conns, SnapshotCreds(k) PROVE IInv'
<1>1. /\ rpc[k] = "creds" /\ rcreds' = [rcreds EXCEPT ![k] = creds[on[k]]]
      /\ rpc' = [rpc EXCEPT ![k] = "resolve"]
      /\ UNCHANGED proxyVars /\ UNCHANGED <<on, tunnel, proved, req, at, rcfg>> /\ auth' = auth
  BY DEF SnapshotCreds, connVars, proxyVars
<1>2. /\ on[k] # 0 /\ req[k] \in Requests /\ rcfg[k] \in Loaded /\ at[k] <= rcfg[k].ver
      /\ Permitted(rcfg[k].c.routes, req[k]) /\ rcfg[k].ver <= creds[on[k]].ver
  BY <1>1 DEF IInv, ConnsOK, ConnOK
<1>3. creds[on[k]] \in Loaded /\ creds[on[k]] \in Versions
  BY <1>2, ServedBy, LoadedVersions
<1>4. TypeOK' /\ ProxiesOK' /\ OneListener'
  BY <1>1, <1>3, ConnTypes, ProxiesStay
<1>5. Others(k)
  BY <1>1, ConnTypes DEF Others
<1>6. rpc'[k] = "resolve" /\ rcreds'[k] = creds[on[k]]
  BY <1>1, ConnTypes
<1>7. (tunnel[k] => on[k] # 0 /\ (auth[on[k]] => proved[k]))'
  BY <1>1, Zenon DEF IInv, ConnsOK, ConnOK
<1>8. (auth[on[k]] => proved[k] \/ req[k].token)'
  <2>1. rpc[k] \in {"creds", "resolve"}
    BY <1>1
  <2> QED
    BY <1>1, <2>1, Zenon DEF IInv, ConnsOK, ConnOK
<1>9. Permitted(rcfg'[k].c.routes, req'[k])
  BY <1>1, <1>2
<1>10. ConnOK(k)'
  BY <1>1, <1>2, <1>3, <1>6, <1>7, <1>8, <1>9 DEF ConnOK
<1> QED
  BY <1>1, <1>4, <1>5, <1>10, OtherConns DEF IInv

LEMMA ResolveStep ==
  ASSUME IInv, FlagsOK', NEW k \in Conns, Resolve(k) PROVE IInv'
<1>1. /\ rpc[k] = "resolve" /\ UNCHANGED <<proxyVars, connVars>>
      /\ rcfg' = [rcfg EXCEPT ![k] = None] /\ rcreds' = [rcreds EXCEPT ![k] = None]
  BY DEF Resolve, Forget
<1>2. CASE Answer(k)
  BY <1>1, <1>2, AnswerStep
<1>3. CASE rpc' = [rpc EXCEPT ![k] = "sent"] /\ UNCHANGED <<req, at>>
  BY <1>1, <1>3, SentStep
<1> QED
  BY <1>2, <1>3 DEF Resolve
(* Connections outlive the listener that accepted them.                     *)
LEMMA ServeEndsStep ==
  ASSUME IInv, FlagsOK', ServeEnds PROVE IInv'
<1>1. /\ UNCHANGED <<connVars, reqVars>>
      /\ ver' = ver /\ cfg' = cfg /\ inst' = inst /\ last' = last /\ conf' = conf /\ creds' = creds
      /\ auth' = auth
      /\ open' = [open EXCEPT ![inst] = FALSE]
  BY DEF ServeEnds
<1>2. TypeOK' /\ ProxiesOK'
  BY <1>1 DEF IInv, TypeOK, ProxiesOK, Insts, connVars, reqVars
<1>3. ConnsOK'
  BY <1>1, Zenon DEF IInv, ConnsOK, ConnOK, connVars, reqVars
<1>4. OneListener'
  <2>1. open \in [Insts -> BOOLEAN] /\ \A g \in Insts : open[g] => g = inst
    BY DEF IInv, TypeOK, FlagsOK, OneListener
  <2> QED
    BY <1>1, <2>1, Zenon DEF OneListener
<1> QED
  BY <1>2, <1>3, <1>4 DEF IInv
-----------------------------------------------------------------------------
LEMMA NextIInv == IInv /\ [Next]_vars => IInv'
<1> SUFFICES ASSUME IInv, [Next]_vars PROVE IInv'
  OBVIOUS
<1>0. FlagsOK'
  BY FlagsKeep DEF IInv, TypeOK
<1>1. ASSUME NEW c \in Configs, Reload(c) \/ ReloadPanics(c) PROVE IInv'
  BY <1>0, <1>1, ReloadStep, PanicStep
<1>2. ASSUME NEW k \in Conns, Connect(k) PROVE IInv'
  BY <1>0, <1>2, ConnectStep
<1>3. ASSUME NEW k \in Conns, Close(k) PROVE IInv'
  BY <1>0, <1>3, HangupStep DEF Close
<1>4. ASSUME NEW k \in Conns, HandleRequest(k) \/ SnapshotCreds(k) \/ Resolve(k) PROVE IInv'
  BY <1>0, <1>4, HandleRequestStep, SnapshotCredsStep, ResolveStep
<1>5. ASSUME NEW k \in Conns, HandleResponse(k) PROVE IInv'
  BY <1>0, <1>5, AnswerStep DEF HandleResponse
<1>6. ASSUME NEW k \in Conns, NEW token \in BOOLEAN, HandleConnect(k, token) PROVE IInv'
  BY <1>0, <1>6, HandleConnectStep
<1>7. ASSUME NEW k \in Conns, NEW r \in Requests, Send(k, r) PROVE IInv'
  BY <1>0, <1>7, SendStep
<1>8. CASE Idle \/ UNCHANGED vars
  <2>1. UNCHANGED <<proxyVars, connVars, reqVars>>
    BY <1>8 DEF Idle, vars
  <2>2. TypeOK' /\ ProxiesOK' /\ OneListener'
    BY <1>0, <2>1, ConnTypes, ProxiesStay DEF connVars, reqVars
  <2>3. ConnsOK'
    BY <2>1, Zenon DEF IInv, ConnsOK, ConnOK, connVars, reqVars, proxyVars
  <2> QED
    BY <2>2, <2>3 DEF IInv
<1>9. CASE ServeEnds
  BY <1>0, <1>9, ServeEndsStep
<1> QED
  BY <1>1, <1>2, <1>3, <1>4, <1>5, <1>6, <1>7, <1>8, <1>9 DEF Next

(* In every reachable state the variables have their types, each proxy that *)
(* was started holds the configuration and the credentials of one load, and *)
(* each request has what its step of handleRequest stands for.              *)
THEOREM Inductive == Spec => []IInv
BY InitIInv, NextIInv, PTL DEF Spec

(* No proxy listens but the one in service, after every order of reloads,   *)
(* restarts, starts and stops that fail, and accept loops that end.         *)
THEOREM Listener == Spec => []OneListener
<1>1. IInv => OneListener
  BY DEF IInv
<1> QED
  BY <1>1, Inductive, PTL

(* A request that goes on from the resolution of its header has what the    *)
(* invariant says of it: the facts of the three theorems below.             *)
LEMMA InjectingIsOK ==
  ASSUME IInv, NEW k \in Conns, Injects(k)
  PROVE  /\ auth[on[k]] => proved[k] \/ req[k].token
         /\ at[k] <= rcfg[k].ver /\ rcfg[k].ver <= rcreds[k].ver
         /\ Permitted(rcfg[k].c.routes, req[k])
<1>1. ConnOK(k) /\ rpc[k] = "resolve" /\ rpc[k] \in {"creds", "resolve"}
  BY DEF IInv, ConnsOK, Injects
<1> QED
  BY <1>1, Zenon DEF ConnOK

(* A credential is injected only for a client that showed the token on the  *)
(* request or on the CONNECT of its tunnel, when its proxy asks for one,    *)
(* also when proxies with other settings were started since.                *)
THEOREM ClientsAuthenticated == Spec => InjectsForClients
<1>1. IInv /\ [Next]_vars =>
        [\A k \in Conns : Injects(k) /\ auth[on[k]] => proved[k] \/ req[k].token]_vars
  BY InjectingIsOK, Zenon
<1> QED
  BY <1>1, Inductive, PTL DEF Spec, InjectsForClients

(* The configuration of a request is no older than its arrival and its      *)
(* credentials no older than its configuration, whatever reloads come       *)
(* between the two reads.                                                   *)
THEOREM SnapshotOrder == Spec => SnapshotsInOrder
<1>1. IInv /\ [Next]_vars =>
        [\A k \in Conns : Injects(k) => at[k] <= rcfg[k].ver /\ rcfg[k].ver <= rcreds[k].ver]_vars
  BY InjectingIsOK, Zenon
<1> QED
  BY <1>1, Inductive, PTL DEF Spec, SnapshotsInOrder

(* A credential is injected only where the first route for the host permits *)
(* the path, under the configuration the request was judged by.             *)
THEOREM ByPolicy == Spec => InjectsByPolicy
<1>1. IInv /\ [Next]_vars =>
        [\A k \in Conns : Injects(k) => Permitted(rcfg[k].c.routes, req[k])]_vars
  BY InjectingIsOK, Zenon
<1> QED
  BY <1>1, Inductive, PTL DEF Spec, InjectsByPolicy, Permitted
=============================================================================
