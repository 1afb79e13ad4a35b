------------------------------ MODULE HTTPProxy ------------------------------
(***************************************************************************)
(* The credential-injecting HTTP proxy (src/internal/httpproxy/proxy.go,    *)
(* inject.go, security.go) under the hot reloads of the daemon              *)
(* (reloadConfig in src/internal/daemon/daemon.go): connections and         *)
(* requests run concurrently with ReloadConfig, Stop and the start of the   *)
(* next proxy.  goproxy, which calls the handlers, is external.  Hosts and  *)
(* paths are the ones that patterns tell apart; a rule is the set of paths  *)
(* it matches.                                                              *)
(***************************************************************************)
EXTENDS Integers, Sequences

CONSTANTS
  Conns,       \* connections of clients
  Hosts, Paths,
  Configs,     \* http_proxy sections, with the names of the credentials
  MaxVer,      \* bound: configurations loaded
  MaxInst,     \* bound: proxies started
  NoReq        \* no request

Routes == [hosts : SUBSET Hosts, allow : Seq(SUBSET Paths), deny : Seq(SUBSET Paths),
           cred : STRING]
(* section: there is an http_proxy section.  validateHTTPProxy: the          *)
(* credential a route refers to is defined.                                 *)
ASSUME ConfigAssumption ==
  \A c \in Configs :
    /\ c.section \in BOOLEAN /\ c.enabled \in BOOLEAN /\ c.auth \in BOOLEAN
    /\ c.enabled => c.section
    /\ c.routes \in Seq(Routes)
    /\ \A i \in 1 .. Len(c.routes) : c.routes[i].cred \in c.names
ASSUME BoundAssumption == MaxVer \in Nat /\ MaxInst \in Nat

VARIABLES
  ver,         \* configurations loaded so far
  cfg,         \* d.cfg with its version: it stays when a reload fails
  dead,        \* the daemon's process has panicked
  inst,        \* d.httpProxy: the number of the proxy in service, or 0
  last,        \* proxies started so far
  conf,        \* per proxy, p.cfg with its version
  creds,       \* per proxy, p.creds with their version
  auth,        \* per proxy, p.requireAuth
  open,        \* per proxy, its listener is open
  stopped,     \* per proxy, p.stopOnce was used
  on,          \* per connection, the proxy that serves it, or 0
  tunnel,      \* per connection, it is a tunnel that was authenticated
  proved,      \* per connection, a token was seen on it (history)
  req,         \* per connection, the request being handled
  rpc,         \* per connection: "idle", "handle", "creds", "resolve", "sent"
  rcfg,        \* per connection, the configuration handleRequest got
  rcreds,      \* per connection, the credentials it got
  at           \* per connection, p.cfg when the request arrived (history)

proxyVars == <<ver, cfg, dead, inst, last, conf, creds, auth, open, stopped>>
connVars == <<on, tunnel, proved>>
reqVars == <<req, rpc, rcfg, rcreds, at>>
vars == <<proxyVars, connVars, reqVars>>

Insts == 1 .. MaxInst
Requests == [host : Hosts, path : Paths, token : BOOLEAN]
None == [ver |-> 0]

(* The proxy is off at first: the start of the daemon is the first reload.  *)
Init ==
  /\ ver = 0 /\ cfg \in [ver : {0}, c : {c \in Configs : ~ c.enabled}]
  /\ dead = FALSE /\ inst = 0 /\ last = 0
  /\ conf = [g \in Insts |-> None]
  /\ creds = [g \in Insts |-> None]
  /\ auth = [g \in Insts |-> TRUE]
  /\ open = [g \in Insts |-> FALSE]
  /\ stopped = [g \in Insts |-> FALSE]
  /\ on = [k \in Conns |-> 0]
  /\ tunnel = [k \in Conns |-> FALSE]
  /\ proved = [k \in Conns |-> FALSE]
  /\ req = [k \in Conns |-> NoReq]
  /\ rpc = [k \in Conns |-> "idle"]
  /\ rcfg = [k \in Conns |-> None]
  /\ rcreds = [k \in Conns |-> None]
  /\ at = [k \in Conns |-> 0]
-----------------------------------------------------------------------------
(* Policy.                                                                  *)

(* findMatchingRoute: the first route that matches, 0 if none does.         *)
FindMatchingRoute(routes, host) ==
  LET matching == {i \in 1 .. Len(routes) : host \in routes[i].hosts} IN
  IF matching = {} THEN 0 ELSE CHOOSE i \in matching : \A j \in matching : i <= j

Matches(rules, path) == \E i \in 1 .. Len(rules) : path \in rules[i]

(* A mutant of IsRequestAllowed: a path that is allowed is not denied.      *)
AllowedBeforeDenied(route, path) ==
  \/ Matches(route.allow, path)
  \/ route.allow = <<>> /\ ~ Matches(route.deny, path)

(* isRequestAllowed: deny rules first, then allow rules if there are any.   *)
IsRequestAllowed(route, path) ==
  /\ ~ Matches(route.deny, path)
  /\ route.allow = <<>> \/ Matches(route.allow, path)

(* A mutant of IsAuthenticated: nothing is asked inside a tunnel.           *)
IsAuthenticatedOrPlain(k, token) == ~ auth[on[k]] \/ tunnel[k] \/ token \/ req[k] # NoReq

(* isAuthenticatedProxyRequest.                                             *)
IsAuthenticated(k, token) == ~ auth[on[k]] \/ tunnel[k] \/ token
-----------------------------------------------------------------------------
(* The daemon's reload of the proxy.                                        *)

Versioned(c) == [ver |-> ver + 1, c |-> c]

(* startHTTPProxy: New and Start, once the listeners closed are closed.     *)
StartProxy(c, closed) ==
  /\ last < MaxInst
  /\ last' = last + 1 /\ inst' = last + 1
  /\ conf' = [conf EXCEPT ![last + 1] = Versioned(c)]
  /\ creds' = [creds EXCEPT ![last + 1] = Versioned(c)]
  /\ auth' = [auth EXCEPT ![last + 1] = c.auth]
  /\ open' = [closed EXCEPT ![last + 1] = TRUE]

(* A mutant of StopProxy: the listener stays open.                          *)
StopProxyDetached == open

(* Proxy.Stop closes the listener and waits for the accept loop, not for    *)
(* the connections that were accepted.                                      *)
StopProxy == [open EXCEPT ![inst] = FALSE]

(* Its error is that of the listener's Close, so of the first call alone:   *)
(* it is certain when http.Serve had closed the listener already.           *)
StopMayFail == ~ stopped[inst]
StopMaySucceed == stopped[inst] \/ open[inst]
StopDone == stopped' = [stopped EXCEPT ![inst] = TRUE]

ReloadOff(c) ==
  /\ inst # 0 /\ ~ c.enabled
  /\ StopMaySucceed /\ StopDone
  /\ open' = StopProxy
  /\ inst' = 0
  /\ UNCHANGED <<last, conf, creds, auth>>

ReloadStaysOff(c) ==
  /\ inst = 0 /\ ~ c.enabled
  /\ UNCHANGED <<inst, last, conf, creds, auth, open, stopped>>

ReloadOn(c) ==
  /\ inst = 0 /\ c.enabled
  /\ StartProxy(c, open)
  /\ UNCHANGED stopped

(* The new settings are compared with those of d.cfg, when it has any.      *)
NeedsRestart(c) == c.auth # cfg.c.auth

ReloadRestart(c) ==
  /\ inst # 0 /\ c.enabled /\ cfg.c.section /\ NeedsRestart(c)
  /\ StopMaySucceed /\ StopDone
  /\ StartProxy(c, StopProxy)

(* A mutant of ReloadConfig: the credentials stay the old ones.             *)
ReloadConfigWithoutCreds(c) ==
  /\ inst # 0 /\ c.enabled /\ cfg.c.section /\ ~ NeedsRestart(c)
  /\ conf' = [conf EXCEPT ![inst] = Versioned(c)]
  /\ UNCHANGED <<inst, last, creds, auth, open, stopped>>

(* Proxy.ReloadConfig.                                                      *)
ReloadConfig(c) ==
  /\ inst # 0 /\ c.enabled /\ cfg.c.section /\ ~ NeedsRestart(c)
  /\ conf' = [conf EXCEPT ![inst] = Versioned(c)]
  /\ creds' = [creds EXCEPT ![inst] = Versioned(c)]
  /\ UNCHANGED <<inst, last, auth, open, stopped>>

(* A proxy that is to be started does not start.                            *)
ReloadStartFails(c) ==
  /\ c.enabled
  /\ \/ inst = 0 /\ UNCHANGED <<open, stopped>>
     \/ /\ inst # 0 /\ cfg.c.section /\ NeedsRestart(c)
        /\ StopMaySucceed /\ StopDone
        /\ open' = StopProxy
  /\ inst' = 0
  /\ UNCHANGED <<last, conf, creds, auth, cfg>>

(* Proxy.Stop returns an error: the proxy stays in service, its listener    *)
(* closed, and d.cfg stays.                                                 *)
ReloadStopFails(c) ==
  /\ inst # 0 /\ (c.enabled => cfg.c.section /\ NeedsRestart(c))
  /\ StopMayFail /\ StopDone
  /\ open' = StopProxy
  /\ UNCHANGED <<inst, last, conf, creds, auth, cfg>>

(* reloadConfig, of a configuration that was validated.  The audit logger   *)
(* is opened after the proxy has switched: when that fails d.cfg is not     *)
(* replaced.                                                                *)
Reload(c) ==
  /\ ~ dead /\ ver < MaxVer
  /\ ver' = ver + 1
  /\ \/ /\ \/ ReloadOff(c) \/ ReloadStaysOff(c) \/ ReloadOn(c)
           \/ ReloadRestart(c) \/ ReloadConfig(c)
        /\ cfg' \in {Versioned(c), cfg}
     \/ ReloadStartFails(c) \/ ReloadStopFails(c)
  /\ UNCHANGED <<dead, connVars, reqVars>>

(* d.cfg has no section to compare with: reloadConfig dereferences a nil    *)
(* pointer and the process ends.                                            *)
ReloadPanics(c) ==
  /\ ~ dead /\ ver < MaxVer
  /\ inst # 0 /\ c.enabled /\ ~ cfg.c.section
  /\ dead' = TRUE /\ ver' = ver + 1 /\ inst' = 0
  /\ open' = [g \in Insts |-> FALSE]
  /\ on' = [k \in Conns |-> 0]
  /\ tunnel' = [k \in Conns |-> FALSE]
  /\ proved' = [k \in Conns |-> FALSE]
  /\ req' = [k \in Conns |-> NoReq]
  /\ rpc' = [k \in Conns |-> "idle"]
  /\ rcfg' = [k \in Conns |-> None]
  /\ rcreds' = [k \in Conns |-> None]
  /\ at' = [k \in Conns |-> 0]
  /\ UNCHANGED <<cfg, last, conf, creds, auth, stopped>>

(* http.Serve returns by itself, after an error of Accept, and has closed   *)
(* the listener: the daemon logs it and keeps the proxy.                    *)
ServeEnds ==
  /\ inst # 0 /\ open[inst]
  /\ open' = [open EXCEPT ![inst] = FALSE]
  /\ UNCHANGED <<ver, cfg, dead, inst, last, conf, creds, auth, stopped, connVars, reqVars>>
-----------------------------------------------------------------------------
(* Clients.                                                                 *)

Connect(k) ==
  /\ on[k] = 0 /\ inst # 0 /\ open[inst]
  /\ on' = [on EXCEPT ![k] = inst]
  /\ UNCHANGED <<proxyVars, tunnel, proved, reqVars>>

(* The connection is closed, by the client or by the proxy.                 *)
Hangup(k) ==
  /\ on' = [on EXCEPT ![k] = 0]
  /\ tunnel' = [tunnel EXCEPT ![k] = FALSE]
  /\ proved' = [proved EXCEPT ![k] = FALSE]

Close(k) ==
  /\ on[k] # 0 /\ rpc[k] = "idle"
  /\ Hangup(k)
  /\ UNCHANGED <<proxyVars, reqVars>>

(* handleConnect: a tunnel is marked once its CONNECT is authenticated.     *)
HandleConnect(k, token) ==
  /\ on[k] # 0 /\ rpc[k] = "idle" /\ ~ tunnel[k]
  /\ \/ /\ IsAuthenticated(k, token)
        /\ tunnel' = [tunnel EXCEPT ![k] = TRUE]
        /\ proved' = [proved EXCEPT ![k] = token]
        /\ UNCHANGED on
     \/ ~ IsAuthenticated(k, token) /\ Hangup(k)
  /\ UNCHANGED <<proxyVars, reqVars>>

Send(k, r) ==
  /\ on[k] # 0 /\ rpc[k] = "idle"
  /\ rpc' = [rpc EXCEPT ![k] = "handle"]
  /\ req' = [req EXCEPT ![k] = r]
  /\ at' = [at EXCEPT ![k] = conf[on[k]].ver]
  /\ UNCHANGED <<proxyVars, connVars, rcfg, rcreds>>
-----------------------------------------------------------------------------
(* The handlers of a request.                                               *)

Answer(k) ==
  /\ rpc' = [rpc EXCEPT ![k] = "idle"]
  /\ req' = [req EXCEPT ![k] = NoReq]
  /\ at' = [at EXCEPT ![k] = 0]

(* The route of the request being handled, and whether there is one.        *)
RouteOf(k) == FindMatchingRoute(rcfg[k].c.routes, req[k].host)
Route(k) == rcfg[k].c.routes[RouteOf(k)]

(* handleRequest takes its snapshot of the configuration, checks the        *)
(* client and the form of the request, and decides: refuse, forward as it   *)
(* is, or go on to inject.                                                  *)
HandleRequest(k) ==
  LET cf == conf[on[k]]
      i == FindMatchingRoute(cf.c.routes, req[k].host) IN
  /\ rpc[k] = "handle"
  /\ \/ /\ ~ IsAuthenticated(k, req[k].token) \/ (i # 0 /\ ~ IsRequestAllowed(cf.c.routes[i], req[k].path))
        /\ Answer(k) /\ UNCHANGED rcfg
     \/ Answer(k) /\ UNCHANGED rcfg         \* no host, two hosts, two lengths
     \/ /\ IsAuthenticated(k, req[k].token) /\ i = 0
        /\ rpc' = [rpc EXCEPT ![k] = "sent"] /\ UNCHANGED <<req, at, rcfg>>
     \/ /\ IsAuthenticated(k, req[k].token) /\ i # 0
        /\ IsRequestAllowed(cf.c.routes[i], req[k].path)
        /\ rpc' = [rpc EXCEPT ![k] = "creds"]
        /\ rcfg' = [rcfg EXCEPT ![k] = cf]
        /\ UNCHANGED <<req, at>>
  /\ UNCHANGED <<proxyVars, connVars, rcreds>>

(* The credentials are read later, under the lock once more.                *)
SnapshotCreds(k) ==
  /\ rpc[k] = "creds"
  /\ rcreds' = [rcreds EXCEPT ![k] = creds[on[k]]]
  /\ rpc' = [rpc EXCEPT ![k] = "resolve"]
  /\ UNCHANGED <<proxyVars, connVars, req, at, rcfg>>

(* The locals of handleRequest die with it.                                 *)
Forget(k) ==
  /\ rcfg' = [rcfg EXCEPT ![k] = None]
  /\ rcreds' = [rcreds EXCEPT ![k] = None]

(* resolveHeaderValue: the name may be unknown, the backend may fail.       *)
Resolve(k) ==
  /\ rpc[k] = "resolve"
  /\ \/ Answer(k)
     \/ /\ Route(k).cred \in rcreds[k].c.names
        /\ rpc' = [rpc EXCEPT ![k] = "sent"]
        /\ UNCHANGED <<req, at>>
  /\ Forget(k)
  /\ UNCHANGED <<proxyVars, connVars>>

(* handleResponse, and the answer goes back.                                *)
HandleResponse(k) ==
  /\ rpc[k] = "sent"
  /\ Answer(k)
  /\ UNCHANGED <<proxyVars, connVars, rcfg, rcreds>>

(* The proxy waits for clients, or the process is gone.                     *)
Idle == (\A k \in Conns : rpc[k] = "idle") /\ UNCHANGED vars

Next ==
  \/ Idle \/ ServeEnds
  \/ \E c \in Configs : Reload(c) \/ ReloadPanics(c)
  \/ \E k \in Conns :
       \/ Connect(k) \/ Close(k) \/ HandleRequest(k) \/ SnapshotCreds(k) \/ Resolve(k)
       \/ HandleResponse(k)
       \/ \E token \in BOOLEAN : HandleConnect(k, token)
       \/ \E r \in Requests : Send(k, r)

Spec == Init /\ [][Next]_vars
-----------------------------------------------------------------------------
Versions == [ver : 0 .. MaxVer, c : Configs] \union {None}

FlagsOK ==
  /\ dead \in BOOLEAN /\ auth \in [Insts -> BOOLEAN] /\ open \in [Insts -> BOOLEAN]
  /\ stopped \in [Insts -> BOOLEAN]
  /\ tunnel \in [Conns -> BOOLEAN] /\ proved \in [Conns -> BOOLEAN]

(* Every variable keeps its type.                                           *)
TypeOK ==
  /\ FlagsOK
  /\ ver \in 0 .. MaxVer /\ cfg \in Versions
  /\ inst \in 0 .. last /\ last \in 0 .. MaxInst
  /\ conf \in [Insts -> Versions] /\ creds \in [Insts -> Versions]
  /\ on \in [Conns -> 0 .. last]
  /\ req \in [Conns -> Requests \union {NoReq}]
  /\ rpc \in [Conns -> {"idle", "handle", "creds", "resolve", "sent"}]
  /\ rcfg \in [Conns -> Versions] /\ rcreds \in [Conns -> Versions]
  /\ at \in [Conns -> 0 .. MaxVer]

(* The request of k is forwarded with a credential.                         *)
Injects(k) == rpc[k] = "resolve" /\ rpc'[k] = "sent"

(* A credential leaves the daemon only for a client that showed the token,  *)
(* when the proxy asks for one, over a tunnel as well.                      *)
InjectsForClients ==
  [][\A k \in Conns : Injects(k) /\ auth[on[k]] => proved[k] \/ req[k].token]_vars

(* A reload takes effect for the requests that arrive after it, and a       *)
(* request caught by a reload never pairs its policy with credentials that  *)
(* are older.                                                               *)
SnapshotsInOrder ==
  [][\A k \in Conns : Injects(k) => at[k] <= rcfg[k].ver /\ rcfg[k].ver <= rcreds[k].ver]_vars

(* Allow/Deny evaluation: a credential is sent only where the first route   *)
(* for the host has no deny rule and, if it has any, an allow rule for the  *)
(* path.                                                                    *)
InjectsByPolicy ==
  [][\A k \in Conns : Injects(k) =>
       \E i \in 1 .. Len(rcfg[k].c.routes) :
         LET route == rcfg[k].c.routes[i] IN
         /\ req[k].host \in route.hosts
         /\ \A j \in 1 .. i - 1 : req[k].host \notin rcfg[k].c.routes[j].hosts
         /\ \A j \in 1 .. Len(route.deny) : req[k].path \notin route.deny[j]
         /\ route.allow # <<>> => \E j \in 1 .. Len(route.allow) : req[k].path \in route.allow[j]]_vars

(* Only the proxy in service listens: no restart, stop or reload that fails *)
(* on the way leaves an old one accepting.  The proxy in service may be     *)
(* deaf: after a Stop that failed, or when http.Serve has ended.            *)
OneListener == \A g \in Insts : open[g] => g = inst

(* KUBERNETES.md: "An invalid config is rejected and the previous one stays *)
(* active".  The daemon outlives every reload, also one after a rejection.  *)
SurvivesReload == ~ dead
=============================================================================
