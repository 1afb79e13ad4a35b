# A TLA+ model of claw-wrap

claw-wrap runs command line tools with credentials on behalf of a sandbox. A
*wrapper* inside the sandbox signs a request and sends it over a Unix socket; a
*daemon* outside checks it, resolves credentials, runs the tool and streams its
output back. An *HTTP proxy* inside the daemon injects credentials into requests
that match a route. This directory holds TLA+ modules that model these parts,
the TLC configurations that check them on small instances, and proofs that TLAPS
checks for every instance. `PROJECT.json` lists components, runs, mutants, the
source lines of every definition, findings, hazards and theorems.

    cd tla
    tlc -workers 2 -config CredentialCache.cfg MCCredentialCache
    tlapm CredentialCacheProofs.tla

## Inventory

| Component | State | Operations | Interacts with |
|---|---|---|---|
| Credential cache (`credentials/cache.go`) | TTL, entries with refresh and hard expiry, sweeper goroutine, flights | `Get`, `staleEntry`, `fetchCached`, `SetCredential`, `SetTTL`, sweep | executors and the proxy call it concurrently; reload sets the TTL |
| Bitwarden session (`credentials/bitwarden.go`) | data directory, token, mutex | status, log-in, unlock, get item, cleanup | fetches of several keys share it; `Run` defers its cleanup |
| Other backends (`credentials/*.go`) | none | fetch | called inside a flight, with a timeout each |
| Authentication (`auth/`) | secret file, replay cache | sign, verify, `SeenOrStore`, `UpdateSettings` | one call per connection; reload changes limits; restart changes the secret |
| Daemon (`daemon/daemon.go`) | configuration, proxy, audit logger, watcher, slots | start, reload (SIGHUP and file watcher), accept or turn away, shutdown | owns everything below |
| Executor (`daemon/executor.go`, `outputbuf.go`) | process group, pipes, pumpers, buffers, spill files | start, pump, timeout, drain, finalize, audit, cleanup | the tool, the connection, the audit logger |
| Redactor (`daemon/output_redactor.go`) | bytes held back | redact a chunk, flush | in the output buffer |
| Wrapper (`wrapper/`), framing | channels between its goroutines, socket buffers | send the request, relay stdin, signals and window sizes, print output, exit | the connection handler and stdin pumper |
| HTTP proxy (`httpproxy/proxy.go`, `inject.go`) | configuration and credentials, listener, connections | start, stop, reload, CONNECT, request | reload; credential cache; CA |
| CA manager (`httpproxy/ca.go`) | two files, loaded certificate, watcher | ensure, generate, rotate, watch, reload | Start and Stop of the proxy |
| Audit (`audit/`) | open file | write, close | executors; reload |
| Argument policy (`daemon/args_policy.go`, `config/args_rules.go`) | compiled rules | compile at load, check at a call | configuration; connection handler |
| Configuration (`config/`), peer credentials, paths, command line | none | parse, validate, decide | used by the daemon |

What is hard here: goroutines that meet at locks which are released between a
check and its use (cache, reload, proxy); two goroutines that reload at once;
pumpers that outlive the run they belong to; every buffer on the way from the
wrapper's stdin to its stdout being bounded; files written one after the other
by a process that may die; and failures in the middle of a sequence of steps.
The hazards in `PROJECT.json` are at the lines where this bites.

## Modules

| Module | Models | Proofs |
|---|---|---|
| `CredentialCache` | the cache, its callers, `SetTTL`, sweepers | `CredentialCacheProofs` |
| `ReplayCache` | verification and replay cache, reloads, restarts | `RequestProofs` |
| `AdmitOnce` | what `ReplayCache` promises (abstract) | refinement, in `RequestProofs` |
| `BitwardenSession` | the session that Bitwarden fetches share | `BitwardenSessionProofs` |
| `ToolExecutor` | one run of a tool | `ToolExecutorProofs` |
| `ArgsPolicy`, `OutputRedactor` | the argument policy and the redactor, as operators | `RequestProofs` |
| `ToolCall` | composes these two: load, check, run, redact | `RequestProofs` |
| `ConfigReload` | start, reload, accept loop, connections, shutdown | `ConfigReloadProofs` |
| `WrapperSession` | one session, with pipes or on a terminal, from stdin to exit code | `WrapperSessionProofs` |
| `ConnectionDeadline` | the deadlines of one connection | |
| `CAManager` | certificate and key on disk and in use | `CAManagerProofs` |
| `HTTPProxy` | requests and tunnels under reloads | `HTTPProxyProofs` |

Each that is run has an `MC...` module with the sets its configuration uses, unless
it needs none. Common
conventions: a critical section, a system call or a channel operation is one
action; a clock reading that is used later is a step of its own; a program
counter names the next step; data is reduced to what is told apart (a
credential is empty or not and has an expiry, output is numbered chunks, a
configuration is a record of the settings that lead to different steps).
Variables called history in the declarations record what happened for the sake
of a property and are never read by a guard. Operators introduced as "a mutant
of" the next one are faulty variants that some property must detect; they are
not used by the specification.

### CredentialCache

A caller goes through `Get`, a possible delete in a second critical section,
`staleEntry`, `Do`, and as leader of the flight through the second `Get`, the
fetch, `SetCredential` and the end of the flight. A caller may be descheduled
anywhere, so the clock reading in `t[c]` may be old when it is used, and the TTL
may have changed between fetch and store. `SetTTL` is called by one goroutine
at a time (`Run`, then `reloadConfig` under its lock); it detaches the sweeper
under the lock, stops it, waits for it, and starts the next.

Checked: while the cache is disabled no static credential is in it
(`DisabledHoldsNoStatic`); each entry is refreshed within the TTL in force and
the margin before its expiry (`RefreshWithinBounds`); one fetch per key, begun
only when no usable entry is there (`RefreshedOnce`); what is served is usable (`ServedValid`); exactly the
attached sweeper runs (`SweeperFollowsTTL`); calls and `SetTTL` return
(`CallsReturn`), expired entries disappear (`ExpiredIsSwept`).

### ReplayCache and AdmitOnce

`Verify` and the clock reading for `SeenOrStore` are separate steps, so a handler
may be held up between them for up to `MaxDelay`. `Restart` gives the daemon a
new secret and an empty cache. The signature check decodes the HMAC from base64,
and the decoder passes over line breaks and spare bits, while the cache is keyed by the
text as it was sent. So the model tells a *request*, with its signature, from a
*message*, a request under one such text: `decoded` maps messages to requests and
is any function, chosen in the initial state. `AtMostOnce` says that no message is
handed on twice unless its entry was evicted for lack of room, or was stored with an expiry
before the last instant at which it can still pass (`brief`). It says nothing of
two messages with one signature, each of which is handed on (see Observations). The run has
the default lifetime, where the second exception never happens, and the floor of
the code, where it does.

`AdmitOnce` is the promise without the mechanism: four sets, of messages here, and the
steps admit, refuse and make room. One is admitted again only if its
admission was forgotten, and refused only if it was admitted.
`ImplementsAdmitOnce` is its specification under the mapping of `admitted` to the
messages handed on, `forgotten` to those whose entry was evicted or brief. Clock ticks,
signatures, verification, expiry and restarts are stutters of it.

### BitwardenSession

A fetch takes `bwMutex` for all of its work: it makes the data directory if there
is none, asks for the status, logs in, unlocks, and tries to get the item up to
three times, authenticating again when the CLI rejects the token. Commands may
fail, a context may end at any point, and someone else may lock the vault or log
it out between any two commands. `Run` defers the cleanup, which waits for the
mutex; fetches that wait with it may get it afterwards, before the process ends.

Checked: there is one data directory at most, that of the session
(`OneDataDir`); a fetch fails only if a command or its context failed, the vault
was taken away as often as there are attempts, or was logged out between status
and unlock (`FailsForCause`); every fetch and the cleanup return on every error
path (`FetchesReturn`).

### ToolExecutor

The main goroutine, a pumper per stream, `os/exec`'s context watcher and `Wait`,
the process group with one descendant (in the group or detached), and the
client. A chunk is one `Read`. Writes to an inline buffer hold the buffer's lock
during the send, so `Finalize`, the audit entry and `Cleanup` wait for it.
`HeldUp` is the only timing assumption: the cap on draining (5 s or 2 s) passes
only while a pumper is blocked by the client or by a silent writer, since
everything else takes far less. The redactor may put out all, the older part or
nothing of what it holds and is given. `Finalize` closes the spill file, so that
the write of a pumper that was given up on fails; opening or reading it again may
fail as a send may.

Checked: per stream order (`InOrder`) and completeness up to named causes
(`Complete`), the limit of each stream (`LimitEnforced`), no process of the group
and no spill file of a drained stream left (`LeavesNothing`), the audited size and
the amount of output that went into the audited hash (`BytesAccounted`), and that
runs end with their pumpers (`RunEnds`). Left out: a full disk in the middle of a
write to the spill file, the environment, and the temporary directory of the
tool's configuration file, which `cleanup` removes on every way out of `Run`.

### ArgsPolicy, OutputRedactor and ToolCall

A tool definition is loaded or refused (`ToolOK`), its rules are compiled, a call
is checked (`CheckToolArgs`) and, if admitted, its output goes through the
redactor chunk by chunk. Arguments are sequences of words, so that one argument
may hold what looks like two; patterns are texts that are searched for.
`PolicyEnforced` compares the verdict with the documented meaning of the file
(`Covers`), for rules of every mode including those that must be refused at load.
`StreamedAsWhole` compares stage one with the replacement of secrets in the whole
output. `NoMatchSent` says that no secret gets through stage one, whatever the
rules; and if each rule puts a mark in place of a text without marks (`Marking`, as
"[REDACTED]" for a token), that no secret and no head of a rule, of at most the
overlap and one more symbol, is in what was sent. Overlap and least length are 2
and not 128 and 8, with outputs of up to six symbols in chunks
of up to three. Both stages and the reference go through a text from left to right in the same way (`Scan`): they differ in where a
match begins, how long it is, and where the scan stops to keep the rest. A rule has
a pattern of the form `(head)tail*` and a replacement, a text of any symbols, alone
or behind `${1}` (`Expand`): a replacement may hold what another rule, or the rule
itself, matches, as that of `CONFIG.md:1066` does. Tools may write marks too, and
rules may match them; only credentials hold none (`SymbolAssumption`). A mark is
one symbol, where the code writes the ten bytes of "[REDACTED]", which the overlap
may cut and a rule may match in part.

### ConfigReload

Both reloading goroutines go through `load`, `lock`, `proxy`, `audit`, `open`,
`commit`. The signal goroutine also shuts down; it joins the watcher without a
lock. `InForce` says that when no reload is under way and none has failed, proxy,
audit logger, caches and `d.cfg` agree; `ShutdownStopsProxy`, that a reload in
flight at shutdown leaves no proxy; `CallsAudited`, that only a reload of the
audit log costs a running call its entry. `FileWins` says that the file comes
into force once it stays as it is, with the exceptions it names. The accept loop
takes a slot for a client or answers "server busy" itself, for which it needs the
lock that a reload holds: `ClientsAnswered` shows that no client is left waiting
for it, though a handler may keep its slot for ever. `ShutdownEnds` says that once
SIGTERM is in the signal channel `Run` returns: neither a reload in either
goroutine, the lock, the join of the watcher, the stop of the proxy nor a client
that is being turned away holds it up.

### WrapperSession

The wrapper's stdin reader, signal channel, response reader and select loop, the
handler's read of the request, the stdin pumper, the tool as a filter, and the
output pumper, with bounded channel, socket and pipes. Whether the caller has a
terminal is chosen in the initial state; then raw mode, the window size in the
request and in messages, and the tool's pseudo-terminal are part of the session
(raw mode may fail, and the daemon may run the tool with pipes all the same).
When the tool has exited the daemon waits for the output pumper, but only for so
long: `Finish` may send done while the pumper and the pipe still hold output, which
is then sent after it or not at all (`short`). The input pumper stops reading at an
empty line and after `read_message_timeout`; if the wrapper is still there the
session goes on with a pumper that is *deaf*.

`SizeFollows` shows that the tool's terminal has the caller's size once no change is
on its way, also when a resize falls between the request and the registration of
SIGWINCH, as long as the pumper is not deaf. `OutputBeforeExit` shows that a wrapper
that exits with the tool's code has printed what was sent ahead of done, no more and
no less, and all that the tool wrote unless the daemon gave output up. `SessionEnds` shows that the write timeout breaks the
circular wait; without it (the mutant) all three wait for ever, once the pumper
has stopped reading. A wrapper whose connection ends between frames without a
done message stays, as `ioLoop` ignores `io.EOF`. `StdinFaithful` shows that
the tool's input is a prefix of the caller's, and that it is closed before all of it
has come only if the tool or the wrapper has exited, the end overtook chunks in the
wrapper, or the pumper is deaf (see Observations).

### ConnectionDeadline

The read and the write deadline of a connection from `SetDeadline` on. A blocked
operation returns when its deadline is over; time passes while the handler waits.
The run `connection_lifetime` shows that the limit of `max_connection_lifetime`
is gone as soon as the request has been read (finding).

### CAManager and HTTPProxy

`CAManager` truncates, writes and changes the mode of each file as separate
steps, any of which may fail or be the last before a crash. When `Proxy.Start`
fails the daemon goes on without a proxy (`off`), and only a reload starts one
again; when the daemon itself is down, its start does. `InUseIsOnDisk` and
`StartsAgain` show that a mismatched pair is never used and is replaced at the next
start, unless what is on disk is a pair that `EnsureCA` refuses or a system call of
that start fails. In external mode files change under the watcher, and
`InUseIsOnDisk` shows that the last event leads to the pair on disk, if that pair is
valid and was so when it was looked at: certificates have a first and a last day,
and one that is refused as not yet valid becomes valid without an event. `loose`
is the comparison the code makes with the mode of the key, as a number. Both modes
are in one run, chosen in the initial state.

`HTTPProxy` numbers proxies and configurations. A request takes its
configuration in one step and its credentials in a later one. `d.cfg` is kept
apart from the configuration of the running proxy, as they differ after a reload
that failed late. `Proxy.Stop` may fail after it has closed the listener (the proxy
then stays in service without one), and `http.Serve` may end by itself. Checked: no
proxy listens but the one in service (`OneListener`), credentials are injected for authenticated clients
only, where the first matching route allows it, and with credentials not older
than the policy. The run `proxy_panic` shows that after a late failure the next
reload may dereference a nil section and end the daemon (finding). One connection
is enough, as connections share nothing but the proxy.

## Runs

| Run | Module | Time | Shows |
|---|---|---|---|
| `credential_cache` | `MCCredentialCache` | 80 s | the cache's five safety properties, `CallsReturn`, `ExpiredIsSwept` |
| `replay_cache` | `MCReplayCache` | 130 s | each message at most once, capacity, `AdmitOnce` is implemented |
| `executor_pipes` | `MCToolExecutor` | 160 s | two redacted, limited, spilling streams: order, completeness, the limit of each, byte counts, cleanup |
| `executor_terminal` | `MCToolExecutor` | 45 s | pseudo-terminal with a limit: size and hash, runs and pumpers end |
| `reload` | `MCConfigReload` | 160 s | one configuration in force, shutdown, audit entries, clients answered |
| `session` | `MCWrapperSession` | 95 s | input, output before exit, window size, sessions end |
| `ca` | `MCCAManager` | 40 s | the pair in use, restarts, stop |
| `proxy_safety` | `MCHTTPProxy` | 12 s | injection by client and policy, snapshots, only the proxy in service listens |
| `tool_call` | `MCToolCall` | 10 s | argument policy and redaction against their meaning |
| `bitwarden` | `MCBitwardenSession` | 45 s | one directory, recovery, no mutex kept |
| `proxy_panic` | `MCHTTPProxy` | 2 s | violation: `SurvivesReload` |
| `connection_lifetime` | `ConnectionDeadline` | 1 s | violation: `WithinLifetime` |

Each module with variables states its type invariant as `TypeOK` (`ToolCall`: `CallTypeOK`); it is proved
where the module has proofs. For each property `PROJECT.json` names a mutant of the
model that it detects.

## Observations

Behaviour met while modelling that differs from what the documentation or a
comment leads one to expect. The models contain it, and the properties above
name it as an exception where it matters.

- Credential cache: the stale entry is looked up before the flight that fails
  (`cache.go:271`), so a caller may report an error while another caller's
  credential is valid. `CONFIG.md` says credentials with an expiry are cached
  "regardless of this setting", but a change from one TTL to another drops them.
- Replay cache: the floor of `replay_cache_ttl` (10 s) is exactly twice the
  drift of 5 s, so the entry of a request from a clock that is ahead by nearly the
  drift can expire while the request is still accepted: the exception `brief` of
  `AtMostOnce`. With the default it does not occur (`LongRetentionSuffices`).
  The HMAC is compared after a base64 decoding that accepts several texts for one
  signature (`auth.go:238`), but the cache is keyed by the text (`daemon.go:903`):
  a request that arrives again with its HMAC written in another way is not found
  and is handed on once more, at any lifetime and capacity.
- Executor: the cap on draining (`executor.go:761`) costs a slow client output;
  `exec.CommandContext` kills the leader while `handleTimeout` begins with
  SIGTERM; a pumper given up on may create a spill file after cleanup;
  `max_output_size` counts each stream by itself (`executor.go:537`), where
  `CONFIG.md:288` says "Maximum combined stdout + stderr output": the two together
  may come to twice the limit, which happens in the run `executor_pipes`, so
  `LimitEnforced` is stated per stream; when the redactor's flush
  exceeds the limit, what was spilled is not streamed; a tool that exits with 0
  and is then found over the limit is reported with 0.
- Reload: of a SIGHUP and a file change that race, the one that read the older
  file may commit last (`daemon.go:407`), an exception that `FileWins` names;
  a reload that fails at the audit log has switched the
  proxy and closed the log, and going back to the old file does not reopen it;
  a running call's entry is lost when the audit log is replaced;
  `max_connections` is not changed by a reload.
- Session: the reader goroutine closes `stdinEOF` while chunks may wait in
  `stdinCh`, and the `select` (`wrapper.go:208`) may take the end of input first;
  the daemon then drops those chunks, though `CONFIG.md:1094` says "the caller's
  stdin is forwarded to the tool". A wrapper whose connection ends between two
  frames without a done message waits for ever (`wrapper.go:169`). A stdin chunk that fails after the tool's exit hides the exit code
  (`wrapper.go:204`); one `Read` may hold the request and the next message,
  a window size among them, which is refused as invalid JSON, or leave the newline
  to end the stdin pumper. So does `read_message_timeout` (15 s by default) when the
  caller types nothing and sends nothing for that long: from then on input, signals
  and window sizes are lost while the session goes on, though `CONFIG.md:1090`
  promises "interactive prompts, TUIs". Errors found before the request is
  parsed are not framed.
- Redactor: a rule with an unbounded match (`token=\S+`) that has begun to match
  is replaced at once, and the rest of the text in the next chunk is sent
  (`output_redactor.go:23` says "matches spanning chunks are found", `CONFIG.md:1074`
  that bytes are held back "to catch matches across chunk boundaries"); matches
  longer than the overlap and one more byte are missed likewise. The model has both
  kinds of rule; `NoMatchSent` is about the fixed part, up to that length. A
  replacement with `${1}` (`CONFIG.md:1065`) sends by design text that its rule still
  matches, and a rule may put out what another one, or a secret, is made of: then only
  stage one's promise holds. That credential values have nothing in common with
  marks is assumed.
- Bitwarden: a failed `bw status` is taken for "unauthenticated"
  (`bitwarden.go:127`), and logging in then fails because the CLI is logged in;
  the re-authentication after the last attempt is of no use; a fetch that gets
  the mutex after the cleanup, or a crash, leaves a data directory, and the sweep
  at the next start only looks for `claw-wrap-config-*` (`daemon.go:1211`).
- CA: rotation is looked at only when a proxy starts; an expired CA fails
  validation before rotation is considered, so the proxy does not start; a
  rotation between the first load and the start of the watcher is not noticed, and
  a pair that was refused as not yet valid (`ca.go:141`) is not looked at again when
  it becomes valid. A start of the proxy that fails, for a busy port or a failed
  write, is not tried again (`daemon.go:285`). The mode of the key is compared as a
  number (`ca.go:199`), so 0444 passes for "0600 or stricter". Tools are told to
  trust `ca.crt` (`executor.go:394`) whatever `cert_file` is.
- Proxy: a reload between the two snapshots of a request may pair a route with
  credentials that lack its name (the request fails); connections survive
  `Stop`; when closing the listener fails (`daemon.go:418`, `436`) or `http.Serve` ends by
  itself (`proxy.go:178`) the daemon keeps a proxy that does not listen, until a
  reload turns it off or restarts it; after a reload that failed late the next one may leave `require_auth`
  as it was.

## Bounds

Clocks, writes, signals, calls, restarts and failures are bounded by named
constants in guards. The instances are the smallest in which the interesting
cases occur: two callers of one key (one leads, one waits) with TTL changes
before, during and after a fetch and lifetimes on both sides of the margin; two
handlers of two messages, of one request or of two, with a capacity of one and two
and a window that closes inside the time bound; three chunks of stdout and one of
stderr, three in all (`MaxMade`), with a limit of two and a threshold of one (three
chunks on a terminal), so that output can be inline, held back, spilled and over the
limit, and both streams together over it; one mark among the symbols of output; two
reloading goroutines with two changes of the file, from one first file
(`BootFiles`) to every kind of other one, and two clients for one slot; three
chunks of stdin against a channel of two, a socket of two and pipes of one, so
that every buffer can be full; two callers of Bitwarden with three attempts and
as many lost sessions; three writes of the CA files, of four pairs, against one
watcher. Where
symmetry is used its elements are interchangeable and the run has no liveness
property.

## Fairness

Weak fairness of each goroutine's steps: the Go scheduler runs what can run, and
timers fire. Strong fairness in one place, the exit of the CA watcher from a
`select` that may have other events: Go's `select` chooses at random among ready
cases. Elsewhere what competes is bounded. A handler of a connection owes nothing
in `ConfigReload`. Nothing is assumed of the tool, its descendants, the client, the
contents of stdin or whoever changes files, with two exceptions that the code
enforces: a backend call ends (each has a timeout; a child of the `bw` CLI that keeps
its stdout open could outlast it, as no `WaitDelay` is set, and is left out), and a
tool ends (its context does). `CAManager` assumes that the daemon is started again
when it is down, by its service manager. A daemon that goes on without a proxy after
a failed start is not down: nobody need reload it, and no fairness is assumed of
`StartOnReload`.

## Proofs

Eight modules hold proofs, named after their component; `RequestProofs` follows a
request through its checks and its output and covers `ReplayCache` and `ToolCall`.
Each states an inductive invariant (`IInv`, and in `ToolCall` `PolicyInv` and
`OutputInv`), shows that `Init` implies it and that every
action keeps it, one lemma per action or per conjunct, and derives the properties
of the run from it. TLC has checked each as an invariant of the instance of
the run, but for `OutputInv`, which quantifies over all texts. Every safety
invariant that a run checks is a theorem. The constants are arbitrary up to the assumptions in the modules that declare them: bounds are
natural numbers, capacities are positive (a socket holds at least two messages),
`CallersAssumption` of the Bitwarden session (no caller is called "free", the
name of an unlocked mutex), `StreamAssumption` of the executor (at least one
stream, and no stream twice), and in `ToolCall` that arguments and rules are lists
(`ArgsAssumption`, `ToolAssumption`), that values are made of symbols and
rules of symbols and marks, with heads that are not empty (`ValueAssumption`,
`RuleAssumption`), and that "[REDACTED]" is a mark and no mark a symbol
(`SymbolAssumption`). Heads of any length and any replacements are allowed.

`CredentialCacheProofs` proves type correctness and the five safety properties of
the run, for any sets of callers and keys, any TTLs, lifetimes, margin and bounds.
The invariant has four parts: the types; what each program
counter says of the locals and of `leader` (a caller inside a flight leads its
key, so that there is one); the bounds of every stored entry relative to the TTL
in force, which holds through TTL changes because these drop what they would
falsify; and that a leader that goes on to fetch has found nothing usable since
its second look, for only the leader of a key stores entries of that key and
everyone else only removes them. The sweeper has an invariant of its own that
follows a stop through its three steps.

`RequestProofs` proves `AtMostOnce`, `WithinCapacity` and that `ReplayCache`
implements `AdmitOnce`. The
invariant says of each accepted message that its entry is still there and
expires after the last instant at which the message verifies, or that its
entry was evicted for room or brief, or that the window has closed, or that the
secret has changed. `LongRetentionSuffices` shows that nothing is brief when every
configured lifetime exceeds twice the drift and the delay. For the
refinement each step is mapped: an `Accept` of a stored entry refuses, and what
is stored was accepted; one of a message without an entry admits, and by the
invariant that message is new or was evicted or brief; `UpdateSettings` makes room, since
only stored, that is admitted, messages are evicted; all else stutters.
`Capacity` counts entries: one is added where at least one was evicted or there
was room, and `UpdateSettings` evicts the excess.

It also proves the type invariant and the three invariants of `ToolCall`, for any
tools, rules, arguments, secrets, overlap and least length, and outputs and chunks
of any length. These are about recursive functions over sequences. Where a proof needs
induction it takes the least (or by `Downward` the greatest) counterexample, a
set of naturals having a least element (`LeastNatural`); and a recursive function
is first shown to exist, built up one argument at a time, so that it satisfies
its equation (`ScanEquation`, `ApplyRulesSteps`).

- `PolicyEnforced`. `SelectInSeq` is the first index (`FirstSelected`), a rule
  that was compiled is never broken and matches what `Covers` says
  (`CompiledRule`), so the verdict on a file that was accepted is the documented
  one (`VerdictRight`). `PolicyInv` says that the loaded tool is the compiled
  form of the raw one while the policy is in use.
- `StreamedAsWhole`. A text that is not a proper prefix of a secret has a longest
  match that no further output can change (`MatchStable`). So scanning the buffer
  up to the first tail that is one, and later this tail followed by what comes,
  is scanning the whole (`StreamedScan`). The property is not inductive, since it
  speaks of the output so far; `Streaming` says the same for every continuation
  of it: whatever is written next, replacing secrets in all of it gives what
  stage one has let through and then the replacement in the tail and the rest.
- `NoMatchSent`. For secrets: stage one leaves none (`NoneLeft`, `NoSecretLeft`),
  whatever the rules are. The rest is under `Marking`: stage two then only puts marks
  in place of text, so it makes no secret (`NothingNew`). For rules: after the rules have run over carry and new data no
  head that holds no mark is in the result (`ApplyRulesFacts`), but one might lie across what was
  sent before and what is sent now. `Ready` excludes it: what is kept has the
  full length of the overlap, or holds a mark, or nothing was sent.
  A head across the border would then lie in the overlap and one more symbol,
  where it was already looked for, or contain a mark (`NoHeadAcross`).

`ConfigReloadProofs` proves `InForce`, `ShutdownStopsProxy` and `CallsAudited`,
and with `SlotsMatch` that `connSem` counts the connections in progress.
`InForce` by itself says nothing while a reload is under way; the invariant says
how far its holder of `cfgMu` has come: the proxy is that of the new file after
the second step, the logger after the fourth, `d.cfg` and the settings last, and
exactly one of the two goroutines is between these steps. For the shutdown it
says that the watcher has ended before the proxy is stopped for good.

`BitwardenSessionProofs` proves `OneDataDir` and `FailsForCause`, for any number
of callers and attempts. The invariant ties the mutex to the one fetch inside,
the directory of the session to those on disk, and the attempts a fetch has used
to the sessions that were taken away under it, with the token's validity where
the next command relies on it.

`HTTPProxyProofs` proves `OneListener`, `InjectsForClients`, `SnapshotsInOrder`
and `InjectsByPolicy`, for any routes, rules, requests and connections. The
invariant says what each step of `handleRequest` has established so far: the
client has shown the token to the proxy that accepted it, the route was the first
for the host and its rules permit the path, the configuration is no older than
the request. Two lemmas say what `findMatchingRoute` and `isRequestAllowed`
decide, for lists of any length.

`CAManagerProofs` proves `InUseIsOnDisk` for self-managed and external files. In
the first case what was read or written is what the files hold, as nobody else
writes, and a crash leaves the proxy without a pair. In the second what was read
may be stale, but then its event is still to be handled, or was missed; and what was
looked at last is in use, or was not valid that day. A certificate that was refused
for its last day or for what it is stays refused, and `early` marks the one case in
which it does not.

`WrapperSessionProofs` proves `StdinFaithful`, `OutputBeforeExit` and
`SizeFollows`, for any length of input, any number of signals and resizes and any
capacities. Each is a statement about the two ends of a socket, and none is
inductive without saying what is in between. For stdin: as long as nothing was
dropped, the socket holds exactly the chunks after the last one the pumper took
up to the last one the loop wrote, in order (`ChainOK`), and no chunk follows the
end of input unless it was overtaken (`EndOK`). For the output: messages printed,
decoded and in the socket ahead of done add up to those sent ahead of it
(`OutputOK`), and with what the pumper and the pipe hold to what the tool wrote as
long as nothing was given up (`WroteOK`). For the size: the last size message in the socket, or if there is
none the tool's terminal, has the size of the wrapper's terminal unless a
SIGWINCH is waiting (`SizeOK`), while the pumper reads; one that has stopped although
the wrapper is there is deaf.

`ToolExecutorProofs` proves type correctness and the five invariants of the two
runs, for any streams, any amount of output, and any threshold and limit. The
invariant is a conjunction over the streams. A stream's own part needs no other
actor: the chunks delivered, spilled and not yet streamed, held back by the
redactor, in the pumper's hands and in the pipe are increasing in this order
(`FlowOK`; while the pumper sends, its chunks come before the redactor's); without
a loss every chunk written is in one of these places (`CoverOK`); and
`b.accumulated` is what was delivered plus what is in the file, within the limit
together with what is being sent, and the hash has taken in as much (`CountOK`).
The lemmas `FlowWrite` to `FlowStream` and `CountSent` to `CountStreamed` say how
one stream's chunks and counts move, for sequences of any length; `StepCases` and
the `...Effect` lemmas reduce every action to one such move of one stream. The
other part ties the streams to the main goroutine: where it can be while the
process lives (`MainOK`); that past the drain a pumper has ended or was given up
on, and one that ended left in the pipe only what was written after the exit
(`DrainOK`); that the group is dead once the limit was exceeded (`KillOK`); and
what a finalized stream has delivered (`FinalOK`). A pumper that was given up on
may still write to its buffer while the main goroutine finalizes it: the proof
that this changes neither order nor counts is where the parts meet.

Only model-checked: liveness and the other temporal properties under fairness
(fairness and `ENABLED` are out of the prover's reach).

## Plan

1. Done: the modules above, the refinement of `AdmitOnce`, and the proofs of every
   safety invariant and action property that a run checks.
2. Next: the safety facts behind the liveness properties, as invariants (for
   `RunEnds`: whatever the main goroutine waits for can still happen; for
   `ShutdownEnds` and `StopReturns`: nobody waits for a goroutine that waits for it).
3. A store of credentials that hands out only usable ones, as an abstract
   specification implemented by `CredentialCache`.

Not modelled, and why: the SSRF dialer (bit patterns of addresses, no state),
peer credentials, paths and the command line (system calls, constants, flags and
dispatch), the command lines and answers of the backends other than Bitwarden
(one exchange each, no state; what they return is an input of `CredentialCache`),
the admin commands (reports), the validation of configuration fields other than
argument rules (one condition each), and the regular expression engine.
