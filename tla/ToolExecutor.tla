----------------------------- MODULE ToolExecutor -----------------------------
(***************************************************************************)
(* One tool run of the daemon: ToolExecutor of                              *)
(* src/internal/daemon/executor.go and the OutputBuffer of outputbuf.go.    *)
(* The actors are the main goroutine (Run), the output pumpers, os/exec's   *)
(* context watcher and Wait, the tool's process group with a descendant     *)
(* that may outlive it, and the client at the other end of the connection.  *)
(* Output is a sequence of numbered chunks, one Read each.  sendMessage is  *)
(* atomic: sendMu admits one sender at a time.                              *)
(***************************************************************************)
EXTENDS Integers, Sequences, SequencesExt, FiniteSetsExt

CONSTANTS
  Streams,     \* sequence of streams, in the order finalizeOutput takes them
  PTY,         \* a pseudo-terminal: one stream, never spilled, no deadline
  Redacts,     \* an output redactor is set, which may hold chunks back
  MaxChunks,   \* bound: chunks written, per stream
  MaxMade,     \* bound: chunks written in all
  Threshold,   \* inline_threshold in chunks; 0 means always inline
  Limit        \* max_output_size in chunks; 0 means unlimited

StreamSet == ToSet(Streams)

ASSUME BoundAssumption ==
  /\ MaxChunks \in [StreamSet -> Nat] /\ MaxMade \in Nat
  /\ Threshold \in Nat /\ Limit \in Nat
ASSUME StreamAssumption == Streams \in Seq(STRING) /\ Streams # <<>> /\ IsInjective(Streams)
ASSUME PTYAssumption == PTY \in BOOLEAN /\ (PTY => Len(Streams) = 1 /\ Threshold = 0)
ASSUME RedactsAssumption == Redacts \in BOOLEAN

VARIABLES
  main,        \* where the main goroutine is
  fin,         \* the index of the stream being finalized
  ctx,         \* e.ctx: "live" or "expired"
  watch,       \* os/exec's watcher: it has killed the leader or not
  proc,        \* the group leader: "none", "running", "zombie", "reaped"
  exit,        \* how the leader ended: "none", "zero", "other", "killed"
  desc,        \* a descendant holding the write ends: "group", "detached" ...
  sigterm,     \* handleTimeout has sent SIGTERM
  client,      \* the client: "reading", "stalled", "gone"
  pipe,        \* per stream, the chunks in the pipe
  made,        \* per stream, how many chunks were written
  atExit,      \* per stream, how many before the leader exited (history)
  pump,        \* per stream, the pumper: "off", "read", "hold", "send", "done"
  hand,        \* per stream, the chunks the pumper carries
  tail,        \* per stream, the chunks the redactor holds back
  inline,      \* b.inlineMode
  acc,         \* b.accumulated
  hashed,      \* per stream, how many chunks b.tee, the output hash, took in
  file,        \* the spill file: "none", "open", "closed", "cut", "removed"
  spill,       \* what is in the spill file
  got,         \* per stream, the chunks delivered to the client
  term,        \* the terminal message: "none", "done", "timeout", "error"
  audits,      \* audit entries written
  loss         \* per stream, why output may be missing (history)

procVars == <<ctx, watch, proc, exit, desc, sigterm>>
bufVars == <<tail, inline, acc, hashed, file, spill>>
pumpVars == <<pump, hand>>
toolVars == <<pipe, made, atExit>>
reportVars == <<term, audits>>
vars == <<main, fin, procVars, client, toolVars, pumpVars, bufVars, got,
          reportVars, loss>>

Losses == {"cap", "limit", "send", "temp", "late", "flush"}
-----------------------------------------------------------------------------
Lose(s, why) == loss' = [loss EXCEPT ![s] = @ \union {why}]

Init ==
  /\ main = "start" /\ fin = 1
  /\ ctx = "live" /\ watch = "on" /\ proc = "none" /\ exit = "none"
  /\ desc = "none" /\ sigterm = FALSE
  /\ client = "reading"
  /\ pipe = [s \in StreamSet |-> <<>>]
  /\ made = [s \in StreamSet |-> 0]
  /\ atExit = [s \in StreamSet |-> 0]
  /\ pump = [s \in StreamSet |-> "off"]
  /\ hand = [s \in StreamSet |-> <<>>]
  /\ tail = [s \in StreamSet |-> <<>>]
  /\ inline = [s \in StreamSet |-> TRUE]
  /\ acc = [s \in StreamSet |-> 0]
  /\ hashed = [s \in StreamSet |-> 0]
  /\ file = [s \in StreamSet |-> "none"]
  /\ spill = [s \in StreamSet |-> <<>>]
  /\ got = [s \in StreamSet |-> <<>>]
  /\ term = "none" /\ audits = 0
  /\ loss = [s \in StreamSet |-> {}]
-----------------------------------------------------------------------------
(* The tool's processes, the context and the client.                        *)

Writers == proc = "running" \/ desc \in {"group", "detached"}

(* cleanup has closed the read ends.                                        *)
ReadEndsClosed == main \in {"sweep", "end"}

ToolWrites(s) ==
  /\ Writers /\ ~ ReadEndsClosed
  /\ made[s] < MaxChunks[s]
  /\ MapThenSumSet(LAMBDA t : made[t], StreamSet) < MaxMade
  /\ made' = [made EXCEPT ![s] = @ + 1]
  /\ pipe' = [pipe EXCEPT ![s] = Append(@, made[s] + 1)]
  /\ UNCHANGED <<main, fin, procVars, client, atExit, pumpVars, bufVars, got,
                 reportVars, loss>>

(* The tool leaves a child behind, in its process group or in its own.      *)
ToolForks(kind) ==
  /\ proc = "running" /\ desc = "none"
  /\ desc' = kind
  /\ UNCHANGED <<main, fin, ctx, watch, proc, exit, sigterm, client, toolVars,
                 pumpVars, bufVars, got, reportVars, loss>>

DescendantExits ==
  /\ desc \in {"group", "detached"}
  /\ desc' = "gone"
  /\ UNCHANGED <<main, fin, ctx, watch, proc, exit, sigterm, client, toolVars,
                 pumpVars, bufVars, got, reportVars, loss>>

LeaderDies(how) ==
  /\ proc' = IF proc = "running" THEN "zombie" ELSE proc
  /\ exit' = IF proc = "running" THEN how ELSE exit
  /\ atExit' = IF proc = "running" THEN made ELSE atExit

(* The leader exits, by itself or of a signal that the wrapper forwarded.   *)
ToolExits(how) ==
  /\ proc = "running"
  /\ LeaderDies(how)
  /\ UNCHANGED <<main, fin, ctx, watch, desc, sigterm, client, pipe, made,
                 pumpVars, bufVars, got, reportVars, loss>>

(* killProcessGroup(SIGKILL).                                               *)
KillGroup ==
  /\ LeaderDies("killed")
  /\ desc' = IF desc = "group" THEN "gone" ELSE desc

ContextExpires ==
  /\ ctx = "live" /\ main # "end"
  /\ ctx' = "expired"
  /\ UNCHANGED <<main, fin, watch, proc, exit, desc, sigterm, client, toolVars,
                 pumpVars, bufVars, got, reportVars, loss>>

(* exec.CommandContext kills the leader, and only the leader, as soon as    *)
(* the context ends; a zombie takes the signal without effect.              *)
ExecKill ==
  /\ ctx = "expired" /\ watch = "on" /\ proc \in {"running", "zombie"}
  /\ watch' = "fired"
  /\ LeaderDies("killed")
  /\ UNCHANGED <<main, fin, ctx, desc, sigterm, client, pipe, made, pumpVars,
                 bufVars, got, reportVars, loss>>

(* cmd.Wait reaps the leader and delivers its result on waitDone.           *)
Reap ==
  /\ proc = "zombie"
  /\ proc' = "reaped"
  /\ UNCHANGED <<main, fin, ctx, watch, exit, desc, sigterm, client, toolVars,
                 pumpVars, bufVars, got, reportVars, loss>>

(* Wait returns the context's error when the watcher's kill came before the *)
(* leader, which had exited with 0, was reaped.                             *)
WaitFails == exit = "zero" /\ watch = "fired"

ClientChanges(state) ==
  /\ client # "gone" /\ client # state /\ main # "end"
  /\ client' = state
  /\ UNCHANGED <<main, fin, procVars, toolVars, pumpVars, bufVars, got,
                 reportVars, loss>>
-----------------------------------------------------------------------------
(* sendMessage: with the write deadline a send fails when the client does   *)
(* not read.  A frame cut short leaves the client unable to read on.        *)

(* A mutant: no write deadline, so that only a dead connection fails.       *)
SendFailsOnlyWhenGone == client = "gone" /\ client' = client
SendSucceeds == client = "reading" /\ client' = client
SendFails == client # "reading" /\ client' \in {client, "gone"}

Deliver(s, chunks) == got' = [got EXCEPT ![s] = @ \o chunks]
-----------------------------------------------------------------------------
(* The output pumpers and OutputBuffer.Write.                               *)

PumpRead(s) ==
  /\ pump[s] = "read" /\ pipe[s] # <<>> /\ ~ ReadEndsClosed
  /\ pump' = [pump EXCEPT ![s] = "hold"]
  /\ hand' = [hand EXCEPT ![s] = <<Head(pipe[s])>>]
  /\ pipe' = [pipe EXCEPT ![s] = Tail(@)]
  /\ UNCHANGED <<main, fin, procVars, client, made, atExit, bufVars, got,
                 reportVars, loss>>

(* The drain deadline: armed once the tool has exited, pushed out after     *)
(* every chunk, so that it fires on an idle pipe that is still open.        *)
Draining ==
  \/ main \in {"drain", "finalize", "stream", "audit", "report"}
  \/ main = "cleanup" /\ term # "error"

DrainDeadline(s) == ~ PTY /\ Draining /\ pipe[s] = <<>>

(* Read ends with EOF, with a closed file, or at the drain deadline.        *)
PumpEnds(s) ==
  /\ pump[s] = "read"
  /\ \/ pipe[s] = <<>> /\ ~ Writers
     \/ ReadEndsClosed
     \/ DrainDeadline(s)
  /\ pump' = [pump EXCEPT ![s] = "done"]
  /\ UNCHANGED <<main, fin, procVars, client, toolVars, hand, bufVars, got,
                 reportVars, loss>>

(* A mutant of OverLimit.                                                   *)
OverLimitByOne(s, data) == Limit > 0 /\ acc[s] + Len(data) > Limit + 1

OverLimit(s, data) == Limit > 0 /\ acc[s] + Len(data) > Limit
Spills(s, data) == inline[s] /\ Threshold > 0 /\ acc[s] + Len(data) > Threshold

(* A mutant of Redacted: what was held back is sent last.                   *)
RedactedTailLast(s) ==
  {[out |-> hand[s] \o tail[s], keep |-> <<>>]} \union
  (IF Redacts THEN {[out |-> tail[s], keep |-> hand[s]]} ELSE {})

(* What the redactor lets through of the next chunk, and what it keeps.     *)
Redacted(s) ==
  {[out |-> tail[s] \o hand[s], keep |-> <<>>]} \union
  (IF Redacts THEN {[out |-> tail[s], keep |-> hand[s]],
                     [out |-> <<>>, keep |-> tail[s] \o hand[s]]}
   ELSE {})

AppendsToFile(s, data) == spill' = [spill EXCEPT ![s] = @ \o data]

PumpContinues(s) ==
  /\ pump' = [pump EXCEPT ![s] = "read"]
  /\ hand' = [hand EXCEPT ![s] = <<>>]

(* A mutant of TakenByHash: the hash is fed before the limit is checked.    *)
TakenByHashFirst(s, data) == hashed' = [hashed EXCEPT ![s] = @ + Len(data)]

(* The hash takes in what is within the limit, before it is sent or stored. *)
TakenByHash(s, data) ==
  hashed' = [hashed EXCEPT ![s] = IF OverLimit(s, data) THEN @ ELSE @ + Len(data)]

(* writeLocked up to the send: an inline chunk is sent while b.mu is held.  *)
WriteInline(s, data) ==
  /\ ~ OverLimit(s, data) /\ inline[s] /\ ~ Spills(s, data)
  /\ pump' = [pump EXCEPT ![s] = "send"]
  /\ hand' = [hand EXCEPT ![s] = data]
  /\ UNCHANGED <<inline, acc, file, spill, loss, proc, exit, atExit, desc>>

WriteOverLimit(s, data) ==
  /\ OverLimit(s, data)
  /\ KillGroup
  /\ Lose(s, "limit")
  /\ pump' = [pump EXCEPT ![s] = "done"]
  /\ hand' = [hand EXCEPT ![s] = <<>>]
  /\ UNCHANGED <<inline, acc, file, spill>>

(* A mutant of WriteSpill: the chunk is counted before there is a file.     *)
WriteSpillCounted(s, data) ==
  /\ ~ OverLimit(s, data) /\ Spills(s, data)
  /\ acc' = [acc EXCEPT ![s] = @ + Len(data)]
  /\ \/ /\ inline' = [inline EXCEPT ![s] = FALSE]
        /\ file' = [file EXCEPT ![s] = "open"]
        /\ AppendsToFile(s, data)
        /\ UNCHANGED loss
     \/ /\ Lose(s, "temp")
        /\ UNCHANGED <<inline, file, spill>>
  /\ PumpContinues(s)
  /\ UNCHANGED <<proc, exit, atExit, desc>>

(* switchToFileMode and the first write to the file; when no temporary file *)
(* can be made the chunk is dropped.                                        *)
WriteSpill(s, data) ==
  /\ ~ OverLimit(s, data) /\ Spills(s, data)
  /\ \/ /\ inline' = [inline EXCEPT ![s] = FALSE]
        /\ file' = [file EXCEPT ![s] = "open"]
        /\ AppendsToFile(s, data)
        /\ acc' = [acc EXCEPT ![s] = @ + Len(data)]
        /\ UNCHANGED loss
     \/ /\ Lose(s, "temp")
        /\ UNCHANGED <<inline, file, spill, acc>>
  /\ PumpContinues(s)
  /\ UNCHANGED <<proc, exit, atExit, desc>>

(* A write to the file, which Finalize may have closed.                     *)
WriteFile(s, data) ==
  /\ ~ OverLimit(s, data) /\ ~ inline[s]
  /\ \/ /\ file[s] = "open"
        /\ AppendsToFile(s, data)
        /\ acc' = [acc EXCEPT ![s] = @ + Len(data)]
        /\ UNCHANGED loss
     \/ /\ file[s] # "open"
        /\ Lose(s, "late")
        /\ UNCHANGED <<spill, acc>>
  /\ PumpContinues(s)
  /\ UNCHANGED <<inline, file, proc, exit, atExit, desc>>

(* Nothing to write: the redactor kept all of it.                           *)
WriteNothing(s) ==
  /\ PumpContinues(s)
  /\ UNCHANGED <<inline, acc, file, spill, loss, proc, exit, atExit, desc>>

PumpWrite(s) ==
  /\ pump[s] = "hold"
  /\ \E r \in Redacted(s) :
       /\ tail' = [tail EXCEPT ![s] = r.keep]
       /\ TakenByHash(s, r.out)
       /\ IF r.out = <<>> THEN WriteNothing(s)
          ELSE \/ WriteOverLimit(s, r.out) \/ WriteInline(s, r.out)
               \/ WriteSpill(s, r.out) \/ WriteFile(s, r.out)
  /\ UNCHANGED <<main, fin, ctx, watch, sigterm, client, pipe, made, got, reportVars>>

(* The send of an inline chunk returns.                                     *)
PumpSent(s) ==
  /\ pump[s] = "send"
  /\ \/ /\ SendSucceeds
        /\ Deliver(s, hand[s])
        /\ acc' = [acc EXCEPT ![s] = @ + Len(hand[s])]
        /\ UNCHANGED loss
     \/ /\ SendFails
        /\ Lose(s, "send")
        /\ UNCHANGED <<got, acc>>
  /\ PumpContinues(s)
  /\ UNCHANGED <<main, fin, procVars, toolVars, tail, inline, hashed, file, spill,
                 reportVars>>
-----------------------------------------------------------------------------
(* The main goroutine.                                                      *)

PumpersDone == \A s \in StreamSet : pump[s] \in {"off", "done"}
(* b.mu: the pumper of s holds it for as long as its send takes.            *)
Locked(s) == pump[s] = "send"

Error ==
  /\ SendSucceeds \/ SendFails
  /\ term' = "error"
  /\ main' = "cleanup"

(* A check, the configuration file, the environment or the start fails:     *)
(* exec refuses to start once the context has ended.                        *)
StartFails ==
  /\ main = "start"
  /\ Error
  /\ UNCHANGED <<fin, procVars, toolVars, pumpVars, bufVars, got, audits, loss>>

StartProcess ==
  /\ main = "start" /\ ctx = "live"
  /\ proc' = "running"
  /\ pump' = [s \in StreamSet |-> "read"]
  /\ main' = "select"
  /\ UNCHANGED <<fin, ctx, watch, exit, desc, sigterm, client, toolVars, hand,
                 bufVars, got, reportVars, loss>>

(* runIOLoop's select; when both channels are ready either may win.         *)
SelectExit ==
  /\ main = "select" /\ proc = "reaped" /\ ~ WaitFails
  /\ main' = "drain"
  /\ UNCHANGED <<fin, procVars, client, toolVars, pumpVars, bufVars, got,
                 reportVars, loss>>

SelectWaitError ==
  /\ main = "select" /\ proc = "reaped" /\ WaitFails
  /\ Error
  /\ UNCHANGED <<fin, procVars, toolVars, pumpVars, bufVars, got, audits, loss>>

(* handleTimeout: SIGTERM, which a tool may ignore, ...                     *)
SelectTimeout ==
  /\ main = "select" /\ ctx = "expired"
  /\ sigterm' = TRUE
  /\ main' = "grace"
  /\ UNCHANGED <<fin, ctx, watch, proc, exit, desc, client, toolVars, pumpVars,
                 bufVars, got, reportVars, loss>>

(* ... then the exit of the leader or, after five seconds, SIGKILL.         *)
GraceEnds ==
  /\ main = "grace"
  /\ \/ proc = "reaped" /\ UNCHANGED <<proc, exit, atExit, desc>>
     \/ KillGroup
  /\ main' = "drain"
  /\ UNCHANGED <<fin, ctx, watch, sigterm, client, pipe, made, pumpVars, bufVars,
                 got, reportVars, loss>>

(* Only a slow client, or a writer that keeps the pipe open, can hold a     *)
(* pumper up for seconds.                                                   *)
HeldUp(s) == Locked(s) \/ (pump[s] = "read" /\ pipe[s] = <<>> /\ Writers)

(* Wait for the pumpers, for five seconds (two after a timeout).            *)
DrainEnds ==
  /\ main = "drain"
  /\ \/ PumpersDone /\ UNCHANGED loss
     \/ /\ \E s \in StreamSet : HeldUp(s)
        /\ loss' = [s \in StreamSet |-> IF pump[s] = "done" THEN loss[s]
                                       ELSE loss[s] \union {"cap"}]
  /\ main' = "finalize"
  /\ UNCHANGED <<fin, procVars, client, toolVars, pumpVars, bufVars, got, reportVars>>

NextStream ==
  /\ fin' = fin + 1
  /\ main' = IF fin = Len(Streams) THEN "audit" ELSE "finalize"

(* Finalize's flush of the redactor's tail, with writeLocked, succeeds; a   *)
(* spill file is closed, and nothing can be written to it any more.         *)
Flush(s) ==
  /\ tail' = [tail EXCEPT ![s] = <<>>]
  /\ TakenByHash(s, tail[s])
  /\ IF tail[s] = <<>>
     THEN /\ file' = [file EXCEPT ![s] = IF inline[s] THEN @ ELSE "closed"]
          /\ UNCHANGED <<got, acc, spill, inline, client>>
     ELSE /\ ~ OverLimit(s, tail[s])
          /\ acc' = [acc EXCEPT ![s] = @ + Len(tail[s])]
          /\ \/ /\ inline[s] /\ ~ Spills(s, tail[s])
                /\ SendSucceeds
                /\ Deliver(s, tail[s])
                /\ UNCHANGED <<file, spill, inline>>
             \/ /\ ~ inline[s] \/ Spills(s, tail[s])
                /\ inline' = [inline EXCEPT ![s] = FALSE]
                /\ file' = [file EXCEPT ![s] = "closed"]
                /\ AppendsToFile(s, tail[s])
                /\ UNCHANGED <<got, client>>
  /\ UNCHANGED loss

(* Finalize, then the spill file if there is one.                           *)
FinalizeStream ==
  LET s == Streams[fin] IN
  /\ main = "finalize" /\ ~ Locked(s)
  /\ Flush(s)
  /\ IF inline'[s] THEN NextStream ELSE main' = "stream" /\ UNCHANGED fin
  /\ UNCHANGED <<procVars, toolVars, pumpVars, reportVars>>

(* errors.Join: the other stream is finalized all the same.                 *)
AfterFailureStop == fin' = Len(Streams) + 1 /\ main' = "audit"    \* a mutant
AfterFailure == NextStream

(* The flush fails: over the limit, a send or a temporary file that fails.  *)
(* finalizeStream returns without streaming what was spilled.               *)
FlushFails ==
  LET s == Streams[fin] IN
  /\ main = "finalize" /\ ~ Locked(s)
  /\ tail[s] # <<>>
  /\ \/ OverLimit(s, tail[s]) /\ UNCHANGED client
     \/ /\ ~ OverLimit(s, tail[s]) /\ Spills(s, tail[s])
        /\ UNCHANGED client
     \/ /\ ~ OverLimit(s, tail[s]) /\ inline[s] /\ ~ Spills(s, tail[s])
        /\ SendFails
  /\ tail' = [tail EXCEPT ![s] = <<>>]
  /\ TakenByHash(s, tail[s])
  /\ Lose(s, "flush")
  /\ AfterFailure
  /\ UNCHANGED <<procVars, toolVars, pumpVars, inline, acc, file, spill, got, reportVars>>

(* streamFile sends the file chunk by chunk until a send fails, or the open *)
(* or a read of the file; the file is removed when all of it was sent.      *)
StreamFile ==
  LET s == Streams[fin] IN
  /\ main = "stream"
  /\ \/ /\ SendSucceeds
        /\ Deliver(s, spill[s])
        /\ file' = [file EXCEPT ![s] = "removed"]
        /\ UNCHANGED loss
     \/ /\ SendFails \/ UNCHANGED client
        /\ \E n \in 0 .. Len(spill[s]) - 1 : Deliver(s, SubSeq(spill[s], 1, n))
        /\ Lose(s, "send")
        /\ file' = [file EXCEPT ![s] = "cut"]
  /\ NextStream
  /\ UNCHANGED <<procVars, toolVars, pumpVars, tail, inline, acc, hashed, spill, reportVars>>

(* emitAuditEntry asks each buffer for its size, under its lock.            *)
Audit ==
  /\ main = "audit" /\ \A s \in StreamSet : ~ Locked(s)
  /\ audits' = audits + 1
  /\ main' = "report"
  /\ UNCHANGED <<fin, procVars, client, toolVars, pumpVars, bufVars, got, term, loss>>

SendDone ==
  /\ main = "report"
  /\ SendSucceeds \/ SendFails
  /\ term' = IF sigterm THEN "timeout" ELSE "done"
  /\ main' = "cleanup"
  /\ UNCHANGED <<fin, procVars, toolVars, pumpVars, bufVars, got, audits, loss>>

(* A mutant of CleanupProcess: the group is left alone.                     *)
CleanupKeepingGroup ==
  /\ main = "cleanup"
  /\ ctx' = "expired"
  /\ main' = "sweep"
  /\ UNCHANGED <<fin, watch, proc, exit, desc, sigterm, client, toolVars,
                 pumpVars, bufVars, got, reportVars, loss>>

(* cleanup cancels the context, closes the read ends and kills the group ...*)
CleanupProcess ==
  /\ main = "cleanup"
  /\ ctx' = "expired"
  /\ KillGroup
  /\ main' = "sweep"
  /\ UNCHANGED <<fin, watch, sigterm, client, pipe, made, pumpVars, bufVars, got,
                 reportVars, loss>>

(* ... and removes the spill files, under the locks of the buffers.         *)
RemoveSpillFiles ==
  file' = [s \in StreamSet |-> IF file[s] = "none" THEN "none" ELSE "removed"]

CleanupBuffers ==
  /\ main = "sweep" /\ \A s \in StreamSet : ~ Locked(s)
  /\ RemoveSpillFiles
  /\ main' = "end"
  /\ UNCHANGED <<fin, procVars, client, toolVars, pumpVars, tail, inline, acc, hashed,
                 spill, got, reportVars, loss>>
-----------------------------------------------------------------------------
PumpStep(s) == PumpRead(s) \/ PumpEnds(s) \/ PumpWrite(s) \/ PumpSent(s)

MainStep ==
  \/ StartProcess \/ StartFails
  \/ SelectExit \/ SelectWaitError \/ SelectTimeout
  \/ GraceEnds \/ DrainEnds
  \/ FinalizeStream \/ FlushFails \/ StreamFile
  \/ Audit \/ SendDone \/ CleanupProcess \/ CleanupBuffers

ToolStep ==
  \/ \E s \in StreamSet : ToolWrites(s)
  \/ \E kind \in {"group", "detached"} : ToolForks(kind)
  \/ \E how \in {"zero", "other"} : ToolExits(how)
  \/ DescendantExits

ClientStep == \E state \in {"reading", "stalled", "gone"} : ClientChanges(state)

(* The run is over: Run has returned and nothing of it is left.             *)
Finished ==
  /\ main = "end" /\ PumpersDone /\ proc \in {"none", "reaped"}
  /\ UNCHANGED vars

Next ==
  \/ MainStep
  \/ \E s \in StreamSet : PumpStep(s)
  \/ ToolStep \/ ClientStep
  \/ ContextExpires \/ ExecKill \/ Reap
  \/ Finished

Spec == Init /\ [][Next]_vars

(* Goroutines that can run do run; timers fire; write_timeout is positive,  *)
(* so a send that the client does not read fails; the timeout of the run    *)
(* ends its context.  The tool, its descendants and the client owe nothing. *)
Fairness ==
  /\ WF_vars(MainStep)
  /\ \A s \in StreamSet : WF_vars(PumpStep(s))
  /\ WF_vars(ContextExpires) /\ WF_vars(ExecKill) /\ WF_vars(Reap)

FairSpec == Spec /\ Fairness
-----------------------------------------------------------------------------
FlagsOK == sigterm \in BOOLEAN /\ inline \in [StreamSet -> BOOLEAN]

ControlTypes ==
  /\ main \in {"start", "select", "grace", "drain", "finalize", "stream",
               "audit", "report", "cleanup", "sweep", "end"}
  /\ fin \in 1 .. Len(Streams) + 1
  /\ ctx \in {"live", "expired"} /\ watch \in {"on", "fired"}
  /\ proc \in {"none", "running", "zombie", "reaped"}
  /\ exit \in {"none", "zero", "other", "killed"}
  /\ desc \in {"none", "group", "detached", "gone"}
  /\ client \in {"reading", "stalled", "gone"}
  /\ term \in {"none", "done", "timeout", "error"} /\ audits \in {0, 1}

ChunkTypes ==
  /\ made \in [StreamSet -> Nat] /\ atExit \in [StreamSet -> Nat]
  /\ \A s \in StreamSet : atExit[s] <= made[s] /\ made[s] <= MaxChunks[s]
  /\ pipe \in [StreamSet -> Seq(Nat \ {0})] /\ hand \in [StreamSet -> Seq(Nat \ {0})]
  /\ tail \in [StreamSet -> Seq(Nat \ {0})] /\ spill \in [StreamSet -> Seq(Nat \ {0})]
  /\ got \in [StreamSet -> Seq(Nat \ {0})]

BufferTypes ==
  /\ pump \in [StreamSet -> {"off", "read", "hold", "send", "done"}]
  /\ acc \in [StreamSet -> Nat] /\ hashed \in [StreamSet -> Nat]
  /\ file \in [StreamSet -> {"none", "open", "closed", "cut", "removed"}]
  /\ loss \in [StreamSet -> SUBSET Losses]

(* Every variable keeps its type.                                           *)
TypeOK == FlagsOK /\ ControlTypes /\ ChunkTypes /\ BufferTypes

(* The client sees each stream in the order the tool wrote it and nothing   *)
(* twice, through the redactor, the inline path, the spill file and a late  *)
(* pumper.                                                                  *)
InOrder ==
  \A s \in StreamSet : \A i, j \in 1 .. Len(got[s]) : i < j => got[s][i] < got[s][j]

(* Nothing the tool wrote before it exited is missing from a stream when    *)
(* the run is reported, unless a send, the limit, a temporary file or the   *)
(* cap on draining took it from that very stream: the drain deadline alone  *)
(* loses nothing, and trouble on stdout never swallows stderr.  A run that  *)
(* is reported as completed has its audit entry, and one only.              *)
Complete ==
  term \in {"done", "timeout"} =>
    /\ audits = 1
    /\ \A s \in StreamSet : loss[s] = {} => 1 .. atExit[s] \subseteq ToSet(got[s])

(* max_output_size bounds each stream by itself: no stream delivers more,   *)
(* whatever the other one does, and a tool that exceeds it on either has    *)
(* been killed with its group.  The two buffers do not know of each other,  *)
(* so stdout and stderr together may come to twice the limit, which the     *)
(* documentation calls "combined stdout + stderr".                          *)
LimitEnforced ==
  \A s \in StreamSet :
    /\ Limit > 0 => Len(got[s]) <= Limit
    /\ "limit" \in loss[s] => proc # "running" /\ desc # "group"

(* Run leaves nothing behind, whatever path it took: no process of the      *)
(* tool's group, and no spill file of a stream that was drained.            *)
LeavesNothing ==
  main = "end" =>
    /\ proc # "running" /\ desc # "group"
    /\ \A s \in StreamSet :
         term # "error" /\ "cap" \notin loss[s] => file[s] \in {"none", "removed"}

(* output_bytes is honest: when a stream was drained and no send or flush   *)
(* failed, the size that is audited is the size the client received,        *)
(* through the limit and through chunks lost for want of a temporary file;  *)
(* and "output_hash and output_bytes stay consistent" (outputbuf.go) when   *)
(* the limit alone has cost output.                                         *)
BytesAccounted ==
  \A s \in StreamSet : main \in {"audit", "report"} =>
    /\ loss[s] \subseteq {"limit", "temp"} => acc[s] = Len(got[s])
    /\ loss[s] \subseteq {"limit"} => hashed[s] = acc[s]

(* A run always ends, and its pumper goroutines with it: no client, tool or *)
(* descendant on the pipe can hold them up.                                 *)
RunEnds == <>(main = "end" /\ PumpersDone)
=============================================================================
