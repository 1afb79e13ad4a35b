---------------------------- MODULE WrapperSession ----------------------------
(***************************************************************************)
(* One session over the Unix socket: RunTool, ioLoop and ioLoopPTY of       *)
(* src/internal/wrapper/wrapper.go, handleConnection's read of the request  *)
(* (src/internal/daemon/daemon.go), the two input pumpers of executor.go    *)
(* and the framing of src/internal/framing/framing.go.  The wrapper runs on *)
(* a terminal or not, and the daemon gives the tool a pseudo-terminal only  *)
(* if the wrapper has one and the tool wants it.  Every channel, pipe and   *)
(* socket buffer is bounded, so that who waits for whom is part of the      *)
(* model.  The tool is a filter: it writes a chunk for every chunk it       *)
(* reads, and may exit at any time.  What becomes of its output on the way  *)
(* through the daemon's buffers is in ToolExecutor.                         *)
(***************************************************************************)
EXTENDS Integers, Sequences, SequencesExt

CONSTANTS
  Chunks,      \* how many chunks the wrapper's stdin holds before its end
  Signals,     \* bound: signals sent to the wrapper
  Resizes,     \* bound: changes of the terminal's size
  ChanCap,     \* capacity of stdinCh, 16 in the code
  UpCap,       \* messages that fit in the socket towards the daemon
  DownCap,     \* messages that fit in the socket towards the wrapper
  PipeCap,     \* chunks that fit in the tool's stdin and in its stdout
  MayCrash     \* the daemon may die

ASSUME CapAssumption ==
  /\ ChanCap \in Nat \ {0} /\ UpCap \in Nat \ {0, 1} /\ DownCap \in Nat \ {0}
  /\ PipeCap \in Nat \ {0}
ASSUME BoundAssumption == Chunks \in Nat /\ Signals \in Nat /\ Resizes \in Nat /\ MayCrash \in BOOLEAN

VARIABLES
  wpc,         \* wrapper: "send", "newline", "loop", "write", "exit"
  out,         \* the message its loop is writing
  wexit,       \* how it exited: "none", "code", "error"
  rd,          \* chunks its stdin reader has read
  stdinCh,     \* the channel from the stdin reader
  eof,         \* stdinEOF: "open", "closed", "sent"
  sigCh,       \* signalCh: a signal is waiting
  sigs,        \* signals sent to the wrapper
  overtook,    \* the end of stdin was relayed before chunks (history)
  tty,         \* the wrapper's stdin is a terminal
  raw,         \* ... in raw mode: ioLoopPTY is running
  size,        \* ... and its size, counted in changes
  winCh,       \* winSizeCh: a SIGWINCH is waiting
  resp,        \* the response reader: "read", "eof", "err", or its message
  printed,     \* output chunks the wrapper printed
  up, down,    \* the two directions of the socket
  d,           \* the handler: "header", "running", "closing", "closed"
  pumper,      \* the stdin pumper: "off", "read", "write", "done"
  held,        \* the chunk it writes to the tool
  pty,         \* the tool has a pseudo-terminal
  ptySize,     \* ... and its size
  stdinOpen,   \* the tool's stdin, or its terminal, is open for writing
  deaf,        \* the pumper stopped while the wrapper was there (history)
  inPipe,      \* chunks in the tool's stdin
  toolIn,      \* chunks that were put there, ever (history)
  tool,        \* the tool: "off", "ready", "full", "exited"
  outPipe,     \* chunks in the tool's stdout
  wrote,       \* chunks that were put there, ever (history)
  sender,      \* the output pumper: "off", "read", "send"
  sent,        \* output messages sent ahead of done (history)
  short,       \* output was given up: a send failed, or the drain (history)
  done         \* the done message was sent

wrapVars == <<wpc, out, wexit, rd, stdinCh, eof, sigCh, sigs, overtook>>
termVars == <<tty, raw, size, winCh>>
respVars == <<resp, printed>>
pumpVars == <<pumper, held, pty, ptySize, stdinOpen, deaf>>
toolVars == <<inPipe, toolIn, tool>>
outVars == <<outPipe, wrote, sender, sent, short, done>>
vars == <<wrapVars, termVars, respVars, up, down, d, pumpVars, toolVars, outVars>>

Msg(kind, n) == [kind |-> kind, n |-> n]
Nothing == Msg("none", 0)
WrapperOpen == wpc # "exit"
DaemonOpen == d # "closed"

Init ==
  /\ wpc = "send" /\ out = Nothing /\ wexit = "none"
  /\ rd = 0 /\ stdinCh = <<>> /\ eof = "open" /\ sigCh = FALSE /\ sigs = 0
  /\ overtook = FALSE
  /\ tty \in BOOLEAN /\ raw = FALSE /\ size = 1 /\ winCh = FALSE
  /\ resp = "read" /\ printed = 0
  /\ up = <<>> /\ down = <<>>
  /\ d = "header"
  /\ pumper = "off" /\ held = 0 /\ pty = FALSE /\ ptySize = 0 /\ stdinOpen = TRUE /\ deaf = FALSE
  /\ inPipe = 0 /\ toolIn = <<>> /\ tool = "off"
  /\ outPipe = 0 /\ wrote = 0 /\ sender = "off" /\ sent = 0 /\ short = FALSE /\ done = FALSE
-----------------------------------------------------------------------------
(* The wrapper.                                                             *)

(* On every way out the terminal is restored.                               *)
Exit(how) == wpc' = "exit" /\ wexit' = how /\ raw' = FALSE
Loop == wpc' = "loop" /\ UNCHANGED <<wexit, raw>>

(* RunTool writes the request, with the terminal's size in it.              *)
SendRequest ==
  /\ wpc = "send"
  /\ IF DaemonOpen
     THEN /\ up' = Append(up, Msg("req", IF tty THEN size ELSE 0))
          /\ wpc' = "newline" /\ UNCHANGED <<wexit, raw>>
     ELSE Exit("error") /\ UNCHANGED up
  /\ UNCHANGED <<out, rd, stdinCh, eof, sigCh, sigs, overtook, tty, size, winCh, respVars,
                 down, d, pumpVars, toolVars, outVars>>

(* A mutant of SizeNow: the size that went into the request.                *)
SizeRequested == 1
(* detectWindowSize, when the message is made.                              *)
SizeNow == size

(* The newline is a write of its own.  Then ioLoop, or on a terminal        *)
(* ioLoopPTY: raw mode, or ioLoop if that fails, SIGWINCH, and the size.    *)
EnterLoop ==
  /\ wpc = "newline"
  /\ \/ /\ ~ DaemonOpen
        /\ Exit("error") /\ UNCHANGED <<up, out>>
     \/ /\ DaemonOpen
        /\ up' = Append(up, Msg("nl", 0))
        /\ Loop /\ UNCHANGED out
     \/ /\ DaemonOpen /\ tty
        /\ up' = Append(up, Msg("nl", 0))
        /\ wpc' = "write" /\ raw' = TRUE /\ out' = Msg("size", SizeNow)
        /\ UNCHANGED wexit
  /\ UNCHANGED <<rd, stdinCh, eof, sigCh, sigs, overtook, tty, size, winCh, respVars, down, d,
                 pumpVars, toolVars, outVars>>

(* The terminal changes its size; the signal is heard once ioLoopPTY runs,  *)
(* and dropped when one is waiting.                                         *)
Resize ==
  /\ tty /\ size <= Resizes /\ WrapperOpen
  /\ size' = size + 1
  /\ winCh' = (winCh \/ raw)
  /\ UNCHANGED <<wrapVars, tty, raw, respVars, up, down, d, pumpVars, toolVars, outVars>>

(* A mutant of Push: the chunk is not copied out of the read buffer.        *)
PushShared(n) == stdinCh' = [i \in 1 .. Len(stdinCh) + 1 |-> n]
Push(n) == stdinCh' = Append(stdinCh, n)

ChanRoom == Len(stdinCh) < ChanCap

(* The stdin reader goroutine, running once ioLoop has begun.               *)
ReadStdin ==
  /\ wpc \in {"loop", "write"} /\ rd < Chunks /\ ChanRoom
  /\ rd' = rd + 1
  /\ Push(rd + 1)
  /\ UNCHANGED <<wpc, out, wexit, eof, sigCh, sigs, overtook, termVars, respVars, up, down, d, pumpVars,
                 toolVars, outVars>>

StdinEnds ==
  /\ wpc \in {"loop", "write"} /\ rd = Chunks /\ eof = "open"
  /\ eof' = "closed"
  /\ UNCHANGED <<wpc, out, wexit, rd, stdinCh, sigCh, sigs, overtook, termVars, respVars, up, down, d,
                 pumpVars, toolVars, outVars>>

Interrupt ==
  /\ wpc \in {"loop", "write"} /\ sigs < Signals
  /\ sigs' = sigs + 1 /\ sigCh' = TRUE
  /\ UNCHANGED <<wpc, out, wexit, rd, stdinCh, eof, overtook, termVars, respVars, up, down, d, pumpVars,
                 toolVars, outVars>>

(* The select of ioLoop: any case that is ready.                            *)
RelayStdin ==
  /\ wpc = "loop" /\ stdinCh # <<>>
  /\ wpc' = "write" /\ out' = Msg("in", Head(stdinCh))
  /\ stdinCh' = Tail(stdinCh)
  /\ UNCHANGED <<wexit, rd, eof, sigCh, sigs, overtook, termVars, respVars, up, down, d, pumpVars,
                 toolVars, outVars>>

RelayEOF ==
  /\ wpc = "loop" /\ eof = "closed"
  /\ wpc' = "write" /\ out' = Msg("eof", 0)
  /\ eof' = "sent" /\ overtook' = (stdinCh # <<>>)
  /\ UNCHANGED <<wexit, rd, stdinCh, sigCh, sigs, termVars, respVars, up, down, d, pumpVars,
                 toolVars, outVars>>

RelaySignal ==
  /\ wpc = "loop" /\ sigCh
  /\ wpc' = "write" /\ out' = Msg("sig", 0)
  /\ sigCh' = FALSE
  /\ UNCHANGED <<wexit, rd, stdinCh, eof, sigs, overtook, termVars, respVars, up, down, d,
                 pumpVars, toolVars, outVars>>

RelayWinSize ==
  /\ wpc = "loop" /\ winCh
  /\ wpc' = "write" /\ out' = Msg("size", SizeNow)
  /\ winCh' = FALSE
  /\ UNCHANGED <<wexit, rd, stdinCh, eof, sigCh, sigs, overtook, tty, raw, size, respVars,
                 up, down, d, pumpVars, toolVars, outVars>>

(* The write completes when there is room; on a closed connection it fails, *)
(* which only a stdin chunk and a window size report.                       *)
WriteCompletes ==
  /\ wpc = "write"
  /\ \/ /\ DaemonOpen /\ Len(up) < UpCap
        /\ up' = Append(up, out)
        /\ Loop
     \/ /\ ~ DaemonOpen
        /\ IF out.kind \in {"in", "size"} THEN Exit("error") ELSE Loop
        /\ UNCHANGED up
  /\ out' = Nothing
  /\ UNCHANGED <<rd, stdinCh, eof, sigCh, sigs, overtook, tty, size, winCh, respVars, down, d,
                 pumpVars, toolVars, outVars>>

(* The response reader decodes the next frame; bytes that are no frame are  *)
(* an error, and at the end of the stream it just returns.  Of a torn frame *)
(* it waits for the rest: it fails on what comes instead, or on the end.    *)
Decode ==
  /\ wpc \in {"loop", "write"} /\ resp = "read"
  /\ \/ /\ down # <<>>
        /\ Head(down) = "torn" => Len(down) > 1 \/ ~ DaemonOpen
        /\ resp' = IF Head(down) \in {"raw", "torn"} THEN "err" ELSE Head(down)
        /\ down' = Tail(down)
     \/ /\ down = <<>> /\ ~ DaemonOpen
        /\ resp' = "eof"
        /\ UNCHANGED down
  /\ UNCHANGED <<wrapVars, termVars, printed, up, d, pumpVars, toolVars, outVars>>

(* handleResponse, and the error of the response reader.                    *)
HandleResponse ==
  /\ wpc = "loop" /\ resp \in {"out", "done", "error", "err"}
  /\ \/ /\ resp = "out"
        /\ printed' = printed + 1 /\ resp' = "read"
        /\ UNCHANGED <<wpc, wexit, raw>>
     \/ /\ resp = "done" /\ Exit("code") /\ UNCHANGED respVars
     \/ /\ resp \in {"error", "err"} /\ Exit("error") /\ UNCHANGED respVars
  /\ UNCHANGED <<out, rd, stdinCh, eof, sigCh, sigs, overtook, tty, size, winCh, up, down, d, pumpVars,
                 toolVars, outVars>>
-----------------------------------------------------------------------------
(* The daemon's side of the connection.                                     *)

(* Refuse with an error and close; sendError does not frame its message,    *)
(* sendProxyError does.                                                     *)
Refuse(message) ==
  /\ down' = Append(down, message)
  /\ d' = "closed"

Kinds(s) == [i \in 1 .. Len(s) |-> s[i].kind]

(* One Read takes whatever has arrived; what is in it must be one JSON      *)
(* value, with or without the newline.                                      *)
ReadHeader ==
  /\ d = "header" /\ up # <<>>
  /\ up' = <<>>
  /\ \/ /\ Kinds(up) \in {<<"req">>, <<"req", "nl">>}
        /\ \/ /\ d' = "running"
              /\ pumper' = "read" /\ tool' = "ready" /\ sender' = "read"
              /\ pty' \in {FALSE, tty}
              /\ ptySize' = IF pty' THEN Head(up).n ELSE 0
              /\ UNCHANGED down
           \/ /\ Refuse("error")
              /\ UNCHANGED <<pumper, tool, sender, pty, ptySize>>
     \/ /\ Kinds(up) \notin {<<"req">>, <<"req", "nl">>}
        /\ Refuse("raw")
        /\ UNCHANGED <<pumper, tool, sender, pty, ptySize>>
  /\ UNCHANGED <<wrapVars, termVars, respVars, held, stdinOpen, deaf, inPipe, toolIn,
                 outPipe, wrote, sent, short, done>>

(* read_header_timeout.                                                     *)
HeaderTimeout ==
  /\ d = "header" /\ up = <<>>
  /\ Refuse("raw")
  /\ UNCHANGED <<wrapVars, termVars, respVars, up, pumpVars, toolVars, outVars>>

(* The pumper stops; it closes the tool's stdin, but not its terminal,      *)
(* which is closed when the session is.                                     *)
StopPumper == pumper' = "done" /\ stdinOpen' = FALSE
HangUp == pumper' = "done" /\ stdinOpen' = pty

(* The pumper reads a message: an empty line is an error that ends it.  A   *)
(* terminal is not closed by the end of input, and only a terminal knows a  *)
(* size.  A signal goes to the tool's group: it may exit (ToolExits).       *)
PumperReads ==
  /\ pumper = "read" /\ up # <<>>
  /\ up' = Tail(up)
  /\ LET m == Head(up) IN
     \/ /\ m.kind = "nl"
        /\ HangUp /\ deaf' = TRUE
        /\ UNCHANGED <<held, ptySize>>
     \/ /\ m.kind = "in" /\ stdinOpen
        /\ pumper' = "write" /\ held' = m.n
        /\ UNCHANGED <<ptySize, stdinOpen, deaf>>
     \/ /\ m.kind = "eof" /\ ~ pty
        /\ stdinOpen' = FALSE
        /\ UNCHANGED <<pumper, held, ptySize, deaf>>
     \/ /\ m.kind = "size" /\ pty
        /\ ptySize' = m.n
        /\ UNCHANGED <<pumper, held, stdinOpen, deaf>>
     \/ /\ \/ m.kind = "sig"
           \/ m.kind = "in" /\ ~ stdinOpen      \* the pipe is nil: dropped
           \/ m.kind = "eof" /\ pty
           \/ m.kind = "size" /\ ~ pty
        /\ UNCHANGED <<pumper, held, ptySize, stdinOpen, deaf>>
  /\ UNCHANGED <<wrapVars, termVars, respVars, down, d, pty, inPipe, toolIn, tool, outVars>>

(* read_message_timeout, or the wrapper has gone: nothing more is read.     *)
PumperStops ==
  /\ pumper = "read" /\ up = <<>>
  /\ HangUp /\ deaf' = (deaf \/ WrapperOpen)
  /\ UNCHANGED <<wrapVars, termVars, respVars, up, down, d, held, pty, ptySize, toolVars, outVars>>

(* Write to the tool's stdin, which blocks while it is full.                *)
PumperWrites ==
  /\ pumper = "write"
  /\ \/ /\ tool # "exited" /\ inPipe < PipeCap
        /\ inPipe' = inPipe + 1 /\ toolIn' = Append(toolIn, held)
     \/ /\ tool = "exited"
        /\ UNCHANGED <<inPipe, toolIn>>
  /\ pumper' = "read" /\ held' = 0
  /\ UNCHANGED <<wrapVars, termVars, respVars, up, down, d, pty, ptySize, stdinOpen, deaf, tool,
                 outVars>>

(* The tool: a filter.                                                      *)
ToolReads ==
  /\ tool = "ready" /\ inPipe > 0
  /\ tool' = "full" /\ inPipe' = inPipe - 1
  /\ UNCHANGED <<wrapVars, termVars, respVars, up, down, d, pumpVars, toolIn, outVars>>

ToolWrites ==
  /\ tool = "full" /\ outPipe < PipeCap
  /\ tool' = "ready" /\ outPipe' = outPipe + 1 /\ wrote' = wrote + 1
  /\ UNCHANGED <<wrapVars, termVars, respVars, up, down, d, pumpVars, inPipe, toolIn,
                 sender, sent, short, done>>

ToolExits ==
  /\ tool \in {"ready", "full"}
  /\ tool' = "exited"
  /\ UNCHANGED <<wrapVars, termVars, respVars, up, down, d, pumpVars, inPipe, toolIn,
                 outVars>>

(* A part of a frame takes no room that matters.                            *)
Room == Len(SelectSeq(down, LAMBDA m : m # "torn")) < DownCap
MaybeTorn == {down} \cup (IF down # <<>> /\ Last(down) = "torn" THEN {}
                          ELSE {Append(down, "torn")})

(* The output pumper.                                                       *)
OutputReads ==
  /\ sender = "read" /\ outPipe > 0
  /\ sender' = "send" /\ outPipe' = outPipe - 1
  /\ UNCHANGED <<wrapVars, termVars, respVars, up, down, d, pumpVars, toolVars, wrote, sent,
                 short, done>>

OutputSends ==
  /\ sender = "send" /\ WrapperOpen /\ Room
  /\ down' = Append(down, "out")
  /\ sender' = "read" /\ sent' = IF done THEN sent ELSE sent + 1
  /\ UNCHANGED <<wrapVars, termVars, respVars, up, d, pumpVars, toolVars, outPipe, wrote, short, done>>

(* A mutant of SendTimedOut: there is no write deadline.                    *)
SendBroken == ~ WrapperOpen
(* write_timeout, or a closed connection.                                   *)
SendTimedOut == ~ WrapperOpen \/ ~ Room

(* A send that fails may have left part of a frame behind.                  *)
OutputFails ==
  /\ sender = "send" /\ SendTimedOut
  /\ down' \in MaybeTorn
  /\ sender' = "read" /\ short' = TRUE
  /\ UNCHANGED <<wrapVars, termVars, respVars, up, d, pumpVars, toolVars, outPipe, wrote, sent, done>>

(* A mutant of Drained: done does not wait for the output pumper.           *)
NotDrained == TRUE
Drained == outPipe = 0 /\ sender = "read"

(* The run is over: done is sent, if it can be.  The wait for the output    *)
(* pumper is capped, at 5 s, or at 2 s when the tool timed out: then done   *)
(* goes out ahead of what the pumper and the pipe still hold.               *)
Finish ==
  /\ d = "running" /\ tool = "exited"
  /\ short' = (short \/ ~ Drained)
  /\ \/ /\ Room /\ WrapperOpen
        /\ down' = Append(down, "done") /\ done' = TRUE
     \/ /\ SendTimedOut
        /\ down' \in MaybeTorn
        /\ UNCHANGED done
  /\ d' = "closing"
  /\ UNCHANGED <<wrapVars, termVars, respVars, up, pumpVars, toolVars, outPipe, wrote, sender, sent>>

(* cleanup and the handler's deferred Close, while the pumpers still run.   *)
CloseConn ==
  /\ d = "closing"
  /\ d' = "closed"
  /\ StopPumper /\ sender' = "off"
  /\ UNCHANGED <<wrapVars, termVars, respVars, up, down, held, pty, ptySize, deaf, toolVars, outPipe,
                 wrote, sent, short, done>>

(* The daemon dies or is shut down: it does not wait for sessions.          *)
DaemonDies ==
  /\ MayCrash /\ d # "closed"
  /\ d' = "closed"
  /\ StopPumper
  /\ tool' = "exited" /\ sender' = "off"
  /\ UNCHANGED <<wrapVars, termVars, respVars, up, down, held, pty, ptySize, deaf, inPipe, toolIn,
                 outPipe, wrote, sent, short, done>>
-----------------------------------------------------------------------------
WrapperStep ==
  \/ SendRequest \/ EnterLoop \/ RelayStdin \/ RelayEOF \/ RelaySignal \/ RelayWinSize
  \/ WriteCompletes \/ HandleResponse
HeaderStep == ReadHeader \/ HeaderTimeout
PumperStep == PumperReads \/ PumperStops \/ PumperWrites
OutputStep == OutputReads \/ OutputSends \/ OutputFails

(* Nothing more happens when both ends are closed; or a wrapper is left     *)
(* that was never told.                                                     *)
Over ==
  /\ d = "closed" /\ (wpc = "exit" \/ resp = "eof")
  /\ UNCHANGED vars

Next ==
  \/ WrapperStep \/ ReadStdin \/ StdinEnds \/ Interrupt \/ Resize \/ Decode
  \/ HeaderStep \/ PumperStep \/ ToolReads \/ ToolWrites \/ ToolExits
  \/ OutputStep \/ Finish \/ CloseConn \/ DaemonDies \/ Over

Spec == Init /\ [][Next]_vars

(* Goroutines that can run do run; timeouts fire; a tool ends, at the       *)
(* latest at its timeout.  Nothing is assumed of the wrapper's stdin or of  *)
(* the case its select takes: what else is ready is bounded.                *)
Fairness ==
  /\ WF_vars(WrapperStep) /\ WF_vars(Decode)
  /\ WF_vars(HeaderStep) /\ WF_vars(PumperStep)
  /\ WF_vars(ToolReads \/ ToolWrites) /\ WF_vars(ToolExits)
  /\ WF_vars(OutputStep) /\ WF_vars(Finish \/ CloseConn)

FairSpec == Spec /\ Fairness
-----------------------------------------------------------------------------
FlagsOK ==
  /\ sigCh \in BOOLEAN /\ overtook \in BOOLEAN /\ tty \in BOOLEAN /\ raw \in BOOLEAN
  /\ winCh \in BOOLEAN /\ pty \in BOOLEAN /\ stdinOpen \in BOOLEAN /\ deaf \in BOOLEAN
  /\ short \in BOOLEAN /\ done \in BOOLEAN

WrapperTypes ==
  /\ wpc \in {"send", "newline", "loop", "write", "exit"}
  /\ wexit \in {"none", "code", "error"}
  /\ rd \in 0 .. Chunks /\ stdinCh \in Seq(Nat) /\ Len(stdinCh) <= ChanCap
  /\ eof \in {"open", "closed", "sent"} /\ sigs \in 0 .. Signals
  /\ size \in 1 .. Resizes + 1

Upward == [kind : {"req", "nl", "in", "eof", "sig", "size"}, n : Nat]
Downward == {"out", "done", "error", "raw", "torn"}
SocketTypes ==
  /\ out \in Upward \union {Nothing}
  /\ up \in Seq(Upward) /\ Len(up) <= UpCap
  /\ down \in Seq(Downward)
  /\ resp \in {"read", "eof", "err", "out", "done", "error"}
  /\ sent \in Nat /\ printed \in Nat

DaemonTypes ==
  /\ d \in {"header", "running", "closing", "closed"}
  /\ pumper \in {"off", "read", "write", "done"} /\ held \in Nat /\ ptySize \in Nat
  /\ tool \in {"off", "ready", "full", "exited"} /\ sender \in {"off", "read", "send"}
  /\ inPipe \in 0 .. PipeCap /\ outPipe \in 0 .. PipeCap
  /\ toolIn \in Seq(Nat) /\ wrote \in Nat

(* Every variable keeps its type, and the channel, the socket towards the   *)
(* daemon and the pipes hold no more than they can.                         *)
TypeOK == FlagsOK /\ WrapperTypes /\ SocketTypes /\ DaemonTypes

(* The tool's input is a prefix of the wrapper's, in order, without gaps    *)
(* and without repetition, however the session goes.  It ends early only    *)
(* when the tool or the wrapper has exited, when the end was relayed before *)
(* chunks that waited in stdinCh (the select of ioLoop does not prefer      *)
(* stdinCh to stdinEOF), or when the pumper went deaf: it took the newline  *)
(* of the request for a message, or read nothing for read_message_timeout.  *)
StdinFaithful ==
  /\ \A i \in 1 .. Len(toolIn) : toolIn[i] = i
  /\ ~ stdinOpen =>
       Len(toolIn) = Chunks \/ tool = "exited" \/ wpc = "exit" \/ overtook \/ deaf

(* A wrapper that exits with the tool's code has printed every output       *)
(* message that was sent ahead of done, and nothing else: all that the tool *)
(* wrote, unless the daemon gave output up because a send failed or the     *)
(* wait for the pumper ran out.                                             *)
OutputBeforeExit ==
  wexit = "code" => done /\ printed = sent /\ (short \/ printed = wrote)

(* The tool's terminal has the size of the wrapper's once no change is on   *)
(* its way: a SIGWINCH may find the channel full, and one before it is      *)
(* registered is not heard at all.  A pumper that went deaf hears of no     *)
(* resize any more.                                                         *)
SizeFollows ==
  pty /\ raw /\ ~ winCh /\ out.kind # "size" /\ DaemonOpen =>
    ptySize = size \/ deaf \/ \E i \in 1 .. Len(up) : up[i].kind = "size"

(* Every session ends: when wrapper, daemon and tool all wait for each      *)
(* other on full buffers, the write timeout breaks the circle.  A wrapper   *)
(* that was sent done exits; one whose stream ended between two frames      *)
(* without it is left with nothing to wait for (ioLoop ignores io.EOF), and *)
(* that happens only if the daemon died or could not send.                  *)
SessionEnds ==
  /\ <>(d = "closed" /\ (wpc = "exit" \/ resp = "eof"))
  /\ []<>(done => wpc = "exit")
=============================================================================
