------------------------- MODULE WrapperSessionProofs -------------------------
(* Proofs about WrapperSession, for any number of chunks, signals and        *)
(* resizes and for any capacity of the channel, the socket and the pipes.    *)
EXTENDS WrapperSession, SequenceTheorems, FunctionTheorems, FiniteSetTheorems, TLAPS

(* Who may be where: the handler, its pumper and the wrapper.               *)
ControlOK ==
  /\ (wpc = "write") <=> (out.kind # "none")
  /\ wpc \in {"send", "newline"} => ~ raw /\ rd = 0 /\ eof = "open" /\ Len(up) <= 1
  /\ wpc = "send" => up = <<>>
  /\ raw => wpc \in {"loop", "write"}
  /\ pumper \in {"read", "write"} => d \in {"running", "closing"}
  /\ d = "header" => pumper = "off" /\ ~ pty /\ stdinOpen /\ tool = "off"
  /\ pumper = "write" => stdinOpen
  /\ pumper = "done" /\ d # "closed" => deaf \/ wpc = "exit"
  /\ d = "closing" => tool = "exited"

(* Chunks the loop has written to the socket, and chunks the pumper took    *)
(* from it.                                                                 *)
Relayed == rd - Len(stdinCh) - (IF out.kind = "in" THEN 1 ELSE 0)
Taken == Len(toolIn) + (IF pumper = "write" THEN 1 ELSE 0)

(* The channel holds the chunks read last, and its end comes after them.    *)
ReaderOK ==
  /\ \A i \in 1 .. Len(stdinCh) : stdinCh[i] = rd - Len(stdinCh) + i
  /\ Len(stdinCh) <= rd
  /\ out.kind = "in" => out.n = rd - Len(stdinCh) /\ out.n >= 1
  /\ eof # "open" => rd = Chunks
  /\ out.kind = "eof" \/ overtook \/ (\E i \in 1 .. Len(up) : up[i].kind = "eof") => eof = "sent"
  /\ eof = "sent" /\ ~ overtook => stdinCh = <<>> /\ out.kind # "in"

(* Nothing was dropped on the way to the tool so far.                       *)
Live == d # "closed" /\ pumper # "done" /\ stdinOpen /\ tool # "exited"

(* The messages s hold the chunks after lo up to hi, each of them, in       *)
(* order.                                                                   *)
Between(s, lo, hi) ==
  /\ lo <= hi
  /\ \A i \in 1 .. Len(s) : s[i].kind = "in" => s[i].n \in lo + 1 .. hi
  /\ \A v \in lo + 1 .. hi : \E i \in 1 .. Len(s) : s[i].kind = "in" /\ s[i].n = v
  /\ \A i, j \in 1 .. Len(s) :
       i < j /\ s[i].kind = "in" /\ s[j].kind = "in" => s[i].n < s[j].n

(* While nothing is dropped the socket holds exactly the chunks between the *)
(* two ends.                                                                *)
ChainOK ==
  Live => Between(up, Taken, Relayed) /\ (pumper = "write" => held = Len(toolIn) + 1)

(* No chunk follows the end of the input in the socket.                     *)
EndsLast(s) == \A i, j \in 1 .. Len(s) : i < j /\ s[i].kind = "eof" => s[j].kind # "in"
EndOK == ~ overtook => EndsLast(up)

(* The output messages in the socket towards the wrapper that no done       *)
(* precedes.                                                                *)
Ahead(s) == {i \in 1 .. Len(s) : s[i] = "out" /\ \A j \in 1 .. i : s[j] # "done"}

(* An output message that was sent ahead of done is printed, decoded or in  *)
(* the socket, before done.                                                 *)
OutputOK ==
  /\ printed + (IF resp = "done" THEN 0 ELSE Cardinality(Ahead(down))) + (IF resp = "out" THEN 1 ELSE 0) = sent
  /\ done <=> resp = "done" \/ \E i \in 1 .. Len(down) : down[i] = "done"
  /\ done => d \in {"closing", "closed"} /\ tool = "exited"
  /\ wexit = "code" => resp = "done" /\ wpc = "exit"

(* Unless output was given up, what the tool wrote was sent, is with the    *)
(* pumper or in the pipe, and all of it was sent before done.               *)
WroteOK ==
  /\ d = "header" => wrote = 0 /\ sent = 0 /\ outPipe = 0 /\ sender = "off"
  /\ d = "running" /\ ~ short => wrote = sent + outPipe + (IF sender = "send" THEN 1 ELSE 0)
  /\ done /\ ~ short => wrote = sent /\ outPipe = 0 /\ sender # "send"

(* The last size among the messages s is n; there is none.                  *)
LastSize(s, n) ==
  \E i \in 1 .. Len(s) :
    s[i].kind = "size" /\ s[i].n = n /\ \A j \in i + 1 .. Len(s) : s[j].kind # "size"
NoSize(s) == \A i \in 1 .. Len(s) : s[i].kind # "size"

(* The size on its way, or set, that nothing follows is the terminal's,     *)
(* unless a SIGWINCH is waiting.                                            *)
SizeOK ==
  raw /\ ~ winCh =>
    /\ out.kind = "size" => out.n = size
    /\ out.kind # "size" /\ d # "closed" /\ pumper # "done" =>
         LastSize(up, size) \/ (NoSize(up) /\ d # "header" /\ (pty => ptySize = size))

IInv ==
  /\ TypeOK /\ ControlOK /\ ReaderOK /\ ChainOK /\ EndOK /\ OutputOK /\ WroteOK /\ SizeOK
  /\ StdinFaithful

USE CapAssumption, BoundAssumption DEF vars, wrapVars, termVars, respVars, pumpVars, toolVars, outVars
-----------------------------------------------------------------------------
LEMMA Messages ==
  ASSUME NEW k \in {"req", "nl", "in", "eof", "sig", "size"}, NEW n \in Nat
  PROVE  Msg(k, n) \in Upward /\ Msg(k, n).kind = k /\ Msg(k, n).n = n
BY DEF Msg, Upward

LEMMA NothingIsNone == Nothing.kind = "none" /\ Nothing.n = 0 /\ Nothing \notin Upward
BY DEF Nothing, Msg, Upward

LEMMA EmptyAhead == Cardinality(Ahead(<<>>)) = 0
<1>1. Ahead(<<>>) = {}
  BY DEF Ahead
<1> QED
  BY <1>1, FS_EmptySet

LEMMA InitIInv == Init => IInv
<1> SUFFICES ASSUME Init PROVE IInv
  OBVIOUS
<1>1. FlagsOK
  BY Zenon DEF Init, FlagsOK
<1>2. TypeOK
  BY <1>1, EmptySeq DEF Init, TypeOK, WrapperTypes, SocketTypes, DaemonTypes
<1>3. ControlOK /\ ReaderOK /\ ChainOK /\ EndOK
  BY NothingIsNone DEF Init, ControlOK, ReaderOK, ChainOK, Between, EndOK, EndsLast, Relayed, Taken
<1>4. OutputOK /\ WroteOK
  BY EmptyAhead DEF Init, OutputOK, WroteOK
<1>5. SizeOK /\ StdinFaithful
  BY DEF Init, SizeOK, StdinFaithful
<1> QED
  BY <1>2, <1>3, <1>4, <1>5 DEF IInv

(* Flags stay flags.                                                        *)
LEMMA FlagsKeep == ASSUME FlagsOK PROVE [Next]_vars => FlagsOK'
<1> USE DEF FlagsOK
<1>1. CASE WrapperStep
  <2>1. CASE SendRequest \/ EnterLoop
    BY <2>1, Zenon DEF SendRequest, EnterLoop, Exit, Loop
  <2>2. CASE WriteCompletes \/ HandleResponse
    BY <2>2, Zenon DEF WriteCompletes, HandleResponse, Exit, Loop
  <2>3. CASE RelayStdin \/ RelayEOF \/ RelaySignal \/ RelayWinSize
    BY <2>3, Zenon DEF RelayStdin, RelayEOF, RelaySignal, RelayWinSize
  <2> QED
    BY <1>1, <2>1, <2>2, <2>3 DEF WrapperStep
<1>2. CASE ReadStdin \/ StdinEnds \/ Interrupt \/ Resize \/ Decode
  <2>1. CASE Decode
    BY <2>1, Zenon DEF Decode
  <2>2. CASE Resize
    BY <2>2, Zenon DEF Resize
  <2>3. CASE ReadStdin \/ StdinEnds \/ Interrupt
    BY <2>3, Zenon DEF ReadStdin, StdinEnds, Interrupt
  <2> QED
    BY <1>2, <2>1, <2>2, <2>3
<1>3. CASE HeaderStep
  BY <1>3, Zenon DEF HeaderStep, ReadHeader, HeaderTimeout
<1>4. CASE PumperStep
  <2>1. CASE PumperReads
    BY <2>1, Zenon DEF PumperReads, HangUp
  <2>2. CASE PumperStops \/ PumperWrites
    BY <2>2, Zenon DEF PumperStops, PumperWrites, HangUp
  <2> QED
    BY <1>4, <2>1, <2>2 DEF PumperStep
<1>5. CASE ToolReads \/ ToolWrites \/ ToolExits
  BY <1>5, Zenon DEF ToolReads, ToolWrites, ToolExits
<1>6. CASE OutputStep \/ Finish \/ CloseConn \/ DaemonDies
  <2>1. CASE OutputStep
    BY <2>1, Zenon DEF OutputStep, OutputReads, OutputSends, OutputFails
  <2>2. CASE Finish
    BY <2>2, Zenon DEF Finish
  <2>3. CASE CloseConn \/ DaemonDies
    BY <2>3, Zenon DEF CloseConn, DaemonDies, StopPumper
  <2> QED
    BY <1>6, <2>1, <2>2, <2>3
<1>7. CASE Over \/ UNCHANGED vars
  BY <1>7, Zenon DEF Over
<1> QED
  BY <1>1, <1>2, <1>3, <1>4, <1>5, <1>6, <1>7 DEF Next

(* Types: the wrapper's own state ...                                       *)
LEMMA WrapperTypesKeep == ASSUME IInv, [Next]_vars PROVE WrapperTypes'
<1>0. WrapperTypes
  BY DEF IInv, TypeOK
<1> USE DEF WrapperTypes
<1>1. CASE ReadStdin
  <2>1. rd + 1 \in Nat /\ stdinCh \in Seq(Nat) /\ Len(stdinCh) < ChanCap /\ stdinCh' = Append(stdinCh, rd + 1)
    BY <1>0, <1>1 DEF ReadStdin, Push, ChanRoom
  <2>2. stdinCh' \in Seq(Nat) /\ Len(stdinCh') <= ChanCap
    BY <2>1, AppendProperties
  <2> QED
    BY <1>0, <1>1, <2>2 DEF ReadStdin
<1>2. CASE RelayStdin
  <2>1. stdinCh \in Seq(Nat) /\ stdinCh # <<>> /\ stdinCh' = Tail(stdinCh) /\ Len(stdinCh) <= ChanCap
    BY <1>0, <1>2 DEF RelayStdin
  <2>2. stdinCh' \in Seq(Nat) /\ Len(stdinCh') <= ChanCap
    BY <2>1, HeadTailProperties, LenProperties
  <2> QED
    BY <1>0, <1>2, <2>2 DEF RelayStdin
<1>3. CASE SendRequest \/ EnterLoop \/ WriteCompletes \/ HandleResponse
  BY <1>0, <1>3 DEF SendRequest, EnterLoop, WriteCompletes, HandleResponse, Exit, Loop
<1>4. CASE RelayEOF \/ RelaySignal \/ RelayWinSize
  BY <1>0, <1>4 DEF RelayEOF, RelaySignal, RelayWinSize
<1>5. CASE StdinEnds \/ Interrupt \/ Resize
  <2>1. sigs' \in 0 .. Signals /\ size' \in 1 .. Resizes + 1 /\ eof' \in {"open", "closed", "sent"}
    BY <1>0, <1>5 DEF StdinEnds, Interrupt, Resize
  <2>2. UNCHANGED <<wpc, wexit, rd, stdinCh>>
    BY <1>5 DEF StdinEnds, Interrupt, Resize
  <2> QED
    BY <1>0, <2>1, <2>2
<1>6. CASE UNCHANGED <<wpc, wexit, rd, stdinCh, eof, sigs, size>>
  BY <1>0, <1>6
<1>7. CASE Decode \/ HeaderStep \/ PumperStep
  BY <1>6, <1>7 DEF Decode, HeaderStep, ReadHeader, HeaderTimeout, PumperStep, PumperReads, PumperStops, PumperWrites
<1>8. CASE ToolReads \/ ToolWrites \/ ToolExits \/ OutputStep \/ Finish \/ CloseConn \/ DaemonDies
           \/ Over \/ UNCHANGED vars
  BY <1>6, <1>8 DEF ToolReads, ToolWrites, ToolExits, OutputStep, OutputReads, OutputSends, OutputFails, Finish,
     CloseConn, DaemonDies, Over
<1> QED
  BY <1>1, <1>2, <1>3, <1>4, <1>5, <1>7, <1>8 DEF Next, WrapperStep

(* ... the messages between the two ...                                     *)
LEMMA DownTypes ==
  ASSUME SocketTypes
  PROVE  /\ Append(down, "raw") \in Seq(Downward) /\ Append(down, "error") \in Seq(Downward)
         /\ Append(down, "out") \in Seq(Downward) /\ Append(down, "done") \in Seq(Downward)
         /\ MaybeTorn \subseteq Seq(Downward)
<1>1. down \in Seq(Downward) /\ {"raw", "error", "out", "done", "torn"} \subseteq Downward
  BY DEF SocketTypes, Downward
<1>2. \A m \in Downward : Append(down, m) \in Seq(Downward)
  BY <1>1, AppendProperties
<1> QED
  BY <1>1, <1>2 DEF MaybeTorn

LEMMA SocketTypesKeep == ASSUME IInv, [Next]_vars PROVE SocketTypes'
<1>0. /\ SocketTypes /\ size \in Nat /\ ControlOK
      /\ out \in Upward \union {Nothing} /\ up \in Seq(Upward) /\ Len(up) \in Nat /\ Len(up) <= UpCap
      /\ down \in Seq(Downward) /\ sent \in Nat /\ printed \in Nat
      /\ resp \in {"read", "eof", "err", "out", "done", "error"}
  BY LenProperties DEF IInv, TypeOK, WrapperTypes, SocketTypes
<1>1. ASSUME NEW m \in Upward, Len(up) < UpCap
      PROVE  Append(up, m) \in Seq(Upward) /\ Len(Append(up, m)) <= UpCap
  BY <1>0, <1>1, AppendProperties
<1>2. CASE SendRequest \/ EnterLoop
  <2>1. Msg("req", IF tty THEN size ELSE 0) \in Upward /\ Msg("nl", 0) \in Upward
        /\ Msg("size", SizeNow) \in Upward
    BY <1>0, Messages DEF SizeNow
  <2>2. Len(up) < UpCap
    BY <1>0, <1>2 DEF SendRequest, EnterLoop, ControlOK
  <2>3. up' \in Seq(Upward) /\ Len(up') <= UpCap /\ out' \in Upward \union {Nothing}
    BY <1>0, <1>1, <1>2, <2>1, <2>2 DEF SendRequest, EnterLoop
  <2>4. UNCHANGED <<down, resp, sent, printed>>
    BY <1>2 DEF SendRequest, EnterLoop
  <2> QED
    BY <1>0, <2>3, <2>4 DEF SocketTypes
<1>3. CASE RelayStdin \/ RelayEOF \/ RelaySignal \/ RelayWinSize
  <2>1. Msg("eof", 0) \in Upward /\ Msg("sig", 0) \in Upward /\ Msg("size", SizeNow) \in Upward
    BY <1>0, Messages DEF SizeNow
  <2>2. stdinCh # <<>> => Msg("in", Head(stdinCh)) \in Upward
    <3>1. stdinCh # <<>> => Head(stdinCh) \in Nat
      BY HeadTailProperties DEF IInv, TypeOK, WrapperTypes
    <3> QED
      BY <3>1, Messages
  <2>3. out' \in Upward /\ UNCHANGED <<up, down, resp, sent, printed>>
    BY <1>3, <2>1, <2>2 DEF RelayStdin, RelayEOF, RelaySignal, RelayWinSize
  <2> QED
    BY <1>0, <2>3 DEF SocketTypes
<1>4. CASE WriteCompletes
  <2>1. out \in Upward
    BY <1>0, <1>4, NothingIsNone DEF WriteCompletes, ControlOK
  <2>2. up' \in Seq(Upward) /\ Len(up') <= UpCap
    BY <1>0, <1>1, <1>4, <2>1 DEF WriteCompletes
  <2>3. out' = Nothing /\ UNCHANGED <<down, resp, sent, printed>>
    BY <1>4 DEF WriteCompletes
  <2> QED
    BY <1>0, <2>2, <2>3 DEF SocketTypes
<1>5. CASE HandleResponse
  BY <1>0, <1>5 DEF HandleResponse, SocketTypes
<1>6. CASE Decode
  <2>1. down # <<>> => Head(down) \in Downward /\ Tail(down) \in Seq(Downward)
    BY <1>0, HeadTailProperties
  <2>2. down' \in Seq(Downward) /\ resp' \in {"read", "eof", "err", "out", "done", "error"}
    BY <1>0, <1>6, <2>1 DEF Decode, Downward
  <2>3. UNCHANGED <<out, up, sent, printed>>
    BY <1>6 DEF Decode
  <2> QED
    BY <1>0, <2>2, <2>3 DEF SocketTypes
<1>7. CASE HeaderStep \/ PumperStep
  <2>1. <<>> \in Seq(Upward) /\ Len(<<>>) = 0
    BY EmptySeq
  <2>2. up # <<>> => Tail(up) \in Seq(Upward) /\ Len(Tail(up)) <= UpCap
    BY <1>0, HeadTailProperties
  <2>3. up' = up \/ up' = <<>> \/ (up # <<>> /\ up' = Tail(up))
    BY <1>7 DEF HeaderStep, ReadHeader, HeaderTimeout, PumperStep, PumperReads, PumperStops, PumperWrites
  <2>4. up' \in Seq(Upward) /\ Len(up') <= UpCap
    <3>1. CASE up' = <<>>
      BY <2>1, <3>1
    <3>2. CASE up # <<>> /\ up' = Tail(up)
      BY <2>2, <3>2
    <3> QED
      BY <1>0, <2>3, <3>1, <3>2
  <2>5. down' \in Seq(Downward) /\ UNCHANGED <<out, resp, sent, printed>>
    BY <1>0, <1>7, DownTypes DEF HeaderStep, ReadHeader, HeaderTimeout, Refuse, PumperStep, PumperReads,
       PumperStops, PumperWrites
  <2> QED
    BY <1>0, <2>4, <2>5 DEF SocketTypes
<1>8. CASE OutputStep \/ Finish
  <2>1. sent' \in Nat /\ UNCHANGED <<out, up, resp, printed>>
    BY <1>0, <1>8 DEF OutputStep, OutputReads, OutputSends, OutputFails, Finish
  <2>2. down' \in {down, Append(down, "out"), Append(down, "done")} \union MaybeTorn
    BY <1>8 DEF OutputStep, OutputReads, OutputSends, OutputFails, Finish
  <2>3. down' \in Seq(Downward)
    BY <1>0, <2>2, DownTypes
  <2> QED
    BY <1>0, <2>1, <2>3 DEF SocketTypes
<1>9. CASE UNCHANGED <<out, up, down, resp, sent, printed>>
  BY <1>0, <1>9 DEF SocketTypes
<1>10. CASE \/ ReadStdin \/ StdinEnds \/ Interrupt \/ Resize \/ ToolReads \/ ToolWrites \/ ToolExits
            \/ CloseConn \/ DaemonDies \/ Over \/ UNCHANGED vars
  BY <1>9, <1>10 DEF ReadStdin, StdinEnds, Interrupt, Resize, ToolReads, ToolWrites, ToolExits, CloseConn,
     DaemonDies, Over
<1> QED
  BY <1>2, <1>3, <1>4, <1>5, <1>6, <1>7, <1>8, <1>10 DEF Next, WrapperStep

(* ... and the daemon's.                                                    *)
LEMMA DaemonTypesKeep == ASSUME IInv, [Next]_vars PROVE DaemonTypes'
<1>0. DaemonTypes /\ SocketTypes
  BY DEF IInv, TypeOK
<1>1. CASE HeaderStep \/ PumperReads \/ PumperStops
  <2>1. up # <<>> => Head(up).n \in Nat
    <3>1. up # <<>> => Head(up) \in Upward
      BY <1>0, HeadTailProperties DEF SocketTypes
    <3> QED
      BY <3>1 DEF Upward
  <2>2. d' \in {"header", "running", "closing", "closed"} /\ pumper' \in {"off", "read", "write", "done"}
        /\ tool' \in {"off", "ready", "full", "exited"} /\ sender' \in {"off", "read", "send"}
    <3>1. CASE HeaderStep
      BY <1>0, <3>1 DEF HeaderStep, ReadHeader, HeaderTimeout, Refuse, DaemonTypes
    <3>2. CASE PumperReads \/ PumperStops
      BY <1>0, <3>2 DEF PumperReads, PumperStops, HangUp, DaemonTypes
    <3> QED
      BY <1>1, <3>1, <3>2
  <2>3. held' \in Nat /\ ptySize' \in Nat
    <3>1. CASE ReadHeader
      <4>1. ptySize' = Head(up).n \/ ptySize' = 0 \/ ptySize' = ptySize
        BY <3>1, Zenon DEF ReadHeader
      <4>2. up # <<>> /\ held' = held
        BY <3>1 DEF ReadHeader
      <4> QED
        BY <1>0, <2>1, <4>1, <4>2 DEF DaemonTypes
    <3>2. CASE PumperReads
      BY <1>0, <2>1, <3>2 DEF PumperReads, DaemonTypes
    <3> QED
      BY <1>0, <1>1, <3>1, <3>2 DEF HeaderStep, HeaderTimeout, PumperStops, DaemonTypes
  <2>4. UNCHANGED <<inPipe, outPipe, toolIn, wrote>>
    BY <1>1 DEF HeaderStep, ReadHeader, HeaderTimeout, PumperReads, PumperStops
  <2> QED
    BY <1>0, <2>2, <2>3, <2>4 DEF DaemonTypes
<1>2. CASE PumperWrites
  <2>1. toolIn \in Seq(Nat) /\ held \in Nat
    BY <1>0 DEF DaemonTypes
  <2>2. toolIn' \in Seq(Nat)
    BY <1>2, <2>1, AppendProperties DEF PumperWrites
  <2> QED
    BY <1>0, <1>2, <2>2 DEF PumperWrites, DaemonTypes
<1>3. CASE ToolReads \/ ToolWrites \/ ToolExits
  BY <1>0, <1>3 DEF ToolReads, ToolWrites, ToolExits, DaemonTypes
<1>4. CASE OutputStep \/ Finish \/ CloseConn \/ DaemonDies
  BY <1>0, <1>4 DEF OutputStep, OutputReads, OutputSends, OutputFails, Finish, CloseConn, DaemonDies, StopPumper,
     DaemonTypes
<1>5. CASE UNCHANGED <<d, pumper, held, ptySize, tool, sender, inPipe, outPipe, toolIn, wrote>>
  BY <1>0, <1>5 DEF DaemonTypes
<1>6. CASE ReadStdin \/ StdinEnds \/ Interrupt \/ Resize \/ Decode \/ Over \/ UNCHANGED vars
  BY <1>5, <1>6 DEF ReadStdin, StdinEnds, Interrupt, Resize, Decode, Over
<1>7. CASE WrapperStep
  BY <1>5, <1>7 DEF WrapperStep, SendRequest, EnterLoop, RelayStdin, RelayEOF, RelaySignal, RelayWinSize,
     WriteCompletes, HandleResponse
<1> QED
  BY <1>1, <1>2, <1>3, <1>4, <1>6, <1>7 DEF Next, PumperStep
-----------------------------------------------------------------------------
LEMMA ControlKeep == ASSUME IInv, [Next]_vars PROVE ControlOK'
<1>0. /\ ControlOK /\ wpc \in {"send", "newline", "loop", "write", "exit"}
      /\ d \in {"header", "running", "closing", "closed"} /\ pumper \in {"off", "read", "write", "done"}
      /\ up \in Seq(Upward) /\ Len(up) \in Nat
  BY LenProperties DEF IInv, TypeOK, WrapperTypes, SocketTypes, DaemonTypes
<1>1. CASE SendRequest
  <2>1. wpc = "send" /\ UNCHANGED <<out, rd, eof, pumper, d, pty, stdinOpen, deaf, tool>>
    BY <1>1 DEF SendRequest
  <2>2. CASE DaemonOpen
    <3>1. wpc' = "newline" /\ raw' = raw /\ up' = Append(up, Msg("req", IF tty THEN size ELSE 0))
      BY <1>1, <2>2 DEF SendRequest
    <3>2. Msg("req", IF tty THEN size ELSE 0) \in Upward
      BY Messages DEF IInv, TypeOK, WrapperTypes
    <3>3. Len(up') <= 1
      <4>1. Len(up') = Len(up) + 1
        BY <1>0, <3>1, <3>2, AppendProperties
      <4> QED
        BY <1>0, <2>1, <4>1 DEF ControlOK
    <3> QED
      BY <1>0, <2>1, <3>1, <3>3 DEF ControlOK
  <2>3. CASE ~ DaemonOpen
    BY <1>0, <1>1, <2>1, <2>3 DEF SendRequest, Exit, ControlOK
  <2> QED
    BY <2>2, <2>3
<1>2. CASE EnterLoop
  <2>1. /\ UNCHANGED <<rd, eof, pumper, d, pty, stdinOpen, deaf, tool>> /\ wpc = "newline"
        /\ \/ wpc' \in {"loop", "exit"} /\ out' = out
           \/ wpc' = "write" /\ out' = Msg("size", SizeNow)
    BY <1>2, Zenon DEF EnterLoop, Exit, Loop
  <2>3. wpc' = "exit" => ~ raw'
    BY <1>2, Zenon DEF EnterLoop, Exit, Loop
  <2>2. Msg("size", SizeNow).kind = "size"
    BY Messages DEF IInv, TypeOK, WrapperTypes, SizeNow
  <2> QED
    BY <1>0, <2>1, <2>2, <2>3 DEF ControlOK
<1>3. CASE RelayStdin \/ RelayEOF \/ RelaySignal \/ RelayWinSize
  <2>1. /\ wpc = "loop" /\ wpc' = "write" /\ UNCHANGED <<raw, rd, up, pumper, d, pty, stdinOpen, deaf, tool>>
        /\ \E k \in {"in", "eof", "sig", "size"} : \E n : out' = Msg(k, n)
    BY <1>3 DEF RelayStdin, RelayEOF, RelaySignal, RelayWinSize
  <2>2. out'.kind # "none"
    BY <2>1 DEF Msg
  <2> QED
    BY <1>0, <2>1, <2>2 DEF ControlOK
<1>4. CASE WriteCompletes
  <2>1. /\ wpc = "write" /\ wpc' \in {"loop", "exit"} /\ (wpc' = "exit" => ~ raw') /\ (wpc' = "loop" => raw' = raw)
        /\ out' = Nothing /\ UNCHANGED <<rd, eof, pumper, d, pty, stdinOpen, deaf, tool>>
    BY <1>4 DEF WriteCompletes, Exit, Loop
  <2> QED
    BY <1>0, <2>1, NothingIsNone DEF ControlOK
<1>5. CASE HandleResponse
  <2>1. /\ wpc = "loop" /\ wpc' \in {"loop", "exit"} /\ (wpc' = "exit" => ~ raw') /\ (wpc' = "loop" => raw' = raw)
        /\ UNCHANGED <<out, rd, eof, up, pumper, d, pty, stdinOpen, deaf, tool>>
    BY <1>5 DEF HandleResponse, Exit
  <2> QED
    BY <1>0, <2>1 DEF ControlOK
<1>6. CASE ReadStdin \/ StdinEnds
  <2>1. /\ wpc \in {"loop", "write"} /\ UNCHANGED <<wpc, out, raw, up, pumper, d, pty, stdinOpen, deaf, tool>>
    BY <1>6 DEF ReadStdin, StdinEnds
  <2> QED
    BY <1>0, <2>1 DEF ControlOK
<1>7. CASE ReadHeader
  <2>1. /\ d = "header" /\ d' \in {"running", "closed"} /\ pumper' \in {pumper, "read"}
        /\ (pumper' = "read" => d' = "running" \/ pumper' = pumper)
        /\ up' = <<>> /\ UNCHANGED <<wpc, out, raw, rd, eof, stdinOpen, deaf>>
    BY <1>7 DEF ReadHeader, Refuse
  <2>2. Len(up') = 0
    BY <2>1
  <2> QED
    BY <1>0, <2>1, <2>2 DEF ControlOK
<1>8. CASE HeaderTimeout
  BY <1>0, <1>8 DEF HeaderTimeout, Refuse, ControlOK
<1>9. CASE PumperReads
  <2>1. /\ pumper = "read" /\ up # <<>> /\ up' = Tail(up)
        /\ UNCHANGED <<wpc, out, raw, rd, eof, d, tool>>
    BY <1>9 DEF PumperReads
  <2>2. Len(up') = Len(up) - 1
    BY <1>0, <2>1, HeadTailProperties
  <2>3. \/ pumper' = "done" /\ deaf'
        \/ pumper' = "write" /\ stdinOpen'
        \/ pumper' = "read"
    <3>1. \/ pumper' = "done" /\ deaf' = TRUE
          \/ pumper' = "write" /\ stdinOpen /\ stdinOpen' = stdinOpen
          \/ pumper' = "read"
      BY <1>9 DEF PumperReads, HangUp
    <3>2. ASSUME deaf' = TRUE PROVE deaf'
      BY <3>2, Zenon
    <3>3. ASSUME stdinOpen, stdinOpen' = stdinOpen PROVE stdinOpen'
      BY <3>3, Zenon
    <3> QED
      BY <3>1, <3>2, <3>3
  <2>4. d \in {"running", "closing"} /\ wpc # "send"
    BY <1>0, <2>1 DEF ControlOK
  <2>5. Len(up') <= Len(up)
    BY <1>0, <2>2
  <2>6. /\ pumper' \in {"read", "write"} => d' \in {"running", "closing"}
        /\ pumper' = "write" => stdinOpen'
        /\ pumper' = "done" /\ d' # "closed" => deaf' \/ wpc' = "exit"
    BY <2>1, <2>3, <2>4
  <2>7. d' # "header" /\ wpc' # "send"
    BY <2>1, <2>4
  <2> QED
    BY <1>0, <2>1, <2>5, <2>6, <2>7 DEF ControlOK
<1>10. CASE PumperStops
  <2>1. /\ pumper = "read" /\ pumper' = "done" /\ UNCHANGED <<wpc, out, raw, rd, eof, up, d, tool>>
    BY <1>10 DEF PumperStops, HangUp
  <2>2. deaf' \/ wpc' = "exit"
    BY <1>10, Zenon DEF PumperStops, WrapperOpen
  <2> QED
    BY <1>0, <2>1, <2>2 DEF ControlOK
<1>11. CASE PumperWrites
  BY <1>0, <1>11 DEF PumperWrites, ControlOK
<1>12. CASE Finish \/ CloseConn \/ DaemonDies
  <2>1. CASE CloseConn \/ DaemonDies
    <3>1. d' = "closed" /\ pumper' = "done" /\ UNCHANGED <<wpc, out, raw, rd, eof, up>>
      BY <2>1 DEF CloseConn, DaemonDies, StopPumper
    <3> QED
      BY <1>0, <3>1 DEF ControlOK
  <2>2. CASE Finish
    <3>1. /\ d = "running" /\ d' = "closing" /\ tool = "exited"
          /\ UNCHANGED <<wpc, out, raw, rd, eof, up, pumper, pty, stdinOpen, deaf, tool>>
      BY <2>2 DEF Finish
    <3> QED
      BY <1>0, <3>1 DEF ControlOK
  <2> QED
    BY <1>12, <2>1, <2>2
<1>13. CASE UNCHANGED <<wpc, out, raw, rd, eof, up, pumper, d, pty, stdinOpen, deaf, tool>>
  BY <1>0, <1>13 DEF ControlOK
<1>14. CASE Interrupt \/ Resize \/ Decode \/ Over \/ UNCHANGED vars
  BY <1>13, <1>14 DEF Interrupt, Resize, Decode, Over
<1>15. CASE OutputStep
  BY <1>13, <1>15 DEF OutputStep, OutputReads, OutputSends, OutputFails
<1>16. CASE ToolReads \/ ToolWrites \/ ToolExits
  <2>1. tool \notin {"off", "exited"} /\ UNCHANGED <<wpc, out, raw, rd, eof, up, pumper, d, pty, stdinOpen, deaf>>
    BY <1>16 DEF ToolReads, ToolWrites, ToolExits
  <2> QED
    BY <1>0, <2>1 DEF ControlOK
<1> QED
  BY <1>1, <1>2, <1>3, <1>4, <1>5, <1>6, <1>7, <1>8, <1>9, <1>10, <1>11, <1>12, <1>14, <1>15, <1>16
     DEF Next, WrapperStep, HeaderStep, PumperStep

(* The socket towards the daemon: a message goes in at one end ...          *)
LEMMA UpGrows ==
  ASSUME IInv, NEW m \in Upward, up' = Append(up, m)
  PROVE  /\ Len(up) \in Nat /\ Len(up') = Len(up) + 1
         /\ up'[Len(up) + 1] = m /\ \A i \in 1 .. Len(up) : up'[i] = up[i]
<1>1. up \in Seq(Upward)
  BY DEF IInv, TypeOK, SocketTypes
<1> QED
  BY <1>1, AppendProperties, LenProperties

(* ... and comes out at the other.                                          *)
LEMMA UpShrinks ==
  ASSUME IInv, up # <<>>, up' = Tail(up)
  PROVE  /\ Len(up) \in Nat \ {0} /\ Len(up') = Len(up) - 1 /\ Head(up) = up[1]
         /\ \A i \in 1 .. Len(up) - 1 : up'[i] = up[i + 1]
<1>1. up \in Seq(Upward)
  BY DEF IInv, TypeOK, SocketTypes
<1>2. Len(up) \in Nat \ {0} /\ Len(up') = Len(up) - 1 /\ Head(up) = up[1]
  BY <1>1, EmptySeq, HeadTailProperties
<1>3. \A i \in 1 .. Len(Tail(up)) : Tail(up)[i] = up[i + 1]
  BY <1>1, HeadTailProperties
<1> QED
  BY <1>2, <1>3

(* What the loop writes for the select's cases.                             *)
LEMMA WriteGrows ==
  ASSUME IInv, WriteCompletes, up' # up
  PROVE  out \in Upward /\ up' = Append(up, out) /\ DaemonOpen
<1>1. out \in Upward \union {Nothing} /\ out.kind # "none"
  BY DEF IInv, TypeOK, SocketTypes, ControlOK, WriteCompletes
<1> QED
  BY <1>1, NothingIsNone DEF WriteCompletes
-----------------------------------------------------------------------------
(* The wrapper's end of stdin.                                              *)
LEMMA ReaderKeep == ASSUME IInv, [Next]_vars PROVE ReaderOK'
<1>0. ReaderOK /\ rd \in Nat /\ stdinCh \in Seq(Nat) /\ Len(stdinCh) \in Nat /\ Len(up) \in Nat
  BY LenProperties DEF IInv, TypeOK, WrapperTypes, SocketTypes
<1> DEFINE NoEnd == \A i \in 1 .. Len(up) : up[i].kind # "eof"
<1>1. CASE SendRequest \/ EnterLoop
  <2>1. wpc \in {"send", "newline"} /\ UNCHANGED <<rd, stdinCh, eof, overtook>>
    BY <1>1 DEF SendRequest, EnterLoop
  <2>2. eof = "open" /\ rd = 0 /\ ~ overtook /\ NoEnd /\ out.kind = "none"
    BY <1>0, <2>1 DEF IInv, ControlOK, ReaderOK
  <2>3. NoEnd'
    <3>1. CASE up' = up
      BY <2>2, <3>1
    <3>2. CASE up' # up
      <4>1. PICK m \in Upward : m.kind # "eof" /\ up' = Append(up, m)
        <5>1. Msg("req", IF tty THEN size ELSE 0) \in Upward /\ Msg("nl", 0) \in Upward
              /\ Msg("req", IF tty THEN size ELSE 0).kind = "req" /\ Msg("nl", 0).kind = "nl"
          BY Messages DEF IInv, TypeOK, WrapperTypes
        <5> QED
          BY <1>1, <3>2, <5>1 DEF SendRequest, EnterLoop
      <4> QED
        BY <1>0, <2>2, <4>1, UpGrows
    <3> QED
      BY <3>1, <3>2
  <2>4. out'.kind \in {"none", "size"}
    <3>1. Msg("size", SizeNow).kind = "size"
      BY DEF Msg
    <3>2. out' = out \/ out' = Msg("size", SizeNow)
      BY <1>1 DEF SendRequest, EnterLoop
    <3> QED
      BY <2>2, <3>1, <3>2
  <2> HIDE DEF NoEnd
  <2>5. ~ \E i \in 1 .. Len(up') : up'[i].kind = "eof"
    BY <2>3 DEF NoEnd
  <2> QED
    BY <1>0, <2>1, <2>2, <2>4, <2>5 DEF ReaderOK
<1>2. CASE RelayStdin
  <2>1. /\ stdinCh # <<>> /\ out' = Msg("in", Head(stdinCh)) /\ stdinCh' = Tail(stdinCh)
        /\ UNCHANGED <<rd, eof, up, overtook>>
    BY <1>2 DEF RelayStdin
  <2>2. /\ Len(stdinCh) \in Nat \ {0} /\ Head(stdinCh) = stdinCh[1] /\ Len(stdinCh') = Len(stdinCh) - 1
        /\ \A i \in 1 .. Len(stdinCh) - 1 : stdinCh'[i] = stdinCh[i + 1]
    <3>1. Len(stdinCh) \in Nat \ {0} /\ Head(stdinCh) = stdinCh[1] /\ Len(stdinCh') = Len(stdinCh) - 1
      BY <1>0, <2>1, EmptySeq, HeadTailProperties
    <3>2. \A i \in 1 .. Len(Tail(stdinCh)) : Tail(stdinCh)[i] = stdinCh[i + 1]
      BY <1>0, <2>1, HeadTailProperties
    <3> QED
      BY <2>1, <3>1, <3>2
  <2>3. out'.kind = "in" /\ out'.n = stdinCh[1] /\ stdinCh[1] = rd - Len(stdinCh) + 1
    <3>1. out'.kind = "in" /\ out'.n = Head(stdinCh)
      BY <2>1 DEF Msg
    <3>2. 1 \in 1 .. Len(stdinCh)
      BY <2>2
    <3> QED
      BY <1>0, <2>2, <3>1, <3>2 DEF ReaderOK
  <2>4. ~ (eof = "sent" /\ ~ overtook)
    BY <1>0, <2>1 DEF ReaderOK
  <2>5. \A i \in 1 .. Len(stdinCh') : stdinCh'[i] = rd - Len(stdinCh') + i
    BY <1>0, <2>2 DEF ReaderOK
  <2>6. Len(stdinCh') <= rd /\ out'.n = rd - Len(stdinCh') /\ out'.n >= 1
    BY <1>0, <2>2, <2>3 DEF ReaderOK
  <2>7. overtook \/ (\E i \in 1 .. Len(up) : up[i].kind = "eof") => eof = "sent"
    BY <1>0 DEF ReaderOK
  <2>8. eof # "open" => rd = Chunks
    BY <1>0 DEF ReaderOK
  <2> QED
    BY <2>1, <2>3, <2>4, <2>5, <2>6, <2>7, <2>8 DEF ReaderOK
<1>3. CASE RelayEOF
  <2>1. /\ eof = "closed" /\ eof' = "sent" /\ out' = Msg("eof", 0)
        /\ UNCHANGED <<rd, stdinCh>>
    BY <1>3 DEF RelayEOF
  <2>2. out'.kind = "eof"
    BY <2>1 DEF Msg
  <2>3. ~ overtook' => stdinCh = <<>>
    BY <1>3, Zenon DEF RelayEOF
  <2> QED
    BY <1>0, <2>1, <2>2, <2>3 DEF ReaderOK
<1>4. CASE RelaySignal \/ RelayWinSize
  <2>1. /\ \E k \in {"sig", "size"} : \E n : out' = Msg(k, n)
        /\ UNCHANGED <<rd, stdinCh, eof, up, overtook>>
    BY <1>4 DEF RelaySignal, RelayWinSize
  <2>2. out'.kind \in {"sig", "size"}
    BY <2>1 DEF Msg
  <2> QED
    BY <1>0, <2>1, <2>2 DEF ReaderOK
<1>5. CASE WriteCompletes
  <2>1. /\ out'.kind = "none" /\ UNCHANGED <<rd, stdinCh, eof, overtook>>
    BY <1>5, NothingIsNone DEF WriteCompletes
  <2>2. (\E i \in 1 .. Len(up') : up'[i].kind = "eof") => eof = "sent"
    <3>1. CASE up' = up
      BY <1>0, <3>1 DEF ReaderOK
    <3>2. CASE up' # up
      <4>1. out \in Upward /\ up' = Append(up, out)
        BY <1>5, <3>2, WriteGrows
      <4>2. /\ Len(up') = Len(up) + 1 /\ up'[Len(up) + 1] = out
            /\ \A i \in 1 .. Len(up) : up'[i] = up[i]
        BY <4>1, UpGrows
      <4>3. \A i \in 1 .. Len(up') : i \in 1 .. Len(up) \/ i = Len(up) + 1
        BY <1>0, <4>2
      <4> QED
        BY <1>0, <4>2, <4>3 DEF ReaderOK
    <3> QED
      BY <3>1, <3>2
  <2> QED
    BY <1>0, <2>1, <2>2 DEF ReaderOK
<1>6. CASE ReadStdin
  <2>1. /\ rd < Chunks /\ rd' = rd + 1 /\ stdinCh' = Append(stdinCh, rd + 1)
        /\ UNCHANGED <<out, eof, up, overtook>>
    BY <1>6 DEF ReadStdin, Push
  <2>2. /\ Len(stdinCh') = Len(stdinCh) + 1 /\ stdinCh'[Len(stdinCh) + 1] = rd + 1
        /\ \A i \in 1 .. Len(stdinCh) : stdinCh'[i] = stdinCh[i]
    BY <1>0, <2>1, AppendProperties
  <2>3. eof = "open" /\ ~ overtook /\ NoEnd /\ out.kind # "eof"
    BY <1>0, <2>1 DEF ReaderOK
  <2>4. \A i \in 1 .. Len(stdinCh') : stdinCh'[i] = rd' - Len(stdinCh') + i
    <3> SUFFICES ASSUME NEW i \in 1 .. Len(stdinCh') PROVE stdinCh'[i] = rd' - Len(stdinCh') + i
      OBVIOUS
    <3>1. CASE i \in 1 .. Len(stdinCh)
      BY <1>0, <2>1, <2>2, <3>1 DEF ReaderOK
    <3>2. CASE i = Len(stdinCh) + 1
      BY <1>0, <2>1, <2>2, <3>2
    <3> QED
      BY <1>0, <2>2, <3>1, <3>2
  <2>5. /\ Len(stdinCh') <= rd'
        /\ out'.kind = "in" => out'.n = rd' - Len(stdinCh') /\ out'.n >= 1
    BY <1>0, <2>1, <2>2 DEF ReaderOK
  <2> QED
    BY <2>1, <2>3, <2>4, <2>5 DEF ReaderOK
<1>7. CASE StdinEnds
  BY <1>0, <1>7 DEF StdinEnds, ReaderOK
<1>8. CASE ReadHeader
  <2>1. up' = <<>> /\ UNCHANGED <<rd, stdinCh, out, eof, overtook>>
    BY <1>8 DEF ReadHeader
  <2> QED
    BY <1>0, <2>1 DEF ReaderOK
<1>9. CASE PumperReads
  <2>1. up # <<>> /\ up' = Tail(up) /\ UNCHANGED <<rd, stdinCh, out, eof, overtook>>
    BY <1>9 DEF PumperReads
  <2>2. /\ Len(up) \in Nat \ {0} /\ Len(up') = Len(up) - 1
        /\ \A i \in 1 .. Len(up) - 1 : up'[i] = up[i + 1]
    BY <2>1, UpShrinks
  <2>3. (\E i \in 1 .. Len(up') : up'[i].kind = "eof") => eof = "sent"
    <3>1. (\E i \in 1 .. Len(up) : up[i].kind = "eof") => eof = "sent"
      BY <1>0 DEF ReaderOK
    <3>2. ASSUME NEW i \in 1 .. Len(up'), up'[i].kind = "eof" PROVE eof = "sent"
      <4>1. i + 1 \in 1 .. Len(up) /\ up'[i] = up[i + 1]
        BY <2>2
      <4> QED
        BY <3>1, <3>2, <4>1
    <3> QED
      BY <3>2
  <2> QED
    BY <1>0, <2>1, <2>3 DEF ReaderOK
<1>10. CASE UNCHANGED <<rd, stdinCh, out, eof, overtook, up>>
  BY <1>0, <1>10 DEF ReaderOK
<1>11. CASE \/ Interrupt \/ Resize \/ Decode \/ HandleResponse \/ HeaderTimeout \/ PumperStops \/ PumperWrites
            \/ Over \/ UNCHANGED vars
  BY <1>10, <1>11 DEF Interrupt, Resize, Decode, HandleResponse, HeaderTimeout, PumperStops, PumperWrites, Over
<1>12. CASE ToolReads \/ ToolWrites \/ ToolExits \/ OutputStep \/ Finish \/ CloseConn \/ DaemonDies
  BY <1>10, <1>12 DEF ToolReads, ToolWrites, ToolExits, OutputStep, OutputReads, OutputSends, OutputFails, Finish,
     CloseConn, DaemonDies
<1> QED
  BY <1>1, <1>2, <1>3, <1>4, <1>5, <1>6, <1>7, <1>8, <1>9, <1>11, <1>12
     DEF Next, WrapperStep, HeaderStep, PumperStep
-----------------------------------------------------------------------------
(* Chunks in the socket.                                                    *)

(* t is s with m appended; t is s without its first message.                *)
Grows(s, t, m) ==
  /\ Len(s) \in Nat /\ Len(t) = Len(s) + 1
  /\ t[Len(s) + 1] = m /\ \A i \in 1 .. Len(s) : t[i] = s[i]
Shrinks(s, t) ==
  /\ Len(s) \in Nat \ {0} /\ Len(t) = Len(s) - 1
  /\ \A i \in 1 .. Len(s) - 1 : t[i] = s[i + 1]

LEMMA AppendOther ==
  ASSUME NEW s, NEW t, NEW m, Grows(s, t, m), m.kind # "in", NEW lo \in Nat, NEW hi \in Nat, Between(s, lo, hi)
  PROVE  Between(t, lo, hi)
<1>1. \A i \in 1 .. Len(t) : t[i].kind = "in" => i \in 1 .. Len(s) /\ t[i] = s[i]
  BY DEF Grows
<1>2. \A i \in 1 .. Len(s) : i \in 1 .. Len(t) /\ t[i] = s[i]
  BY DEF Grows
<1> QED
  BY <1>1, <1>2 DEF Between

LEMMA AppendChunk ==
  ASSUME NEW s, NEW t, NEW m, Grows(s, t, m), m.kind = "in", NEW lo \in Nat, NEW hi \in Nat, Between(s, lo, hi),
         m.n = hi + 1
  PROVE  Between(t, lo, hi + 1)
<1>1. \A i \in 1 .. Len(t) : (i \in 1 .. Len(s) /\ t[i] = s[i]) \/ (i = Len(s) + 1 /\ t[i] = m)
  BY DEF Grows
<1>2. \A i \in 1 .. Len(s) : i \in 1 .. Len(t) /\ t[i] = s[i] /\ i < Len(s) + 1
  BY DEF Grows
<1>3. Len(s) + 1 \in 1 .. Len(t) /\ t[Len(s) + 1] = m
  BY DEF Grows
<1>4. \A i \in 1 .. Len(t) : t[i].kind = "in" => t[i].n \in lo + 1 .. hi + 1
  BY <1>1 DEF Between
<1>5. ASSUME NEW v \in lo + 1 .. hi + 1 PROVE \E i \in 1 .. Len(t) : t[i].kind = "in" /\ t[i].n = v
  <2>1. CASE v = hi + 1
    BY <1>3, <2>1
  <2>2. CASE v \in lo + 1 .. hi
    BY <1>2, <2>2 DEF Between
  <2> QED
    BY <2>1, <2>2
<1>6. ASSUME NEW i \in 1 .. Len(t), NEW j \in 1 .. Len(t), i < j, t[i].kind = "in", t[j].kind = "in"
      PROVE  t[i].n < t[j].n
  <2>1. i \in 1 .. Len(s) /\ t[i] = s[i]
    BY <1>1, <1>6 DEF Grows
  <2>2. CASE j \in 1 .. Len(s) /\ t[j] = s[j]
    BY <1>6, <2>1, <2>2 DEF Between
  <2>3. CASE t[j] = m
    BY <1>6, <2>1, <2>3 DEF Between
  <2> QED
    BY <1>1, <2>2, <2>3
<1>7. lo <= hi + 1
  BY DEF Between
<1> QED
  BY <1>4, <1>5, <1>6, <1>7 DEF Between

LEMMA TailOrder ==
  ASSUME NEW s, NEW t, Shrinks(s, t), NEW i \in 1 .. Len(t), NEW j \in 1 .. Len(t), i < j
  PROVE  /\ i + 1 \in 1 .. Len(s) /\ j + 1 \in 1 .. Len(s) /\ i + 1 < j + 1
         /\ t[i] = s[i + 1] /\ t[j] = s[j + 1]
BY DEF Shrinks

LEMMA TailOther ==
  ASSUME NEW s, NEW t, Shrinks(s, t), s[1].kind # "in", NEW lo \in Nat, NEW hi \in Nat, Between(s, lo, hi)
  PROVE  Between(t, lo, hi)
<1>1. \A i \in 1 .. Len(t) : i + 1 \in 1 .. Len(s) /\ t[i] = s[i + 1]
  BY DEF Shrinks
<1>2. \A i \in 1 .. Len(s) : i # 1 => i - 1 \in 1 .. Len(t) /\ t[i - 1] = s[i]
  BY DEF Shrinks
<1>3. ASSUME NEW v \in lo + 1 .. hi PROVE \E i \in 1 .. Len(t) : t[i].kind = "in" /\ t[i].n = v
  <2>1. PICK i \in 1 .. Len(s) : s[i].kind = "in" /\ s[i].n = v
    BY DEF Between
  <2> QED
    BY <1>2, <2>1
<1>4. \A i \in 1 .. Len(t) : t[i].kind = "in" => t[i].n \in lo + 1 .. hi
  BY <1>1 DEF Between
<1>5. ASSUME NEW i \in 1 .. Len(t), NEW j \in 1 .. Len(t), i < j, t[i].kind = "in", t[j].kind = "in"
      PROVE  t[i].n < t[j].n
  <2>1. i + 1 \in 1 .. Len(s) /\ j + 1 \in 1 .. Len(s) /\ t[i] = s[i + 1] /\ t[j] = s[j + 1] /\ i + 1 < j + 1
    BY <1>5, TailOrder
  <2> QED
    BY <1>5, <2>1 DEF Between
<1> QED
  BY <1>3, <1>4, <1>5 DEF Between

(* The first chunk in the socket is the one the tool needs next.            *)
LEMMA TailChunk ==
  ASSUME NEW s, NEW t, Shrinks(s, t), s[1].kind = "in", NEW lo \in Nat, NEW hi \in Nat, Between(s, lo, hi)
  PROVE  s[1].n = lo + 1 /\ Between(t, lo + 1, hi)
<1>1. \A i \in 1 .. Len(t) : i + 1 \in 1 .. Len(s) /\ t[i] = s[i + 1]
  BY DEF Shrinks
<1>2. \A i \in 1 .. Len(s) : i # 1 => i - 1 \in 1 .. Len(t) /\ t[i - 1] = s[i]
  BY DEF Shrinks
<1>3. 1 \in 1 .. Len(s) /\ s[1].n \in lo + 1 .. hi /\ lo + 1 \in lo + 1 .. hi
  BY DEF Shrinks, Between
<1>4. PICK k \in 1 .. Len(s) : s[k].kind = "in" /\ s[k].n = lo + 1
  BY <1>3 DEF Between
<1>5. k = 1
  <2> SUFFICES ASSUME k # 1 PROVE FALSE
    OBVIOUS
  <2>1. s[1].n < s[k].n
    BY <1>3, <1>4 DEF Between
  <2> QED
    BY <1>3, <1>4, <2>1
<1>6. ASSUME NEW i \in 1 .. Len(t), t[i].kind = "in" PROVE t[i].n \in lo + 2 .. hi
  <2>0. i + 1 \in 1 .. Len(s) /\ t[i] = s[i + 1] /\ 1 < i + 1
    BY <1>1
  <2>1. s[1].n < s[i + 1].n /\ s[i + 1].n \in lo + 1 .. hi
    BY <1>3, <1>6, <2>0 DEF Between
  <2> QED
    BY <1>1, <1>4, <1>5, <2>1
<1>7. ASSUME NEW v \in lo + 2 .. hi PROVE \E i \in 1 .. Len(t) : t[i].kind = "in" /\ t[i].n = v
  <2>1. PICK i \in 1 .. Len(s) : s[i].kind = "in" /\ s[i].n = v
    BY <1>7 DEF Between
  <2>2. i # 1
    BY <1>4, <1>5, <1>7, <2>1
  <2> QED
    BY <1>2, <2>1, <2>2
<1>8. ASSUME NEW i \in 1 .. Len(t), NEW j \in 1 .. Len(t), i < j, t[i].kind = "in", t[j].kind = "in"
      PROVE  t[i].n < t[j].n
  <2>1. i + 1 \in 1 .. Len(s) /\ j + 1 \in 1 .. Len(s) /\ t[i] = s[i + 1] /\ t[j] = s[j + 1] /\ i + 1 < j + 1
    BY <1>8, TailOrder
  <2> QED
    BY <1>8, <2>1 DEF Between
<1>9. lo + 1 <= hi /\ (lo + 1) + 1 = lo + 2
  BY <1>3
<1> QED
  BY <1>4, <1>5, <1>6, <1>7, <1>8, <1>9 DEF Between

LEMMA NoChunks ==
  ASSUME NEW s, NEW lo \in Nat, NEW hi \in Nat, Between(s, lo, hi), \A i \in 1 .. Len(s) : s[i].kind # "in"
  PROVE  lo = hi
<1>1. lo < hi => hi \in lo + 1 .. hi
  OBVIOUS
<1> QED
  BY <1>1 DEF Between

(* The counts of both ends.                                                 *)
LEMMA Ends ==
  ASSUME IInv
  PROVE  /\ Relayed \in Nat /\ Taken \in Nat /\ rd \in Nat /\ Len(stdinCh) \in Nat /\ Len(toolIn) \in Nat
         /\ Len(up) \in Nat
         /\ out.kind = "in" => out.n = Relayed + 1
         /\ out.kind # "in" => Relayed = rd - Len(stdinCh)
<1>1. rd \in Nat /\ Len(stdinCh) \in Nat /\ Len(toolIn) \in Nat /\ Len(up) \in Nat /\ Len(stdinCh) <= rd
      /\ (out.kind = "in" => out.n = rd - Len(stdinCh) /\ out.n >= 1)
  BY LenProperties DEF IInv, TypeOK, WrapperTypes, SocketTypes, DaemonTypes, ReaderOK
<1>2. Relayed \in Nat /\ (out.kind = "in" => out.n = Relayed + 1) /\ (out.kind # "in" => Relayed = rd - Len(stdinCh))
  BY <1>1 DEF Relayed
<1>3. Taken \in Nat
  BY <1>1 DEF Taken
<1> QED
  BY <1>1, <1>2, <1>3

(* The request and its newline hold no chunk.                               *)
LEMMA HeaderKinds ==
  ASSUME Len(up) \in Nat, Kinds(up) \in {<<"req">>, <<"req", "nl">>}
  PROVE  \A i \in 1 .. Len(up) : up[i].kind \in {"req", "nl"}
<1> SUFFICES ASSUME NEW i \in 1 .. Len(up) PROVE up[i].kind \in {"req", "nl"}
  OBVIOUS
<1>1. Kinds(up)[i] = up[i].kind /\ i \in DOMAIN Kinds(up)
  BY DEF Kinds
<1>2. CASE Kinds(up) = <<"req">>
  <2>1. i \in DOMAIN <<"req">>
    BY <1>1, <1>2
  <2>2. <<"req">>[i] = "req"
    BY <2>1
  <2> QED
    BY <1>1, <1>2, <2>2
<1>3. CASE Kinds(up) = <<"req", "nl">>
  <2>1. i \in DOMAIN <<"req", "nl">>
    BY <1>1, <1>3
  <2>2. <<"req", "nl">>[i] \in {"req", "nl"}
    BY <2>1
  <2> QED
    BY <1>1, <1>3, <2>2
<1> QED
  BY <1>2, <1>3

LEMMA ChainKeep == ASSUME IInv, [Next]_vars PROVE ChainOK'
<1>0. /\ ChainOK /\ Relayed \in Nat /\ Taken \in Nat /\ rd \in Nat
      /\ Len(stdinCh) \in Nat /\ Len(toolIn) \in Nat /\ Len(up) \in Nat
  BY Ends DEF IInv
<1>1. ASSUME UNCHANGED <<up, pumper, held, toolIn>>, Relayed' = Relayed, Live' => Live PROVE ChainOK'
  <2>1. Taken' = Taken
    BY <1>1 DEF Taken
  <2> QED
    BY <1>0, <1>1, <2>1 DEF ChainOK
<1>2. ASSUME NEW m \in Upward, m.kind # "in", up' = Append(up, m), UNCHANGED <<pumper, held, toolIn>>,
             Relayed' = Relayed, Live' => Live
      PROVE  ChainOK'
  <2>1. Taken' = Taken
    BY <1>2 DEF Taken
  <2>2. Grows(up, up', m)
    BY <1>2, UpGrows DEF Grows
  <2>3. Between(up, Taken, Relayed) => Between(up', Taken, Relayed)
    BY <1>0, <1>2, <2>2, AppendOther
  <2> QED
    BY <1>0, <1>2, <2>1, <2>3 DEF ChainOK
<1>3. CASE ~ Live'
  BY <1>3 DEF ChainOK
<1>4. CASE SendRequest \/ EnterLoop
  <2>1. UNCHANGED <<rd, stdinCh, d, pumper, held, toolIn, stdinOpen, tool>> /\ wpc # "write"
    BY <1>4 DEF SendRequest, EnterLoop
  <2>2. Live' <=> Live
    BY <2>1 DEF Live
  <2>3. out.kind = "none"
    BY <2>1 DEF IInv, ControlOK
  <2>4. out'.kind # "in"
    <3>1. Msg("size", SizeNow).kind = "size"
      BY DEF Msg
    <3>2. out' = out \/ out' = Msg("size", SizeNow)
      BY <1>4 DEF SendRequest, EnterLoop
    <3> QED
      BY <2>3, <3>1, <3>2
  <2>5. Relayed' = Relayed
    BY <2>1, <2>3, <2>4 DEF Relayed
  <2>6. CASE up' = up
    BY <1>1, <2>1, <2>2, <2>5, <2>6
  <2>7. CASE up' # up
    <3>1. PICK m \in Upward : m.kind # "in" /\ up' = Append(up, m)
      <4>1. Msg("req", IF tty THEN size ELSE 0) \in Upward /\ Msg("nl", 0) \in Upward
            /\ Msg("req", IF tty THEN size ELSE 0).kind = "req" /\ Msg("nl", 0).kind = "nl"
        BY Messages DEF IInv, TypeOK, WrapperTypes
      <4> QED
        BY <1>4, <2>7, <4>1 DEF SendRequest, EnterLoop
    <3> QED
      BY <1>2, <2>1, <2>2, <2>5, <3>1
  <2> QED
    BY <2>6, <2>7
<1>5. CASE RelayStdin
  <2>1. /\ stdinCh # <<>> /\ stdinCh' = Tail(stdinCh) /\ out' = Msg("in", Head(stdinCh)) /\ wpc = "loop"
        /\ UNCHANGED <<rd, up, d, pumper, held, toolIn, stdinOpen, tool>>
    BY <1>5 DEF RelayStdin
  <2>2. Len(stdinCh') = Len(stdinCh) - 1
    BY <2>1, HeadTailProperties DEF IInv, TypeOK, WrapperTypes
  <2>3. out.kind = "none" /\ out'.kind = "in"
    BY <2>1 DEF IInv, ControlOK, Msg
  <2>4. rd' = rd /\ UNCHANGED <<up, d, pumper, held, toolIn, stdinOpen, tool>>
    BY <2>1
  <2>5. Relayed' = Relayed
    BY <1>0, <2>2, <2>3, <2>4 DEF Relayed
  <2>6. Live' <=> Live
    BY <2>4 DEF Live
  <2> QED
    BY <1>1, <2>4, <2>5, <2>6
<1>6. CASE RelayEOF \/ RelaySignal \/ RelayWinSize
  <2>1. /\ wpc = "loop" /\ UNCHANGED <<rd, stdinCh, up, d, pumper, held, toolIn, stdinOpen, tool>>
        /\ \E k \in {"eof", "sig", "size"} : \E n : out' = Msg(k, n)
    BY <1>6 DEF RelayEOF, RelaySignal, RelayWinSize
  <2>2. out.kind = "none" /\ out'.kind \in {"eof", "sig", "size"}
    BY <2>1 DEF IInv, ControlOK, Msg
  <2>3. Relayed' = Relayed /\ (Live' <=> Live)
    BY <2>1, <2>2 DEF Relayed, Live
  <2> QED
    BY <1>1, <2>1, <2>3
<1>7. CASE WriteCompletes
  <2>1. out'.kind = "none" /\ UNCHANGED <<rd, stdinCh, d, pumper, held, toolIn, stdinOpen, tool>>
    BY <1>7, NothingIsNone DEF WriteCompletes
  <2>2. (Live' <=> Live) /\ Taken' = Taken
    BY <2>1 DEF Live, Taken
  <2>3. CASE up' = up
    <3>1. ~ DaemonOpen
      <4> SUFFICES ASSUME up' = Append(up, out) PROVE FALSE
        BY <1>7 DEF WriteCompletes
      <4>1. out \in Upward \union {Nothing} /\ out.kind # "none"
        BY <1>7 DEF IInv, TypeOK, SocketTypes, ControlOK, WriteCompletes
      <4>2. out \in Upward
        BY <4>1, NothingIsNone
      <4>3. Len(up') = Len(up) + 1
        BY <4>2, UpGrows
      <4> QED
        BY <1>0, <2>3, <4>3
    <3> QED
      BY <1>3, <2>1, <3>1 DEF Live, DaemonOpen
  <2>4. CASE up' # up
    <3>1. out \in Upward /\ up' = Append(up, out)
      BY <1>7, <2>4, WriteGrows
    <3>2. CASE out.kind # "in"
      <4>1. Relayed' = Relayed
        BY <2>1, <3>2 DEF Relayed
      <4> QED
        BY <1>2, <2>1, <2>2, <3>1, <3>2, <4>1
    <3>3. CASE out.kind = "in"
      <4>1. Relayed' = Relayed + 1 /\ out.n = Relayed + 1
        BY <1>0, <2>1, <3>3, Ends DEF Relayed
      <4>2. Grows(up, up', out)
        BY <3>1, UpGrows DEF Grows
      <4>3. Between(up, Taken, Relayed) => Between(up', Taken, Relayed + 1)
        BY <1>0, <3>3, <4>1, <4>2, AppendChunk
      <4> QED
        BY <1>0, <2>1, <2>2, <4>1, <4>3 DEF ChainOK
    <3> QED
      BY <3>2, <3>3
  <2> QED
    BY <2>3, <2>4
<1>8. CASE ReadStdin
  <2>1. /\ rd' = rd + 1 /\ stdinCh' = Append(stdinCh, rd + 1)
        /\ UNCHANGED <<out, up, d, pumper, held, toolIn, stdinOpen, tool>>
    BY <1>8 DEF ReadStdin, Push
  <2>2. Len(stdinCh') = Len(stdinCh) + 1
    BY <1>0, <2>1, AppendProperties DEF IInv, TypeOK, WrapperTypes
  <2>3. Relayed' = Relayed /\ (Live' <=> Live)
    BY <1>0, <2>1, <2>2 DEF Relayed, Live
  <2> QED
    BY <1>1, <2>1, <2>3
<1>9. CASE ReadHeader
  <2>1. CASE d' = "closed"
    BY <1>3, <2>1 DEF Live
  <2>2. CASE d' # "closed"
    <3>1. /\ d = "header" /\ up' = <<>> /\ pumper' = "read" /\ tool' = "ready"
          /\ Kinds(up) \in {<<"req">>, <<"req", "nl">>}
          /\ UNCHANGED <<rd, stdinCh, out, held, toolIn, stdinOpen>>
      BY <1>9, <2>2 DEF ReadHeader, Refuse
    <3>2. pumper = "off"
      BY <3>1 DEF IInv, ControlOK
    <3>3. Relayed' = Relayed /\ Taken' = Taken
      BY <3>1, <3>2 DEF Relayed, Taken
    <3>4. ASSUME Live' PROVE Between(up', Taken', Relayed')
      <4>1. Live
        BY <3>1, <3>2 DEF Live, IInv, ControlOK
      <4>2. \A i \in 1 .. Len(up) : up[i].kind # "in"
        BY <1>0, <3>1, HeaderKinds
      <4>3. Taken = Relayed
        BY <1>0, <4>1, <4>2, NoChunks DEF ChainOK
      <4>4. Len(up') = 0
        BY <3>1
      <4> QED
        BY <1>0, <3>3, <4>3, <4>4 DEF Between
    <3> QED
      BY <3>1, <3>4 DEF ChainOK
  <2> QED
    BY <2>1, <2>2
<1>10. CASE PumperReads
  <2>1. pumper = "read" /\ up # <<>> /\ up' = Tail(up) /\ UNCHANGED <<rd, stdinCh, out, d, toolIn, tool>>
    BY <1>10 DEF PumperReads
  <2>2. Shrinks(up, up') /\ Head(up) = up[1]
    BY <2>1, UpShrinks DEF Shrinks
  <2>3. Relayed' = Relayed /\ Taken = Len(toolIn)
    BY <2>1 DEF Relayed, Taken
  <2>4. \/ pumper' = "done" \/ ~ stdinOpen'
        \/ up[1].kind = "in" /\ stdinOpen /\ pumper' = "write" /\ held' = up[1].n
        \/ up[1].kind = "in" /\ ~ stdinOpen /\ stdinOpen' = stdinOpen
        \/ up[1].kind # "in" /\ UNCHANGED <<pumper, held, stdinOpen>>
    <3>1. up[1] = Head(up)
      BY <2>2
    <3> QED
      BY <1>10, <3>1 DEF PumperReads, HangUp
  <2>5. CASE up[1].kind = "in" /\ stdinOpen /\ pumper' = "write" /\ held' = up[1].n
    <3>1. Taken' = Taken + 1
      BY <1>0, <2>1, <2>3, <2>5 DEF Taken
    <3>2. Live' => Live
      BY <2>1, <2>5 DEF Live
    <3>3. Between(up, Taken, Relayed) => up[1].n = Taken + 1 /\ Between(up', Taken + 1, Relayed)
      BY <1>0, <2>2, <2>5, TailChunk
    <3> QED
      BY <1>0, <2>1, <2>3, <2>5, <3>1, <3>2, <3>3 DEF ChainOK
  <2>6. CASE up[1].kind # "in" /\ UNCHANGED <<pumper, held, stdinOpen>>
    <3>1. Taken' = Taken /\ (Live' <=> Live)
      BY <2>1, <2>6 DEF Taken, Live
    <3>2. Between(up, Taken, Relayed) => Between(up', Taken, Relayed)
      BY <1>0, <2>2, <2>6, TailOther
    <3> QED
      BY <1>0, <2>1, <2>3, <2>6, <3>1, <3>2 DEF ChainOK
  <2>7. CASE pumper' = "done" \/ ~ stdinOpen'
    BY <1>3, <2>7 DEF Live
  <2>8. CASE ~ stdinOpen /\ stdinOpen' = stdinOpen
    BY <1>3, <2>8 DEF Live
  <2> QED
    BY <2>4, <2>5, <2>6, <2>7, <2>8
<1>11. CASE PumperWrites
  <2>1. pumper = "write" /\ pumper' = "read" /\ UNCHANGED <<rd, stdinCh, out, up, d, stdinOpen, tool>>
    BY <1>11 DEF PumperWrites
  <2>2. CASE tool = "exited"
    BY <1>3, <2>1, <2>2 DEF Live
  <2>3. CASE tool # "exited"
    <3>1. toolIn' = Append(toolIn, held) /\ toolIn \in Seq(Nat) /\ held \in Nat
      BY <1>11, <2>3 DEF PumperWrites, IInv, TypeOK, DaemonTypes
    <3>2. Len(toolIn') = Len(toolIn) + 1
      BY <3>1, AppendProperties
    <3>3. Taken' = Taken /\ Relayed' = Relayed /\ (Live' => Live)
      BY <1>0, <2>1, <3>2 DEF Taken, Relayed, Live
    <3> QED
      BY <1>0, <2>1, <3>3 DEF ChainOK
  <2> QED
    BY <2>2, <2>3
<1>12. CASE ToolReads \/ ToolWrites \/ ToolExits
  <2>1. tool # "exited" /\ UNCHANGED <<rd, stdinCh, out, up, d, pumper, held, toolIn, stdinOpen>>
    BY <1>12 DEF ToolReads, ToolWrites, ToolExits
  <2>2. Relayed' = Relayed /\ (Live' => Live)
    BY <2>1 DEF Relayed, Live
  <2> QED
    BY <1>1, <2>1, <2>2
<1>13. CASE HeaderTimeout \/ PumperStops \/ Finish \/ CloseConn \/ DaemonDies
  <2>1. d' = "closed" \/ pumper' = "done" \/ tool' = "exited"
    BY <1>13 DEF HeaderTimeout, Refuse, PumperStops, HangUp, Finish, CloseConn, DaemonDies, StopPumper
  <2> QED
    BY <1>3, <2>1 DEF Live
<1>14. CASE UNCHANGED <<rd, stdinCh, out, up, d, pumper, held, toolIn, stdinOpen, tool>>
  <2>1. Relayed' = Relayed /\ (Live' <=> Live)
    BY <1>14 DEF Relayed, Live
  <2> QED
    BY <1>1, <1>14, <2>1
<1>15. CASE StdinEnds \/ Interrupt \/ Resize \/ Decode \/ HandleResponse \/ OutputStep \/ Over \/ UNCHANGED vars
  BY <1>14, <1>15 DEF StdinEnds, Interrupt, Resize, Decode, HandleResponse, OutputStep, OutputReads, OutputSends,
     OutputFails, Over
<1> QED
  BY <1>4, <1>5, <1>6, <1>7, <1>8, <1>9, <1>10, <1>11, <1>12, <1>13, <1>15
     DEF Next, WrapperStep, HeaderStep, PumperStep
-----------------------------------------------------------------------------
(* The end of the input.                                                    *)
LEMMA EndsGrow ==
  ASSUME NEW s, NEW t, NEW m, Grows(s, t, m), EndsLast(s),
         m.kind # "in" \/ \A i \in 1 .. Len(s) : s[i].kind # "eof"
  PROVE  EndsLast(t)
<1> SUFFICES ASSUME NEW i \in 1 .. Len(t), NEW j \in 1 .. Len(t), i < j, t[i].kind = "eof", t[j].kind = "in"
             PROVE  FALSE
  BY DEF EndsLast
<1>1. i \in 1 .. Len(s) /\ t[i] = s[i] /\ ((j \in 1 .. Len(s) /\ t[j] = s[j]) \/ t[j] = m)
  BY DEF Grows
<1> QED
  BY <1>1 DEF EndsLast

LEMMA EndsShrink == ASSUME NEW s, NEW t, Shrinks(s, t), EndsLast(s) PROVE EndsLast(t)
<1> SUFFICES ASSUME NEW i \in 1 .. Len(t), NEW j \in 1 .. Len(t), i < j, t[i].kind = "eof", t[j].kind = "in"
             PROVE  FALSE
  BY DEF EndsLast
<1>1. i + 1 \in 1 .. Len(s) /\ j + 1 \in 1 .. Len(s) /\ i + 1 < j + 1 /\ t[i] = s[i + 1] /\ t[j] = s[j + 1]
  BY TailOrder
<1> QED
  BY <1>1 DEF EndsLast

LEMMA EndKeep == ASSUME IInv, [Next]_vars PROVE EndOK'
<1>0. EndOK /\ Len(up) \in Nat
  BY Ends DEF IInv
<1>1. eof # "sent" => \A i \in 1 .. Len(up) : up[i].kind # "eof"
  BY DEF IInv, ReaderOK
<1>2. CASE SendRequest \/ EnterLoop
  <2>1. overtook' = overtook
    BY <1>2 DEF SendRequest, EnterLoop
  <2>2. CASE up' = up
    BY <1>0, <2>1, <2>2 DEF EndOK
  <2>3. CASE up' # up
    <3>1. PICK m \in Upward : m.kind # "in" /\ up' = Append(up, m)
      <4>1. Msg("req", IF tty THEN size ELSE 0) \in Upward /\ Msg("nl", 0) \in Upward
            /\ Msg("req", IF tty THEN size ELSE 0).kind = "req" /\ Msg("nl", 0).kind = "nl"
        BY Messages DEF IInv, TypeOK, WrapperTypes
      <4> QED
        BY <1>2, <2>3, <4>1 DEF SendRequest, EnterLoop
    <3>2. Grows(up, up', m)
      BY <3>1, UpGrows DEF Grows
    <3>3. EndsLast(up) => EndsLast(up')
      BY <3>1, <3>2, EndsGrow
    <3> QED
      BY <1>0, <2>1, <3>3 DEF EndOK
  <2> QED
    BY <2>2, <2>3
<1>3. CASE RelayEOF
  <2>1. eof = "closed" /\ up' = up
    BY <1>3 DEF RelayEOF
  <2>2. EndsLast(up)
    BY <1>1, <2>1 DEF EndsLast
  <2> QED
    BY <2>1, <2>2 DEF EndOK
<1>4. CASE WriteCompletes
  <2>1. overtook' = overtook
    BY <1>4 DEF WriteCompletes
  <2>2. CASE up' = up
    BY <1>0, <2>1, <2>2 DEF EndOK
  <2>3. CASE up' # up /\ ~ overtook
    <3>1. out \in Upward /\ up' = Append(up, out)
      BY <1>4, <2>3, WriteGrows
    <3>2. Grows(up, up', out)
      BY <3>1, UpGrows DEF Grows
    <3>3. out.kind # "in" \/ \A i \in 1 .. Len(up) : up[i].kind # "eof"
      BY <1>1, <2>3 DEF IInv, ReaderOK
    <3>4. EndsLast(up)
      BY <1>0, <2>3 DEF EndOK
    <3>5. EndsLast(up')
      BY <3>2, <3>3, <3>4, EndsGrow
    <3> QED
      BY <3>5 DEF EndOK
  <2> QED
    BY <2>1, <2>2, <2>3 DEF EndOK
<1>5. CASE ReadHeader
  <2>1. up' = <<>>
    BY <1>5 DEF ReadHeader
  <2>2. EndsLast(up')
    BY <2>1 DEF EndsLast
  <2> QED
    BY <2>2 DEF EndOK
<1>6. CASE PumperReads
  <2>1. up # <<>> /\ up' = Tail(up) /\ overtook' = overtook
    BY <1>6 DEF PumperReads
  <2>2. Shrinks(up, up')
    BY <2>1, UpShrinks DEF Shrinks
  <2>3. EndsLast(up) => EndsLast(up')
    BY <2>2, EndsShrink
  <2> QED
    BY <1>0, <2>1, <2>3 DEF EndOK
<1>7. CASE UNCHANGED <<up, overtook>>
  BY <1>0, <1>7 DEF EndOK
<1>8. CASE RelayStdin \/ RelaySignal \/ RelayWinSize \/ HandleResponse \/ ReadStdin \/ StdinEnds \/ Interrupt
           \/ Resize \/ Decode \/ HeaderTimeout \/ PumperStops \/ PumperWrites \/ Over \/ UNCHANGED vars
  BY <1>7, <1>8 DEF RelayStdin, RelaySignal, RelayWinSize, HandleResponse, ReadStdin, StdinEnds, Interrupt, Resize,
     Decode, HeaderTimeout, PumperStops, PumperWrites, Over
<1>9. CASE ToolReads \/ ToolWrites \/ ToolExits \/ OutputStep \/ Finish \/ CloseConn \/ DaemonDies
  BY <1>7, <1>9 DEF ToolReads, ToolWrites, ToolExits, OutputStep, OutputReads, OutputSends, OutputFails, Finish,
     CloseConn, DaemonDies
<1> QED
  BY <1>2, <1>3, <1>4, <1>5, <1>6, <1>8, <1>9 DEF Next, WrapperStep, HeaderStep, PumperStep

(* What the tool was given.                                                 *)
LEMMA StdinKeep == ASSUME IInv, [Next]_vars PROVE StdinFaithful'
<1>0. /\ StdinFaithful /\ toolIn \in Seq(Nat) /\ held \in Nat /\ rd \in 0 .. Chunks
      /\ Relayed \in Nat /\ Taken \in Nat /\ Len(toolIn) \in Nat /\ Len(up) \in Nat /\ Len(stdinCh) \in Nat
  BY Ends DEF IInv, TypeOK, DaemonTypes, WrapperTypes
<1>1. CASE PumperWrites /\ tool # "exited"
  <2>1. /\ pumper = "write" /\ toolIn' = Append(toolIn, held) /\ UNCHANGED <<stdinOpen, tool>>
    BY <1>1 DEF PumperWrites
  <2>2. Live /\ stdinOpen
    BY <1>1, <2>1 DEF Live, IInv, ControlOK
  <2>3. held = Len(toolIn) + 1
    BY <1>0, <2>1, <2>2 DEF IInv, ChainOK
  <2>4. Len(toolIn') = Len(toolIn) + 1 /\ toolIn'[Len(toolIn) + 1] = held
        /\ \A i \in 1 .. Len(toolIn) : toolIn'[i] = toolIn[i]
    BY <1>0, <2>1, AppendProperties
  <2>5. ASSUME NEW i \in 1 .. Len(toolIn') PROVE toolIn'[i] = i
    <3>1. i \in 1 .. Len(toolIn) \/ i = Len(toolIn) + 1
      BY <1>0, <2>4
    <3> QED
      BY <1>0, <2>3, <2>4, <3>1 DEF StdinFaithful
  <2>6. stdinOpen'
    BY <2>1, <2>2
  <2> QED
    BY <2>5, <2>6 DEF StdinFaithful
<1>2. CASE PumperReads
  <2>1. up # <<>> /\ up' = Tail(up) /\ pumper = "read" /\ UNCHANGED <<toolIn, overtook, tool, wpc>>
    BY <1>2 DEF PumperReads
  <2>2. Shrinks(up, up') /\ Head(up) = up[1]
    BY <2>1, UpShrinks DEF Shrinks
  <2>3. deaf' \/ UNCHANGED <<stdinOpen, deaf>> \/ (up[1].kind = "eof" /\ UNCHANGED deaf)
    BY <1>2, <2>2 DEF PumperReads
  <2>4. ASSUME up[1].kind = "eof", ~ overtook, tool # "exited", stdinOpen PROVE Len(toolIn) = Chunks
    <3>0. 1 \in 1 .. Len(up)
      BY <2>2 DEF Shrinks
    <3>1. Live
      BY <2>1, <2>4 DEF Live, IInv, ControlOK
    <3>2. eof = "sent"
      BY <2>4, <3>0 DEF IInv, ReaderOK
    <3>3. rd = Chunks /\ stdinCh = <<>> /\ out.kind # "in"
      BY <2>4, <3>2 DEF IInv, ReaderOK
    <3>4. Relayed = Chunks
      BY <1>0, <3>3 DEF Relayed
    <3>5. \A j \in 1 .. Len(up) : up[j].kind # "in"
      <4> SUFFICES ASSUME NEW j \in 1 .. Len(up) PROVE up[j].kind # "in"
        OBVIOUS
      <4>1. CASE j = 1
        BY <2>4, <4>1
      <4>2. CASE j # 1
        BY <2>4, <3>0, <4>2 DEF IInv, EndOK, EndsLast
      <4> QED
        BY <4>1, <4>2
    <3>6. Taken = Relayed
      BY <1>0, <3>1, <3>5, NoChunks DEF IInv, ChainOK
    <3> QED
      BY <1>0, <2>1, <3>4, <3>6 DEF Taken
  <2>5. ~ stdinOpen' => Len(toolIn) = Chunks \/ tool = "exited" \/ wpc = "exit" \/ overtook \/ deaf'
    <3>1. CASE UNCHANGED <<stdinOpen, deaf>>
      BY <1>0, <3>1 DEF StdinFaithful
    <3>2. CASE up[1].kind = "eof" /\ UNCHANGED deaf /\ stdinOpen
      BY <2>4, <3>2
    <3>3. CASE up[1].kind = "eof" /\ UNCHANGED deaf /\ ~ stdinOpen
      BY <1>0, <3>3 DEF StdinFaithful
    <3> QED
      BY <2>3, <3>1, <3>2, <3>3
  <2> QED
    BY <1>0, <2>1, <2>5 DEF StdinFaithful
<1>3. CASE RelayEOF
  <2>1. eof = "closed" /\ UNCHANGED <<toolIn, stdinOpen, deaf, tool>> /\ wpc # "exit"
    BY <1>3 DEF RelayEOF
  <2>2. ~ overtook
    BY <2>1 DEF IInv, ReaderOK
  <2> QED
    BY <1>0, <2>1, <2>2 DEF StdinFaithful
<1>4. CASE PumperStops
  <2>1. UNCHANGED <<toolIn, wpc>> /\ (deaf' \/ wpc = "exit")
    BY <1>4, Zenon DEF PumperStops, WrapperOpen, wrapVars, toolVars
  <2> QED
    BY <1>0, <2>1 DEF StdinFaithful
<1>5. CASE CloseConn \/ DaemonDies
  <2>1. toolIn' = toolIn /\ tool' = "exited"
    BY <1>5 DEF CloseConn, DaemonDies, IInv, ControlOK
  <2> QED
    BY <1>0, <2>1 DEF StdinFaithful
<1>6. CASE /\ UNCHANGED <<toolIn, stdinOpen, deaf, overtook>>
           /\ (tool = "exited" => tool' = "exited") /\ (wpc = "exit" => wpc' = "exit")
  BY <1>0, <1>6 DEF StdinFaithful
<1>7. CASE PumperWrites /\ tool = "exited"
  BY <1>6, <1>7 DEF PumperWrites
<1>8. CASE WrapperStep /\ ~ RelayEOF
  BY <1>6, <1>8 DEF WrapperStep, SendRequest, EnterLoop, RelayStdin, RelaySignal, RelayWinSize, WriteCompletes,
     HandleResponse, Exit, Loop
<1>9. CASE ReadStdin \/ StdinEnds \/ Interrupt \/ Resize \/ Decode \/ HeaderTimeout \/ Over \/ UNCHANGED vars
  BY <1>6, <1>9 DEF ReadStdin, StdinEnds, Interrupt, Resize, Decode, HeaderTimeout, Over
<1>10. CASE ReadHeader
  <2>1. tool = "off"
    BY <1>10 DEF ReadHeader, IInv, ControlOK
  <2> QED
    BY <1>6, <1>10, <2>1 DEF ReadHeader
<1>11. CASE ToolReads \/ ToolWrites \/ ToolExits \/ OutputStep \/ Finish
  BY <1>6, <1>11 DEF ToolReads, ToolWrites, ToolExits, OutputStep, OutputReads, OutputSends, OutputFails, Finish
<1> QED
  BY <1>1, <1>2, <1>3, <1>4, <1>5, <1>7, <1>8, <1>9, <1>10, <1>11 DEF Next, WrapperStep, HeaderStep, PumperStep
-----------------------------------------------------------------------------
(* The output messages that no done precedes, counted.                      *)
HasDone(s) == \E i \in 1 .. Len(s) : s[i] = "done"

LEMMA AheadFinite ==
  ASSUME NEW s, Len(s) \in Nat
  PROVE  IsFiniteSet(Ahead(s)) /\ Cardinality(Ahead(s)) \in Nat
<1>1. IsFiniteSet(1 .. Len(s))
  BY FS_Interval
<1>2. Ahead(s) \in SUBSET (1 .. Len(s))
  BY DEF Ahead
<1>3. IsFiniteSet(Ahead(s))
  BY <1>1, <1>2, FS_Subset
<1> QED
  BY <1>3, FS_CardinalityType

LEMMA AheadGrow ==
  ASSUME NEW s, NEW t, Grows(s, t, "out"), ~ HasDone(s)
  PROVE  Cardinality(Ahead(t)) = Cardinality(Ahead(s)) + 1
<1>1. \A j \in 1 .. Len(t) : t[j] # "done"
  BY DEF HasDone, Grows
<1>2. Len(s) \in Nat /\ Ahead(t) = Ahead(s) \union {Len(s) + 1} /\ Len(s) + 1 \notin Ahead(s)
  BY <1>1 DEF Ahead, HasDone, Grows
<1>3. IsFiniteSet(Ahead(s))
  BY <1>2, AheadFinite
<1> QED
  BY <1>2, <1>3, FS_AddElement

LEMMA AheadSame ==
  ASSUME NEW s, NEW t, NEW m, Grows(s, t, m), m # "out" \/ HasDone(s)
  PROVE  Ahead(t) = Ahead(s)
<1>1. Len(s) \in Nat /\ Len(t) = Len(s) + 1 /\ t[Len(t)] = m /\ \A i \in 1 .. Len(s) : t[i] = s[i]
  BY DEF Grows
<1>2. Len(t) \notin Ahead(t)
  <2>1. CASE m # "out"
    BY <1>1, <2>1 DEF Ahead
  <2>2. CASE HasDone(s)
    BY <1>1, <2>2 DEF Ahead, HasDone
  <2> QED
    BY <2>1, <2>2
<1>3. \A i \in 1 .. Len(s) : i \in Ahead(t) <=> i \in Ahead(s)
  <2> SUFFICES ASSUME NEW i \in 1 .. Len(s) PROVE i \in Ahead(t) <=> i \in Ahead(s)
    OBVIOUS
  <2>1. \A j \in 1 .. i : t[j] = s[j]
    BY <1>1
  <2> QED
    BY <1>1, <2>1 DEF Ahead
<1>4. Ahead(s) \subseteq 1 .. Len(s) /\ Ahead(t) \subseteq 1 .. Len(t)
  BY DEF Ahead
<1>5. 1 .. Len(t) = (1 .. Len(s)) \union {Len(t)}
  BY <1>1
<1>6. \A i : i \in Ahead(t) <=> i \in Ahead(s)
  BY <1>2, <1>3, <1>4, <1>5
<1>7. Ahead(t) \subseteq Ahead(s) /\ Ahead(s) \subseteq Ahead(t)
  BY <1>6
<1> QED
  BY <1>7

LEMMA AheadShrink ==
  ASSUME NEW s, NEW t, Shrinks(s, t)
  PROVE  /\ s[1] = "done" => Ahead(s) = {}
         /\ s[1] # "done" => Cardinality(Ahead(s)) = Cardinality(Ahead(t)) + (IF s[1] = "out" THEN 1 ELSE 0)
<1> DEFINE Rest == Ahead(s) \ {1}
<1>1. Len(s) \in Nat /\ IsFiniteSet(Ahead(s)) /\ Cardinality(Ahead(s)) \in Nat
  BY AheadFinite DEF Shrinks
<1>2. IsFiniteSet(Rest) /\ Cardinality(Rest) = IF 1 \in Ahead(s) THEN Cardinality(Ahead(s)) - 1 ELSE Cardinality(Ahead(s))
  BY <1>1, FS_RemoveElement
<1>3. 1 \in Ahead(s) <=> s[1] = "out"
  BY DEF Ahead, Shrinks
<1>4. ASSUME s[1] = "done" PROVE Ahead(s) = {}
  BY <1>4 DEF Ahead, Shrinks
<1>5. ASSUME s[1] # "done"
      PROVE  Cardinality(Ahead(s)) = Cardinality(Ahead(t)) + (IF s[1] = "out" THEN 1 ELSE 0)
  <2>1. ASSUME NEW i \in Rest PROVE i \in Nat /\ i - 1 \in Ahead(t)
    <3>1. i \in 2 .. Len(s) /\ i - 1 \in 1 .. Len(t) /\ t[i - 1] = "out"
      BY DEF Ahead, Shrinks
    <3>2. ASSUME NEW j \in 1 .. i - 1 PROVE t[j] # "done"
      <4>1. j + 1 \in 1 .. i /\ t[j] = s[j + 1]
        BY <3>1 DEF Shrinks
      <4> QED
        BY <4>1 DEF Ahead
    <3> QED
      BY <3>1, <3>2 DEF Ahead
  <2>2. ASSUME NEW i \in Ahead(t) PROVE i \in Nat /\ i + 1 \in Rest /\ (i + 1) - 1 = i
    <3>1. i \in 1 .. Len(t) /\ i + 1 \in 2 .. Len(s) /\ s[i + 1] = "out"
      BY DEF Ahead, Shrinks
    <3>2. ASSUME NEW j \in 1 .. i + 1 PROVE s[j] # "done"
      <4>1. j = 1 \/ (j - 1 \in 1 .. i /\ s[j] = t[j - 1])
        BY <3>1 DEF Shrinks
      <4> QED
        BY <1>5, <4>1 DEF Ahead
    <3> QED
      BY <3>1, <3>2 DEF Ahead
  <2> DEFINE f == [i \in Rest |-> i - 1]
  <2> HIDE DEF Rest
  <2>3. f \in Bijection(Rest, Ahead(t))
    <3>1. f \in [Rest -> Ahead(t)]
      BY <2>1
    <3>2. \A i, j \in Rest : f[i] = f[j] => i = j
      BY <2>1
    <3>3. \A i \in Ahead(t) : \E j \in Rest : f[j] = i
      BY <2>2
    <3> QED
      BY <3>1, <3>2, <3>3, Fun_IsBij
  <2>4. ExistsBijection(Rest, Ahead(t))
    BY <2>3, Fun_ExistsBij
  <2>5. Cardinality(Ahead(t)) = Cardinality(Rest)
    BY <1>2, <2>4, FS_Bijection
  <2> QED
    BY <1>1, <1>2, <1>3, <2>5
<1> QED
  BY <1>4, <1>5

(* The socket towards the wrapper.                                          *)
LEMMA DownGrows ==
  ASSUME IInv, NEW m \in Downward
  PROVE  Grows(down, Append(down, m), m)
<1>1. down \in Seq(Downward)
  BY DEF IInv, TypeOK, SocketTypes
<1> QED
  BY <1>1, AppendProperties, LenProperties DEF Grows

LEMMA DownShrinks ==
  ASSUME IInv, down # <<>>
  PROVE  Shrinks(down, Tail(down)) /\ Head(down) = down[1]
<1>1. down \in Seq(Downward)
  BY DEF IInv, TypeOK, SocketTypes
<1>2. Len(down) \in Nat \ {0} /\ Len(Tail(down)) = Len(down) - 1 /\ Head(down) = down[1]
  BY <1>1, EmptySeq, HeadTailProperties
<1>3. \A i \in 1 .. Len(Tail(down)) : Tail(down)[i] = down[i + 1]
  BY <1>1, HeadTailProperties
<1> QED
  BY <1>2, <1>3 DEF Shrinks

(* What is not output does not change the count, nor does output after      *)
(* done.                                                                    *)
LEMMA OtherKeeps ==
  ASSUME IInv, NEW m \in Downward, m # "out" \/ HasDone(down)
  PROVE  /\ Cardinality(Ahead(Append(down, m))) = Cardinality(Ahead(down))
         /\ HasDone(Append(down, m)) <=> m = "done" \/ HasDone(down)
<1>1. Grows(down, Append(down, m), m)
  BY DownGrows
<1>2. Ahead(Append(down, m)) = Ahead(down)
  BY <1>1, AheadSame
<1>3. HasDone(Append(down, m)) <=> m = "done" \/ HasDone(down)
  BY <1>1 DEF Grows, HasDone
<1> QED
  BY <1>2, <1>3

LEMMA OutputKeep == ASSUME IInv, [Next]_vars PROVE OutputOK'
<1>0. /\ printed \in Nat /\ sent \in Nat /\ Len(down) \in Nat /\ Cardinality(Ahead(down)) \in Nat
      /\ printed + (IF resp = "done" THEN 0 ELSE Cardinality(Ahead(down))) + (IF resp = "out" THEN 1 ELSE 0) = sent
      /\ done <=> resp = "done" \/ HasDone(down)
      /\ done => d \in {"closing", "closed"} /\ tool = "exited"
      /\ wexit = "code" => resp = "done" /\ wpc = "exit"
  <2>1. Len(down) \in Nat /\ printed \in Nat /\ sent \in Nat
    BY LenProperties DEF IInv, TypeOK, SocketTypes
  <2> QED
    BY <2>1, AheadFinite DEF IInv, OutputOK, HasDone
<1>1. {"raw", "torn", "error", "done"} \subseteq Downward /\ "out" \in Downward
  BY DEF Downward
<1>2. ASSUME UNCHANGED <<printed, resp, sent, done>>, wexit' # "code" \/ UNCHANGED <<wexit, wpc>>,
             \/ down' = down
             \/ \E m \in {"raw", "torn", "error"} : down' = Append(down, m)
             \/ done /\ resp # "done" /\ down' = Append(down, "out"),
             done => d' \in {"closing", "closed"} /\ tool' = "exited"
      PROVE  OutputOK'
  <2>1. Cardinality(Ahead(down')) = Cardinality(Ahead(down)) /\ (HasDone(down') <=> HasDone(down))
    <3>1. CASE \E m \in {"raw", "torn", "error"} : down' = Append(down, m)
      BY <1>1, <3>1, OtherKeeps
    <3>2. CASE done /\ resp # "done" /\ down' = Append(down, "out")
      BY <1>0, <1>1, <3>2, OtherKeeps
    <3>3. CASE down' = down
      BY <3>3
    <3> QED
      BY <1>2, <3>1, <3>2, <3>3
  <2> QED
    BY <1>0, <1>2, <2>1 DEF OutputOK, HasDone
<1>3. CASE SendRequest \/ EnterLoop \/ WriteCompletes
  <2>1. wpc # "exit" /\ wexit # "code"
    BY <1>0, <1>3 DEF SendRequest, EnterLoop, WriteCompletes
  <2>2. wexit' # "code" /\ UNCHANGED <<printed, resp, sent, done, down, d, tool>>
    BY <1>3, <2>1 DEF SendRequest, EnterLoop, WriteCompletes, Exit, Loop
  <2> QED
    BY <1>0, <1>2, <2>2
<1>4. CASE RelayStdin \/ RelayEOF \/ RelaySignal \/ RelayWinSize
  <2>1. wpc = "loop" /\ UNCHANGED <<wexit, printed, resp, sent, done, down, d, tool>>
    BY <1>4 DEF RelayStdin, RelayEOF, RelaySignal, RelayWinSize
  <2>2. wexit' # "code"
    BY <1>0, <2>1
  <2> QED
    BY <1>0, <1>2, <2>1, <2>2
<1>5. CASE HandleResponse
  <2>1. wpc = "loop" /\ wexit # "code" /\ UNCHANGED <<sent, done, down, d, tool>>
    BY <1>0, <1>5 DEF HandleResponse
  <2>2. CASE resp = "out"
    <3>1. printed' = printed + 1 /\ resp' = "read" /\ wexit' = wexit
      BY <1>5, <2>2 DEF HandleResponse
    <3> QED
      BY <1>0, <2>1, <2>2, <3>1 DEF OutputOK, HasDone
  <2>3. CASE resp # "out"
    <3>1. UNCHANGED <<printed, resp>> /\ (wexit' = "code" => resp = "done" /\ wpc' = "exit")
      BY <1>5, <2>3 DEF HandleResponse, Exit, respVars
    <3> QED
      BY <1>0, <2>1, <3>1 DEF OutputOK, HasDone
  <2> QED
    BY <2>2, <2>3
<1>6. CASE Decode
  <2>1. resp = "read" /\ UNCHANGED <<printed, wexit, wpc, sent, done, d, tool>>
    BY <1>6 DEF Decode
  <2>2. wexit # "code"
    BY <1>0, <2>1
  <2>3. CASE down = <<>>
    <3>1. resp' = "eof" /\ down' = down
      BY <1>6, <2>3 DEF Decode
    <3> QED
      BY <1>0, <2>1, <2>2, <3>1 DEF OutputOK, HasDone
  <2>4. CASE down # <<>>
    <3>1. down' = Tail(down) /\ resp' = (IF Head(down) \in {"raw", "torn"} THEN "err" ELSE Head(down))
      BY <1>6, <2>4 DEF Decode
    <3>2. Shrinks(down, down') /\ Head(down) = down[1]
      BY <2>4, <3>1, DownShrinks
    <3>3. (resp' = "out" <=> down[1] = "out") /\ (resp' = "done" <=> down[1] = "done")
      BY <3>1, <3>2
    <3>4. /\ down[1] = "done" => Ahead(down) = {}
          /\ down[1] # "done" =>
               Cardinality(Ahead(down)) = Cardinality(Ahead(down')) + (IF down[1] = "out" THEN 1 ELSE 0)
      BY <3>2, AheadShrink
    <3>5. HasDone(down) <=> down[1] = "done" \/ HasDone(down')
      <4>1. /\ 1 \in 1 .. Len(down) /\ Len(down') = Len(down) - 1
            /\ \A i \in 1 .. Len(down') : i + 1 \in 1 .. Len(down) /\ down'[i] = down[i + 1]
        BY <3>2 DEF Shrinks
      <4>2. ASSUME NEW i \in 1 .. Len(down), i # 1 PROVE i - 1 \in 1 .. Len(down') /\ down'[i - 1] = down[i]
        BY <1>0, <3>2, <4>2 DEF Shrinks
      <4> QED
        BY <4>1, <4>2 DEF HasDone
    <3>6. Cardinality(Ahead(down')) \in Nat
      <4>1. Len(down') \in Nat
        BY <3>2 DEF Shrinks
      <4> QED
        BY <4>1, AheadFinite
    <3>7. printed' + (IF resp' = "done" THEN 0 ELSE Cardinality(Ahead(down'))) + (IF resp' = "out" THEN 1 ELSE 0)
            = sent'
      <4>1. CASE down[1] = "done"
        <5>1. Cardinality(Ahead(down)) = 0
          BY <3>4, <4>1, FS_EmptySet
        <5> QED
          BY <1>0, <2>1, <3>3, <4>1, <5>1
      <4>2. CASE down[1] # "done"
        BY <1>0, <2>1, <3>3, <3>4, <3>6, <4>2
      <4> QED
        BY <4>1, <4>2
    <3> QED
      BY <1>0, <2>1, <2>2, <3>3, <3>5, <3>7 DEF OutputOK, HasDone
  <2> QED
    BY <2>3, <2>4
<1>7. CASE ReadHeader \/ HeaderTimeout
  <2>1. d = "header" /\ UNCHANGED <<printed, resp, sent, done, wexit, wpc>>
        /\ (down' = down \/ \E m \in {"raw", "torn", "error"} : down' = Append(down, m))
    BY <1>7 DEF ReadHeader, HeaderTimeout, Refuse
  <2>2. ~ done
    BY <1>0, <2>1
  <2> QED
    BY <1>2, <2>1, <2>2
<1>8. CASE PumperStep \/ OutputReads
  <2>1. UNCHANGED <<printed, resp, sent, done, wexit, wpc, down, d, tool>>
    BY <1>8 DEF PumperStep, PumperReads, PumperStops, PumperWrites, OutputReads
  <2> QED
    BY <1>0, <1>2, <2>1
<1>9. CASE ToolReads \/ ToolWrites \/ ToolExits
  <2>1. tool # "exited" /\ UNCHANGED <<printed, resp, sent, done, wexit, wpc, down>>
    BY <1>9 DEF ToolReads, ToolWrites, ToolExits
  <2>2. ~ done
    BY <1>0, <2>1
  <2> QED
    BY <1>2, <2>1, <2>2
<1>10. CASE OutputSends
  <2>1. down' = Append(down, "out") /\ UNCHANGED <<printed, resp, done, wexit, wpc, d, tool>> /\ wpc # "exit"
        /\ sent' = IF done THEN sent ELSE sent + 1
    BY <1>10 DEF OutputSends, WrapperOpen
  <2>2. CASE done
    <3>1. CASE resp # "done"
      BY <1>0, <1>2, <2>1, <2>2, <3>1
    <3>2. CASE resp = "done"
      BY <1>0, <2>1, <2>2, <3>2 DEF OutputOK
    <3> QED
      BY <3>1, <3>2
  <2>3. CASE ~ done
    <3>1. resp # "done" /\ ~ HasDone(down) /\ sent' = sent + 1
      BY <1>0, <2>1, <2>3
    <3>2. Grows(down, down', "out")
      BY <1>1, <2>1, DownGrows
    <3>3. Cardinality(Ahead(down')) = Cardinality(Ahead(down)) + 1
      BY <3>1, <3>2, AheadGrow
    <3>4. ~ HasDone(down')
      BY <3>1, <3>2 DEF Grows, HasDone
    <3> QED
      BY <1>0, <2>1, <2>3, <3>1, <3>3, <3>4 DEF OutputOK, HasDone
  <2> QED
    BY <2>2, <2>3
<1>11. CASE OutputFails
  <2>1. down' \in MaybeTorn /\ UNCHANGED <<printed, resp, sent, done, wexit, wpc, d, tool>>
    BY <1>11 DEF OutputFails
  <2>2. down' = Append(down, "torn") \/ down' = down
    BY <2>1 DEF MaybeTorn
  <2> QED
    BY <1>0, <1>2, <2>1, <2>2
<1>12. CASE Finish
  <2>1. /\ d = "running" /\ d' = "closing" /\ tool = "exited"
        /\ UNCHANGED <<printed, resp, sent, tool, wexit, wpc>>
    BY <1>12 DEF Finish
  <2>2. ~ done
    BY <1>0, <2>1
  <2>3. \/ down' = Append(down, "done") /\ done' = TRUE
        \/ down' \in MaybeTorn /\ done' = done
    BY <1>12 DEF Finish
  <2>4. CASE down' \in MaybeTorn /\ done' = done
    <3>1. down' = Append(down, "torn") \/ down' = down
      BY <2>4 DEF MaybeTorn
    <3> QED
      BY <1>2, <2>1, <2>2, <2>4, <3>1
  <2>5. CASE down' = Append(down, "done") /\ done' = TRUE
    <3>1. Cardinality(Ahead(down')) = Cardinality(Ahead(down)) /\ HasDone(down')
      BY <1>1, <2>5, OtherKeeps
    <3>2. done'
      BY <2>5
    <3> QED
      BY <1>0, <2>1, <2>2, <3>1, <3>2 DEF OutputOK, HasDone
  <2> QED
    BY <2>3, <2>4, <2>5
<1>13. CASE CloseConn \/ DaemonDies
  <2>1. d' = "closed" /\ UNCHANGED <<printed, resp, sent, done, wexit, wpc, down>> /\ (tool = "exited" => tool' = "exited")
    BY <1>13 DEF CloseConn, DaemonDies
  <2> QED
    BY <1>0, <1>2, <2>1
<1>14. CASE ReadStdin \/ StdinEnds \/ Interrupt \/ Resize \/ Over \/ UNCHANGED vars
  <2>1. UNCHANGED <<printed, resp, sent, done, wexit, wpc, down, d, tool>>
    BY <1>14 DEF ReadStdin, StdinEnds, Interrupt, Resize, Over
  <2> QED
    BY <1>0, <1>2, <2>1
<1> QED
  BY <1>3, <1>4, <1>5, <1>6, <1>7, <1>8, <1>9, <1>10, <1>11, <1>12, <1>13, <1>14
     DEF Next, WrapperStep, HeaderStep, OutputStep

(* What the tool wrote.                                                     *)
LEMMA WroteKeep == ASSUME IInv, [Next]_vars PROVE WroteOK'
<1>0. /\ WroteOK /\ wrote \in Nat /\ sent \in Nat /\ outPipe \in Nat
      /\ done => d \in {"closing", "closed"} /\ tool = "exited"
      /\ d = "header" => tool = "off"
      /\ d = "closing" => tool = "exited"
  BY DEF IInv, TypeOK, SocketTypes, DaemonTypes, OutputOK, ControlOK
<1>1. CASE UNCHANGED <<wrote, sent, outPipe, sender, d, short, done>>
  BY <1>0, <1>1 DEF WroteOK
<1>2. CASE ReadHeader \/ HeaderTimeout
  <2>1. d = "header" /\ d' # "header" /\ UNCHANGED <<wrote, sent, outPipe, short, done>> /\ sender' # "send"
    BY <1>0, <1>2 DEF ReadHeader, HeaderTimeout, Refuse, WroteOK
  <2> QED
    BY <1>0, <2>1 DEF WroteOK
<1>3. CASE ToolWrites
  <2>1. tool = "full" /\ wrote' = wrote + 1 /\ outPipe' = outPipe + 1 /\ UNCHANGED <<sent, sender, d, short, done>>
    BY <1>3 DEF ToolWrites
  <2>2. ~ done /\ d # "header"
    BY <1>0, <2>1
  <2> QED
    BY <1>0, <2>1, <2>2 DEF WroteOK
<1>4. CASE OutputReads
  <2>1. sender = "read" /\ outPipe > 0 /\ outPipe' = outPipe - 1 /\ sender' = "send"
        /\ UNCHANGED <<wrote, sent, d, short, done>>
    BY <1>4 DEF OutputReads
  <2> QED
    BY <1>0, <2>1 DEF WroteOK
<1>5. CASE OutputSends
  <2>1. sender = "send" /\ sender' = "read" /\ sent' = (IF done THEN sent ELSE sent + 1)
        /\ UNCHANGED <<wrote, outPipe, d, short, done>>
    BY <1>5 DEF OutputSends
  <2> QED
    BY <1>0, <2>1 DEF WroteOK
<1>6. CASE OutputFails
  <2>1. sender = "send" /\ short' /\ UNCHANGED d
    BY <1>6 DEF OutputFails
  <2> QED
    BY <1>0, <2>1 DEF WroteOK
<1>7. CASE Finish
  <2>1. d = "running" /\ d' = "closing" /\ UNCHANGED <<wrote, sent, outPipe, sender>>
    BY <1>7 DEF Finish
  <2>2. ~ short' => ~ short /\ outPipe = 0 /\ sender = "read"
    BY <1>7, Zenon DEF Finish, Drained
  <2> QED
    BY <1>0, <2>1, <2>2 DEF WroteOK
<1>8. CASE CloseConn \/ DaemonDies
  <2>1. d' = "closed" /\ sender' = "off" /\ UNCHANGED <<wrote, sent, outPipe, short, done>>
    BY <1>8 DEF CloseConn, DaemonDies
  <2> QED
    BY <1>0, <2>1 DEF WroteOK
<1>9. CASE WrapperStep
  BY <1>1, <1>9 DEF WrapperStep, SendRequest, EnterLoop, RelayStdin, RelayEOF, RelaySignal, RelayWinSize,
     WriteCompletes, HandleResponse
<1>10. CASE ReadStdin \/ StdinEnds \/ Interrupt \/ Resize \/ Decode \/ PumperStep \/ Over \/ UNCHANGED vars
  BY <1>1, <1>10 DEF ReadStdin, StdinEnds, Interrupt, Resize, Decode, PumperStep, PumperReads, PumperStops,
     PumperWrites, Over
<1>11. CASE ToolReads \/ ToolExits
  BY <1>1, <1>11 DEF ToolReads, ToolExits
<1> QED
  BY <1>2, <1>3, <1>4, <1>5, <1>6, <1>7, <1>8, <1>9, <1>10, <1>11 DEF Next, HeaderStep, OutputStep
-----------------------------------------------------------------------------
(* The size of the terminal.                                                *)
LEMMA SizeGrows ==
  ASSUME NEW s, NEW t, NEW m, Grows(s, t, m), NEW n
  PROVE  /\ m.kind = "size" /\ m.n = n => LastSize(t, n)
         /\ m.kind # "size" /\ LastSize(s, n) => LastSize(t, n)
         /\ m.kind # "size" /\ NoSize(s) => NoSize(t)
<1>1. ASSUME m.kind = "size", m.n = n PROVE LastSize(t, n)
  <2>1. Len(t) \in 1 .. Len(t) /\ t[Len(t)] = m /\ \A j \in Len(t) + 1 .. Len(t) : FALSE
    BY DEF Grows
  <2> QED
    BY <1>1, <2>1 DEF LastSize
<1>2. ASSUME m.kind # "size", LastSize(s, n) PROVE LastSize(t, n)
  <2>1. PICK i \in 1 .. Len(s) :
          s[i].kind = "size" /\ s[i].n = n /\ \A j \in i + 1 .. Len(s) : s[j].kind # "size"
    BY <1>2 DEF LastSize
  <2>2. i \in 1 .. Len(t) /\ t[i] = s[i]
    BY DEF Grows
  <2>3. ASSUME NEW j \in i + 1 .. Len(t) PROVE t[j].kind # "size"
    <3>1. (j \in i + 1 .. Len(s) /\ t[j] = s[j]) \/ t[j] = m
      BY DEF Grows
    <3> QED
      BY <1>2, <2>1, <3>1
  <2> QED
    BY <2>1, <2>2, <2>3 DEF LastSize
<1>3. ASSUME m.kind # "size", NoSize(s) PROVE NoSize(t)
  BY <1>3 DEF NoSize, Grows
<1> QED
  BY <1>1, <1>2, <1>3

LEMMA SizeShrinks ==
  ASSUME NEW s, NEW t, Shrinks(s, t), NEW n
  PROVE  /\ LastSize(s, n) => LastSize(t, n) \/ (NoSize(t) /\ s[1].kind = "size" /\ s[1].n = n)
         /\ NoSize(s) => NoSize(t) /\ s[1].kind # "size"
<1>0. 1 \in 1 .. Len(s) /\ \A j \in 1 .. Len(t) : j + 1 \in 1 .. Len(s) /\ t[j] = s[j + 1]
  BY DEF Shrinks
<1>1. ASSUME LastSize(s, n) PROVE LastSize(t, n) \/ (NoSize(t) /\ s[1].kind = "size" /\ s[1].n = n)
  <2>1. PICK i \in 1 .. Len(s) :
          s[i].kind = "size" /\ s[i].n = n /\ \A j \in i + 1 .. Len(s) : s[j].kind # "size"
    BY <1>1 DEF LastSize
  <2>2. CASE i = 1
    <3>1. ASSUME NEW j \in 1 .. Len(t) PROVE t[j].kind # "size"
      <4>1. j + 1 \in i + 1 .. Len(s) /\ t[j] = s[j + 1]
        BY <1>0, <2>2
      <4> QED
        BY <2>1, <4>1
    <3> QED
      BY <2>1, <2>2, <3>1 DEF NoSize
  <2>3. CASE i # 1
    <3>1. i - 1 \in 1 .. Len(t) /\ t[i - 1] = s[i]
      BY <2>3 DEF Shrinks
    <3>2. ASSUME NEW j \in (i - 1) + 1 .. Len(t) PROVE t[j].kind # "size"
      <4>1. j + 1 \in i + 1 .. Len(s) /\ t[j] = s[j + 1]
        BY <1>0, <2>3
      <4> QED
        BY <2>1, <4>1
    <3> QED
      BY <2>1, <3>1, <3>2 DEF LastSize
  <2> QED
    BY <2>2, <2>3
<1>2. ASSUME NoSize(s) PROVE NoSize(t) /\ s[1].kind # "size"
  BY <1>0, <1>2 DEF NoSize
<1> QED
  BY <1>1, <1>2

LEMMA SizeKeep == ASSUME IInv, [Next]_vars PROVE SizeOK'
<1>0. SizeOK
  BY DEF IInv
<1>1. CASE UNCHANGED <<winCh, out, size, up, d, pty, ptySize>> /\ (raw' => raw) /\ (pumper = "done" => pumper' = "done")
  BY <1>0, <1>1 DEF SizeOK
<1>2. CASE SendRequest
  <2>1. ~ raw'
    BY <1>2, Zenon DEF SendRequest, Exit, IInv, ControlOK
  <2> QED
    BY <2>1 DEF SizeOK
<1>3. CASE EnterLoop
  <2>1. ~ raw
    BY <1>3 DEF EnterLoop, IInv, ControlOK
  <2>2. ~ raw' \/ out' = Msg("size", size)
    BY <1>3, <2>1, Zenon DEF EnterLoop, Exit, Loop, SizeNow
  <2>3. size' = size /\ Msg("size", size).kind = "size" /\ Msg("size", size).n = size
    BY <1>3 DEF EnterLoop, Msg
  <2> QED
    BY <2>2, <2>3 DEF SizeOK
<1>4. CASE RelayStdin \/ RelayEOF \/ RelaySignal
  <2>1. wpc = "loop" /\ UNCHANGED <<winCh, size, raw, up, d, pumper, pty, ptySize>>
        /\ \E k \in {"in", "eof", "sig"} : \E n : out' = Msg(k, n)
    BY <1>4 DEF RelayStdin, RelayEOF, RelaySignal
  <2>2. out.kind = "none"
    BY <2>1 DEF IInv, ControlOK
  <2>3. out'.kind # "size"
    BY <2>1 DEF Msg
  <2> QED
    BY <1>0, <2>1, <2>2, <2>3 DEF SizeOK
<1>5. CASE RelayWinSize
  <2>1. out' = Msg("size", size) /\ size' = size
    BY <1>5 DEF RelayWinSize, SizeNow
  <2>2. out'.kind = "size" /\ out'.n = size
    BY <2>1 DEF Msg
  <2> QED
    BY <2>1, <2>2 DEF SizeOK
<1>6. CASE WriteCompletes
  <2>1. out'.kind = "none" /\ UNCHANGED <<winCh, size, d, pumper, pty, ptySize>>
    BY <1>6, NothingIsNone DEF WriteCompletes
  <2>2. raw' => raw
    BY <1>6, Zenon DEF WriteCompletes, Exit, Loop
  <2>3. CASE up' = up
    <3>1. d = "closed"
      <4> SUFFICES ASSUME up' = Append(up, out) PROVE FALSE
        BY <1>6 DEF WriteCompletes, DaemonOpen
      <4>1. out \in Upward \union {Nothing} /\ out.kind # "none"
        BY <1>6 DEF IInv, TypeOK, SocketTypes, ControlOK, WriteCompletes
      <4>2. out \in Upward
        BY <4>1, NothingIsNone
      <4>3. Len(up) \in Nat /\ Len(up') = Len(up) + 1
        BY <4>2, UpGrows
      <4> QED
        BY <2>3, <4>3
    <3> QED
      BY <2>1, <3>1 DEF SizeOK
  <2>4. CASE up' # up
    <3>1. out \in Upward /\ up' = Append(up, out)
      BY <1>6, <2>4, WriteGrows
    <3>2. Grows(up, up', out)
      BY <3>1, UpGrows DEF Grows
    <3>3. /\ out.kind = "size" /\ out.n = size => LastSize(up', size)
          /\ out.kind # "size" /\ LastSize(up, size) => LastSize(up', size)
          /\ out.kind # "size" /\ NoSize(up) => NoSize(up')
      BY <3>2, SizeGrows
    <3> QED
      BY <1>0, <2>1, <2>2, <3>3 DEF SizeOK
  <2> QED
    BY <2>3, <2>4
<1>7. CASE Resize
  <2>1. raw' = raw /\ (raw => winCh')
    BY <1>7, Zenon DEF Resize
  <2> QED
    BY <2>1 DEF SizeOK
<1>8. CASE HandleResponse
  <2>1. UNCHANGED <<winCh, out, size, up, d, pty, ptySize, pumper>>
    BY <1>8 DEF HandleResponse
  <2>2. raw' => raw
    BY <1>8, Zenon DEF HandleResponse, Exit
  <2> QED
    BY <1>1, <2>1, <2>2
<1>9. CASE ReadHeader
  <2>1. d = "header" /\ UNCHANGED <<winCh, out, size, raw>>
    BY <1>9 DEF ReadHeader
  <2>2. CASE d' = "closed"
    BY <1>0, <2>1, <2>2 DEF SizeOK
  <2>3. CASE d' # "closed"
    <3>1. Kinds(up) \in {<<"req">>, <<"req", "nl">>}
      BY <1>9, <2>3 DEF ReadHeader, Refuse
    <3>2. NoSize(up)
      <4>1. \A i \in 1 .. Len(up) : up[i].kind \in {"req", "nl"}
        BY <3>1, Ends, HeaderKinds
      <4> QED
        BY <4>1 DEF NoSize
    <3>3. ~ LastSize(up, size)
      BY <3>2 DEF NoSize, LastSize
    <3>4. pumper = "off"
      BY <2>1 DEF IInv, ControlOK
    <3> QED
      BY <1>0, <2>1, <3>3, <3>4 DEF SizeOK
  <2> QED
    BY <2>2, <2>3
<1>10. CASE PumperReads
  <2>1. up # <<>> /\ up' = Tail(up) /\ pumper = "read" /\ d \notin {"closed", "header"}
    BY <1>10 DEF PumperReads, IInv, ControlOK
  <2>2. Shrinks(up, up') /\ Head(up) = up[1]
    BY <2>1, UpShrinks DEF Shrinks
  <2>3. /\ LastSize(up, size) => LastSize(up', size) \/ (NoSize(up') /\ up[1].kind = "size" /\ up[1].n = size)
        /\ NoSize(up) => NoSize(up') /\ up[1].kind # "size"
    BY <2>2, SizeShrinks
  <2>4. UNCHANGED <<winCh, out, size, raw, d, pty>> /\ pumper # "done"
    BY <1>10 DEF PumperReads
  <2>5. \/ pumper' = "done"
        \/ pty /\ up[1].kind = "size" /\ ptySize' = up[1].n
        \/ ptySize' = ptySize /\ (up[1].kind = "size" => ~ pty)
    <3>1. Head(up) = up[1]
      BY <2>2
    <3> QED
      BY <1>10, <3>1 DEF PumperReads, HangUp
  <2> QED
    BY <1>0, <2>1, <2>3, <2>4, <2>5 DEF SizeOK
<1>11. CASE HeaderTimeout \/ PumperStops \/ CloseConn \/ DaemonDies
  <2>1. (d' = "closed" \/ pumper' = "done") /\ UNCHANGED <<winCh, out, size, raw>>
    BY <1>11 DEF HeaderTimeout, Refuse, PumperStops, HangUp, CloseConn, DaemonDies, StopPumper
  <2> QED
    BY <1>0, <2>1 DEF SizeOK
<1>12. CASE PumperWrites
  <2>1. UNCHANGED <<winCh, out, size, up, d, pty, ptySize, raw>> /\ pumper = "write"
    BY <1>12 DEF PumperWrites
  <2> QED
    BY <1>1, <2>1
<1>13. CASE UNCHANGED <<winCh, out, size, up, d, pty, ptySize, raw, pumper>>
  BY <1>1, <1>13
<1>14. CASE ReadStdin \/ StdinEnds \/ Interrupt \/ Decode \/ Over \/ UNCHANGED vars
  BY <1>13, <1>14 DEF ReadStdin, StdinEnds, Interrupt, Decode, Over
<1>15. CASE ToolReads \/ ToolWrites \/ ToolExits \/ OutputStep
  BY <1>13, <1>15 DEF ToolReads, ToolWrites, ToolExits, OutputStep, OutputReads, OutputSends, OutputFails
<1>16. CASE Finish
  <2>1. d = "running" /\ d' = "closing" /\ UNCHANGED <<winCh, out, size, up, pty, ptySize, raw, pumper>>
    BY <1>16 DEF Finish
  <2> QED
    BY <1>0, <2>1 DEF SizeOK
<1> QED
  BY <1>2, <1>3, <1>4, <1>5, <1>6, <1>7, <1>8, <1>9, <1>10, <1>11, <1>12, <1>14, <1>15, <1>16
     DEF Next, WrapperStep, HeaderStep, PumperStep
-----------------------------------------------------------------------------
LEMMA NextIInv == ASSUME IInv, [Next]_vars PROVE IInv'
<1>1. FlagsOK
  BY DEF IInv, TypeOK
<1>2. TypeOK'
  BY <1>1, FlagsKeep, WrapperTypesKeep, SocketTypesKeep, DaemonTypesKeep DEF TypeOK
<1> QED
  BY <1>2, ControlKeep, ReaderKeep, ChainKeep, EndKeep, OutputKeep, WroteKeep, SizeKeep, StdinKeep DEF IInv

(* The inductive invariant: where each of the wrapper, the connection's     *)
(* handler and its pumpers can be, and that every chunk, output message and *)
(* size that was taken at one end of the socket is accounted for.           *)
THEOREM Inductive == Spec => []IInv
<1>1. IInv /\ [Next]_vars => IInv'
  BY NextIInv
<1> QED
  BY InitIInv, <1>1, PTL DEF Spec

(* Whatever the capacities and however long the input, the tool reads a     *)
(* prefix of the wrapper's stdin, each chunk once and in order.  Its stdin  *)
(* is closed early only when the tool or the wrapper has exited, the end    *)
(* was relayed before chunks, or the pumper went deaf (StdinFaithful).      *)
THEOREM InputPrefix == Spec => []StdinFaithful
<1>1. IInv => StdinFaithful
  BY DEF IInv
<1> QED
  BY <1>1, Inductive, PTL

(* A wrapper that exits with the tool's code has printed every output       *)
(* message that was sent ahead of done, for handleResponse takes them in    *)
(* order; and all that the tool wrote, unless a send failed or the wait for *)
(* the pumper ran out.                                                      *)
THEOREM OutputPrinted == Spec => []OutputBeforeExit
<1>1. IInv => OutputBeforeExit
  <2> SUFFICES ASSUME IInv, wexit = "code" PROVE done /\ printed = sent /\ (short \/ printed = wrote)
    BY DEF OutputBeforeExit
  <2>1. OutputOK /\ WroteOK /\ printed \in Nat /\ sent \in Nat
    BY DEF IInv, TypeOK, SocketTypes
  <2>2. resp = "done" /\ done
    BY <2>1 DEF OutputOK
  <2>3. printed = sent
    BY <2>1, <2>2 DEF OutputOK
  <2>4. short \/ wrote = sent
    BY <2>1, <2>2 DEF WroteOK
  <2> QED
    BY <2>2, <2>3, <2>4
<1> QED
  BY <1>1, Inductive, PTL

(* As long as the daemon's pumper has not gone deaf, the tool's terminal    *)
(* gets the wrapper's size, however resizes, the SIGWINCH channel and the   *)
(* socket interleave.                                                       *)
THEOREM SizeDelivered == Spec => []SizeFollows
<1>1. IInv => SizeFollows
  <2> SUFFICES ASSUME IInv, pty, raw, ~ winCh, DaemonOpen, out.kind # "size", ~ deaf
               PROVE  ptySize = size \/ \E i \in 1 .. Len(up) : up[i].kind = "size"
    BY DEF SizeFollows
  <2>1. d # "closed" /\ wpc # "exit"
    BY DEF DaemonOpen, IInv, ControlOK
  <2>2. pumper # "done"
    BY <2>1 DEF IInv, ControlOK
  <2>3. LastSize(up, size) \/ ptySize = size
    BY <2>1, <2>2 DEF IInv, SizeOK
  <2> QED
    BY <2>3 DEF LastSize
<1> QED
  BY <1>1, Inductive, PTL
=============================================================================
