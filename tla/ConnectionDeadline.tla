------------------------- MODULE ConnectionDeadline -------------------------
(***************************************************************************)
(* The read and the write deadline of one connection, from handleConnection *)
(* (internal/daemon/daemon.go) through the stdin pumper and sendMessage     *)
(* (internal/daemon/executor.go).  A net.Conn has one deadline for each     *)
(* direction; SetDeadline sets both, and a later SetReadDeadline or         *)
(* SetWriteDeadline replaces the one it names.  Time 0 is when              *)
(* handleConnection sets them first.  The tool may run on after the limit.     *)
(***************************************************************************)
EXTENDS Integers

CONSTANTS
    MaxLife,        \* max_connection_lifetime, 0 when it is not configured
    HeaderTimeout,  \* read_header_timeout
    MessageTimeout, \* read_message_timeout, 0 when there is none
    WriteTimeout,   \* write_timeout, 0 when there is none
    MaxTime,        \* bound: the clock stops here
    Never           \* the zero time.Time: no deadline

VARIABLES
    now,            \* the clock
    readBy,         \* the read deadline of the connection
    writeBy,        \* its write deadline
    handler,        \* handleConnection: "header", "reply", "run", "closed"
    pumper,         \* the stdin pumper: "idle", "reading", "ended"
    sender,         \* sendMessage or sendJSON: "idle", "writing"
    exchanged       \* history: when a message was last read or written

vars == <<now, readBy, writeBy, handler, pumper, sender, exchanged>>

TypeOK ==
    /\ now \in 0 .. MaxTime
    /\ readBy \in Nat \cup {Never}
    /\ writeBy \in Nat \cup {Never}
    /\ handler \in {"header", "reply", "run", "closed"}
    /\ pumper \in {"idle", "reading", "ended"}
    /\ sender \in {"idle", "writing"}
    /\ exchanged \in 0 .. MaxTime

(* SetDeadline with the lifetime, then the read deadline of the header.     *)
Init ==
    /\ now = 0
    /\ writeBy = IF MaxLife > 0 THEN MaxLife ELSE Never
    /\ readBy = HeaderTimeout
    /\ handler = "header"
    /\ pumper = "idle"
    /\ sender = "idle"
    /\ exchanged = 0

Due(deadline) == deadline # Never /\ now >= deadline

(***************************************************************************)
(* handleConnection.                                                        *)
(***************************************************************************)

(* The request arrives in time.  It is refused, or it starts a tool.        *)
ReadRequest ==
    /\ handler = "header"
    /\ ~Due(readBy)
    /\ readBy' = Never
    /\ handler' \in {"reply", "run"}
    /\ exchanged' = now
    /\ UNCHANGED <<now, writeBy, pumper, sender>>

(* It does not: the client is told, and the read deadline stays.            *)
RequestTimeout ==
    /\ handler = "header"
    /\ Due(readBy)
    /\ handler' = "reply"
    /\ UNCHANGED <<now, readBy, writeBy, pumper, sender, exchanged>>

(***************************************************************************)
(* Writing: sendError, sendProxyError and sendMessage set the write         *)
(* deadline, write one message and remove the deadline again.               *)
(***************************************************************************)

BeginSend ==
    /\ handler \in {"reply", "run"}
    /\ sender = "idle"
    /\ sender' = "writing"
    /\ writeBy' = IF WriteTimeout > 0 THEN now + WriteTimeout ELSE writeBy
    /\ UNCHANGED <<now, readBy, handler, pumper, exchanged>>

AfterSend == IF WriteTimeout > 0 THEN Never ELSE writeBy

(* The handler returns, and closes the connection, after the answer to a    *)
(* refused request and after the last message of a tool.                    *)
AfterReply == IF handler = "run" THEN {"run", "closed"} ELSE {"closed"}

(* The client takes the message.                                            *)
SendDone ==
    /\ sender = "writing"
    /\ ~Due(writeBy)
    /\ sender' = "idle"
    /\ writeBy' = AfterSend
    /\ exchanged' = now
    /\ handler' \in AfterReply
    /\ UNCHANGED <<now, readBy, pumper>>

(* It does not: the message is given up, and the handler goes on as before. *)
SendTimeout ==
    /\ sender = "writing"
    /\ Due(writeBy)
    /\ sender' = "idle"
    /\ writeBy' = AfterSend
    /\ handler' \in AfterReply
    /\ UNCHANGED <<now, readBy, pumper, exchanged>>

(***************************************************************************)
(* Reading: the pumper sets the read deadline before each message and       *)
(* removes it after, whether the read succeeded or not.                     *)
(***************************************************************************)

BeginRead ==
    /\ handler = "run"
    /\ pumper = "idle"
    /\ pumper' = "reading"
    /\ readBy' = IF MessageTimeout > 0 THEN now + MessageTimeout ELSE readBy
    /\ UNCHANGED <<now, writeBy, handler, sender, exchanged>>

ReadMessage ==
    /\ handler = "run"
    /\ pumper = "reading"
    /\ ~Due(readBy)
    /\ pumper' = "idle"
    /\ readBy' = Never
    /\ exchanged' = now
    /\ UNCHANGED <<now, writeBy, handler, sender>>

ReadTimeout ==
    /\ handler = "run"
    /\ pumper = "reading"
    /\ Due(readBy)
    /\ pumper' = "ended"
    /\ readBy' = Never
    /\ UNCHANGED <<now, writeBy, handler, sender, exchanged>>

(* A blocked read or write whose deadline is over: it returns at once.      *)
Expired ==
    \/ (handler = "header" \/ pumper = "reading") /\ Due(readBy)
    \/ sender = "writing" /\ Due(writeBy)

(* Time passes while the handler waits for the request, for the client to   *)
(* take an answer, or for the tool; a refusal itself takes none.            *)
Tick ==
    /\ handler # "closed"
    /\ handler = "reply" => sender = "writing"
    /\ ~Expired
    /\ now < MaxTime
    /\ now' = now + 1
    /\ UNCHANGED <<readBy, writeBy, handler, pumper, sender, exchanged>>

Next ==
    \/ ReadRequest
    \/ RequestTimeout
    \/ BeginSend
    \/ SendDone
    \/ SendTimeout
    \/ BeginRead
    \/ ReadMessage
    \/ ReadTimeout
    \/ Tick

Spec == Init /\ [][Next]_vars

(* What docs/CONFIG.md says of max_connection_lifetime and handleConnection *)
(* in its comment: no message is read from or written to a connection after *)
(* the limit, whatever deadlines the single reads and writes set.           *)
WithinLifetime == MaxLife > 0 => exchanged <= MaxLife
=============================================================================
