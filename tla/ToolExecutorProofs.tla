-------------------------- MODULE ToolExecutorProofs --------------------------
(* Proofs about ToolExecutor, for any streams, any amount of output, and any *)
(* threshold and limit.                                                      *)
EXTENDS ToolExecutor, SequenceTheorems, TLAPS

Chunks == Seq(Nat \ {0})
Incr(u) == \A i, j \in 1 .. Len(u) : i < j => u[i] < u[j]
Before(u, v) == \A a \in ToSet(u), b \in ToSet(v) : a < b
UpTo(u, n) == \A a \in ToSet(u) : a <= n

(* The states of the spill file, and those in which nothing of it was sent. *)
Files == {"none", "open", "closed", "cut", "removed"}
Unsent == {"none", "open", "closed"}

(* One stream: what the client got comes before what is spilled and not yet *)
(* sent, then comes what the redactor and the pumper hold, then the pipe.   *)
(* While the pumper sends, what it holds comes before the redactor's.       *)
Flow(g, sp, t, h, p, m, f, q) ==
  /\ Incr(g) /\ Incr(sp) /\ Incr(t) /\ Incr(h) /\ Incr(p)
  /\ f \in Unsent => Before(g, sp)
  /\ Before(g, t) /\ Before(g, h) /\ Before(g, p)
  /\ Before(sp, t) /\ Before(sp, h) /\ Before(sp, p)
  /\ Before(t, p) /\ Before(h, p)
  /\ q = "send" => Before(h, t)
  /\ q # "send" => Before(t, h)
  /\ UpTo(g, m) /\ UpTo(sp, m) /\ UpTo(t, m) /\ UpTo(h, m) /\ UpTo(p, m)
FlowOK(x) == Flow(got[x], spill[x], tail[x], hand[x], pipe[x], made[x], file[x], pump[x])

(* Without a loss every chunk is somewhere.                                 *)
Somewhere(x) ==
  ToSet(got[x]) \union ToSet(spill[x]) \union ToSet(tail[x]) \union ToSet(hand[x]) \union ToSet(pipe[x])
CoverOK(x) == loss[x] = {} => 1 .. made[x] \subseteq Somewhere(x)

(* The pumper, the mode of the buffer and its file.                         *)
OffOK(x) == (pump[x] = "off") <=> (proc = "none")
PumpOK(x) ==
  /\ pump[x] \notin {"hold", "send"} => hand[x] = <<>>
  /\ pump[x] = "send" => inline[x]
  /\ inline[x] <=> file[x] = "none"
  /\ inline[x] => spill[x] = <<>>

(* Chunks that are being sent: not yet counted, but hashed and within the   *)
(* limit.                                                                   *)
Sending(x) == IF pump[x] = "send" THEN Len(hand[x]) ELSE 0
Counted(f, lg, ls, a, n, l, hs) ==
  /\ f \in Unsent => a = lg + ls
  /\ lg <= a
  /\ Limit > 0 => a + n <= Limit
  /\ l \subseteq {"limit"} => hs = a + n
CountOK(x) ==
  Counted(file[x], Len(got[x]), Len(spill[x]), acc[x], Sending(x), loss[x], hashed[x])

(* The main goroutine.                                                      *)
PastDrain == main \in {"finalize", "stream", "audit", "report"} \/ term \in {"done", "timeout"}
MainOK ==
  /\ proc = "none" => main \in {"start", "cleanup", "sweep", "end"} /\ desc = "none" /\ term \in {"none", "error"}
  /\ main = "start" => proc = "none"
  /\ proc = "running" => main \in {"select", "grace"}
  /\ main \in {"start", "select", "grace", "drain"} => fin = 1
  /\ main \in {"finalize", "stream"} => fin <= Len(Streams)
  /\ main \in {"audit", "report"} \/ term \in {"done", "timeout"} => fin = Len(Streams) + 1
  /\ fin > 1 => PastDrain
  /\ (term = "none") <=> main \notin {"cleanup", "sweep", "end"}
  /\ audits = IF main = "report" \/ term \in {"done", "timeout"} THEN 1 ELSE 0
  /\ main \in {"sweep", "end"} => desc # "group"

(* Over the limit the group is killed.                                      *)
KillOK(x) == "limit" \in loss[x] => proc \notin {"none", "running"} /\ desc # "group"

(* A pumper that was not given up on has ended, and left nothing of what    *)
(* was written before the exit.                                             *)
DrainOK(x) ==
  /\ PastDrain /\ "cap" \notin loss[x] => pump[x] = "done"
  /\ pump[x] = "done" /\ loss[x] = {} /\ term # "error" =>
       proc \in {"zombie", "reaped"} /\ \A a \in ToSet(pipe[x]) : a > atExit[x]
  /\ main = "end" /\ term # "error" /\ "cap" \notin loss[x] => file[x] \in {"none", "removed"}

(* What finalizeStream leaves.                                              *)
Finalized(x) == \E i \in 1 .. fin - 1 : Streams[i] = x
FinalOK(x) ==
  /\ Finalized(x) /\ loss[x] = {} => tail[x] = <<>> /\ ToSet(spill[x]) \subseteq ToSet(got[x])
  /\ Finalized(x) /\ loss[x] \subseteq {"limit", "temp"} => acc[x] = Len(got[x])
  /\ main \notin {"audit", "report", "cleanup", "sweep", "end"} /\ ~ Finalized(x) /\ ~ inline[x] =>
       file[x] \in Unsent
  /\ main = "stream" /\ x = Streams[fin] => ~ inline[x] /\ (loss[x] = {} => tail[x] = <<>>)

Local(x) == FlowOK(x) /\ CoverOK(x) /\ PumpOK(x) /\ CountOK(x)
Ended(x) == OffOK(x) /\ KillOK(x) /\ DrainOK(x) /\ FinalOK(x)
IInv == TypeOK /\ MainOK /\ \A x \in StreamSet : Local(x) /\ Ended(x)
-----------------------------------------------------------------------------
(* Sequences of chunks.                                                     *)
LEMMA ValuesAt == ASSUME NEW u \in Chunks PROVE ToSet(u) = {u[i] : i \in 1 .. Len(u)}
BY LenProperties DEF ToSet, Chunks

LEMMA Values == ASSUME NEW u \in Chunks PROVE ToSet(u) \subseteq Nat \ {0}
<1>1. \A i \in 1 .. Len(u) : u[i] \in Nat \ {0}
  BY ElementOfSeq DEF Chunks
<1> QED
  BY <1>1, ValuesAt

LEMMA Empty == <<>> \in Chunks /\ Len(<<>>) = 0 /\ ToSet(<<>>) = {} /\ Incr(<<>>)
<1>1. <<>> \in Chunks /\ Len(<<>>) = 0
  BY EmptySeq DEF Chunks
<1>2. ToSet(<<>>) = {<<>>[i] : i \in 1 .. Len(<<>>)}
  BY <1>1, ValuesAt
<1> QED
  BY <1>1, <1>2 DEF Incr

LEMMA Joined ==
  ASSUME NEW u \in Chunks, NEW v \in Chunks
  PROVE  /\ u \o v \in Chunks /\ Len(u \o v) = Len(u) + Len(v)
         /\ ToSet(u \o v) = ToSet(u) \union ToSet(v)
         /\ Incr(u) /\ Incr(v) /\ Before(u, v) => Incr(u \o v)
<1> DEFINE w == u \o v
<1>0. Len(u) \in Nat /\ Len(v) \in Nat
  BY LenProperties DEF Chunks
<1>1. w \in Chunks /\ Len(w) = Len(u) + Len(v)
      /\ \A i \in 1 .. Len(u) + Len(v) : w[i] = IF i <= Len(u) THEN u[i] ELSE v[i - Len(u)]
  BY ConcatProperties DEF Chunks
<1> HIDE DEF w
<1>2. ASSUME NEW i \in 1 .. Len(w)
      PROVE  \/ i \in 1 .. Len(u) /\ w[i] = u[i]
             \/ i > Len(u) /\ i - Len(u) \in 1 .. Len(v) /\ w[i] = v[i - Len(u)]
  BY <1>0, <1>1
<1>3. \A i \in 1 .. Len(u) : i \in 1 .. Len(w) /\ w[i] = u[i]
  BY <1>0, <1>1
<1>4. \A i \in 1 .. Len(v) : i + Len(u) \in 1 .. Len(w) /\ w[i + Len(u)] = v[i]
  BY <1>0, <1>1
<1>5. ToSet(u) = {u[i] : i \in 1 .. Len(u)} /\ ToSet(v) = {v[i] : i \in 1 .. Len(v)}
      /\ ToSet(w) = {w[i] : i \in 1 .. Len(w)}
  BY <1>1, ValuesAt
<1>6. ToSet(w) = ToSet(u) \union ToSet(v)
  <2>1. ToSet(w) \subseteq ToSet(u) \union ToSet(v)
    BY <1>2, <1>5
  <2>2. ToSet(u) \union ToSet(v) \subseteq ToSet(w)
    BY <1>3, <1>4, <1>5
  <2> QED
    BY <2>1, <2>2
<1>7. ASSUME Incr(u), Incr(v), Before(u, v), NEW i \in 1 .. Len(w), NEW j \in 1 .. Len(w), i < j
      PROVE  w[i] < w[j]
  <2>1. CASE i \in 1 .. Len(u) /\ w[i] = u[i] /\ j \in 1 .. Len(u) /\ w[j] = u[j]
    BY <1>7, <2>1 DEF Incr
  <2>2. CASE i \in 1 .. Len(u) /\ w[i] = u[i] /\ j - Len(u) \in 1 .. Len(v) /\ w[j] = v[j - Len(u)]
    BY <1>5, <1>7, <2>2 DEF Before
  <2>3. CASE /\ i > Len(u) /\ i - Len(u) \in 1 .. Len(v) /\ w[i] = v[i - Len(u)]
             /\ j - Len(u) \in 1 .. Len(v) /\ w[j] = v[j - Len(u)]
    <3>1. i - Len(u) < j - Len(u)
      BY <1>0, <1>7
    <3> QED
      BY <1>7, <2>3, <3>1 DEF Incr
  <2> QED
    BY <1>0, <1>2, <1>7, <2>1, <2>2, <2>3
<1> QED
  BY <1>1, <1>6, <1>7 DEF w, Incr

LEMMA Written ==
  ASSUME NEW u \in Chunks, NEW n \in Nat
  PROVE  /\ Append(u, n + 1) \in Chunks
         /\ ToSet(Append(u, n + 1)) = ToSet(u) \union {n + 1}
         /\ Incr(u) /\ UpTo(u, n) => Incr(Append(u, n + 1))
<1> DEFINE w == Append(u, n + 1)
<1>0. Len(u) \in Nat /\ n + 1 \in Nat \ {0}
  BY LenProperties DEF Chunks
<1>1. w \in Chunks /\ Len(w) = Len(u) + 1 /\ (\A i \in 1 .. Len(u) : w[i] = u[i]) /\ w[Len(u) + 1] = n + 1
  BY <1>0, AppendProperties DEF Chunks
<1> HIDE DEF w
<1>2. ToSet(u) = {u[i] : i \in 1 .. Len(u)} /\ ToSet(w) = {w[i] : i \in 1 .. Len(w)}
  BY <1>1, ValuesAt
<1>3. ToSet(w) = ToSet(u) \union {n + 1}
  <2>1. ToSet(w) \subseteq ToSet(u) \union {n + 1}
    BY <1>0, <1>1, <1>2
  <2>2. ToSet(u) \union {n + 1} \subseteq ToSet(w)
    BY <1>0, <1>1, <1>2
  <2> QED
    BY <2>1, <2>2
<1>4. ASSUME Incr(u), UpTo(u, n), NEW i \in 1 .. Len(w), NEW j \in 1 .. Len(w), i < j
      PROVE  w[i] < w[j]
  <2>1. i \in 1 .. Len(u) /\ w[i] = u[i] /\ u[i] \in Nat
    BY <1>0, <1>1, <1>2, <1>4, Values
  <2>2. CASE j \in 1 .. Len(u)
    BY <1>1, <1>4, <2>1, <2>2 DEF Incr
  <2>3. CASE j = Len(u) + 1
    <3>1. u[i] \in ToSet(u)
      BY <1>2, <2>1
    <3>2. u[i] <= n
      BY <1>4, <3>1 DEF UpTo
    <3> QED
      BY <1>1, <2>1, <2>3, <3>2
  <2> QED
    BY <1>0, <1>1, <2>2, <2>3
<1> QED
  BY <1>1, <1>3, <1>4 DEF w, Incr

LEMMA Split ==
  ASSUME NEW u \in Chunks, u # <<>>
  PROVE  /\ <<Head(u)>> \in Chunks /\ Tail(u) \in Chunks /\ Incr(<<Head(u)>>)
         /\ ToSet(<<Head(u)>>) = {Head(u)} /\ ToSet(u) = {Head(u)} \union ToSet(Tail(u))
         /\ Incr(u) => Incr(Tail(u)) /\ \A b \in ToSet(Tail(u)) : Head(u) < b
<1> DEFINE w == Tail(u)
           one == <<Head(u)>>
<1>1. Len(u) \in Nat \ {0} /\ Head(u) = u[1] /\ Head(u) \in Nat \ {0}
      /\ w \in Chunks /\ Len(w) = Len(u) - 1
  BY EmptySeq, HeadTailProperties DEF Chunks
<1>2. \A i \in 1 .. Len(w) : w[i] = u[i + 1]
  BY HeadTailProperties DEF Chunks
<1>3. one \in Chunks /\ Len(one) = 1 /\ one[1] = Head(u)
  BY <1>1 DEF Chunks
<1> HIDE DEF w, one
<1>4. /\ ToSet(u) = {u[i] : i \in 1 .. Len(u)} /\ ToSet(w) = {w[i] : i \in 1 .. Len(w)}
      /\ ToSet(one) = {one[i] : i \in 1 .. Len(one)}
  BY <1>1, <1>3, ValuesAt
<1>5. ToSet(one) = {Head(u)} /\ Incr(one)
  BY <1>3, <1>4 DEF Incr
<1>6. ToSet(u) = {Head(u)} \union ToSet(w)
  <2>1. ToSet(u) \subseteq {Head(u)} \union ToSet(w)
    <3>1. ASSUME NEW i \in 1 .. Len(u) PROVE u[i] = Head(u) \/ \E j \in 1 .. Len(w) : w[j] = u[i]
      <4>1. CASE i = 1
        BY <1>1, <4>1
      <4>2. CASE i # 1
        <5>1. i - 1 \in 1 .. Len(w) /\ w[i - 1] = u[i]
          BY <1>1, <1>2, <4>2
        <5> QED
          BY <5>1
      <4> QED
        BY <4>1, <4>2
    <3> QED
      BY <1>4, <3>1
  <2>2. {Head(u)} \union ToSet(w) \subseteq ToSet(u)
    <3>1. \A j \in 1 .. Len(w) : j + 1 \in 1 .. Len(u) /\ w[j] = u[j + 1]
      BY <1>1, <1>2
    <3>2. 1 \in 1 .. Len(u)
      BY <1>1
    <3> QED
      BY <1>1, <1>4, <3>1, <3>2
  <2> QED
    BY <2>1, <2>2
<1>7. ASSUME Incr(u) PROVE Incr(w) /\ \A b \in ToSet(w) : Head(u) < b
  <2>1. \A j \in 1 .. Len(w) : j + 1 \in 1 .. Len(u) /\ 1 < j + 1 /\ w[j] = u[j + 1]
    BY <1>1, <1>2
  <2>2. 1 \in 1 .. Len(u)
    BY <1>1
  <2>3. \A j \in 1 .. Len(w) : Head(u) < w[j]
    BY <1>1, <1>7, <2>1, <2>2 DEF Incr
  <2>4. ASSUME NEW i \in 1 .. Len(w), NEW j \in 1 .. Len(w), i < j PROVE w[i] < w[j]
    <3>1. i + 1 < j + 1
      BY <1>1, <2>4
    <3> QED
      BY <1>7, <2>1, <3>1 DEF Incr
  <2> QED
    BY <1>4, <2>3, <2>4 DEF Incr
<1> QED
  BY <1>1, <1>3, <1>5, <1>6, <1>7 DEF w, one

LEMMA Cut ==
  ASSUME NEW u \in Chunks, NEW n \in 0 .. Len(u)
  PROVE  /\ SubSeq(u, 1, n) \in Chunks /\ Len(SubSeq(u, 1, n)) = n
         /\ ToSet(SubSeq(u, 1, n)) \subseteq ToSet(u)
         /\ Incr(u) => Incr(SubSeq(u, 1, n))
<1> DEFINE w == SubSeq(u, 1, n)
<1>0. Len(u) \in Nat /\ n \in Nat /\ n <= Len(u)
  BY LenProperties DEF Chunks
<1>1. \A i \in 1 .. n : u[i] \in Nat \ {0}
  BY <1>0, ElementOfSeq DEF Chunks
<1>2. w \in Chunks /\ Len(w) = (IF 1 <= n THEN n - 1 + 1 ELSE 0) /\ \A i \in 1 .. n - 1 + 1 : w[i] = u[1 + i - 1]
  BY <1>0, <1>1, SubSeqProperties DEF Chunks
<1> HIDE DEF w
<1>3. Len(w) = n /\ \A i \in 1 .. Len(w) : i \in 1 .. Len(u) /\ w[i] = u[i]
  BY <1>0, <1>2
<1>4. ToSet(u) = {u[i] : i \in 1 .. Len(u)} /\ ToSet(w) = {w[i] : i \in 1 .. Len(w)}
  BY <1>2, ValuesAt
<1>5. ToSet(w) \subseteq ToSet(u)
  BY <1>3, <1>4
<1>6. Incr(u) => Incr(w)
  BY <1>3 DEF Incr
<1> QED
  BY <1>2, <1>3, <1>5, <1>6 DEF w
-----------------------------------------------------------------------------
(* How the chunks of a stream move.                                         *)
LEMMA FlowWrite ==
  ASSUME NEW g \in Chunks, NEW sp \in Chunks, NEW t \in Chunks, NEW h \in Chunks,
         NEW p \in Chunks, NEW m \in Nat, NEW f, NEW q, Flow(g, sp, t, h, p, m, f, q)
  PROVE  Flow(g, sp, t, h, Append(p, m + 1), m + 1, f, q)
<1> DEFINE w == Append(p, m + 1)
<1>1. ToSet(w) = ToSet(p) \union {m + 1} /\ Incr(w)
  BY Written DEF Flow
<1>2. \A u \in {g, sp, t, h, p} : ToSet(u) \subseteq Nat \ {0}
  BY Values
<1> HIDE DEF w
<1>3. ASSUME NEW u \in {g, sp, t, h, p}, UpTo(u, m)
      PROVE  UpTo(u, m + 1) /\ (Before(u, p) => Before(u, w))
  BY <1>1, <1>2, <1>3 DEF UpTo, Before
<1>4. UpTo(w, m + 1)
  BY <1>1, <1>2 DEF Flow, UpTo
<1> QED
  BY <1>1, <1>3, <1>4 DEF Flow, w

LEMMA FlowRead ==
  ASSUME NEW g \in Chunks, NEW sp \in Chunks, NEW t \in Chunks,
         NEW p \in Chunks, p # <<>>, NEW m \in Nat, NEW f, NEW q, NEW q2, q2 # "send",
         Flow(g, sp, t, <<>>, p, m, f, q)
  PROVE  Flow(g, sp, t, <<Head(p)>>, Tail(p), m, f, q2)
<1> DEFINE one == <<Head(p)>>
           rest == Tail(p)
<1>1. /\ ToSet(one) = {Head(p)} /\ ToSet(p) = {Head(p)} \union ToSet(rest)
      /\ Incr(one) /\ Incr(rest) /\ \A b \in ToSet(rest) : Head(p) < b
  BY Split DEF Flow
<1> HIDE DEF one, rest
<1>2. Before(one, rest) /\ UpTo(one, m) /\ UpTo(rest, m)
  BY <1>1 DEF Flow, UpTo, Before
<1>3. ASSUME NEW u, Before(u, p) PROVE Before(u, one) /\ Before(u, rest)
  BY <1>1, <1>3 DEF Before
<1> QED
  BY <1>1, <1>2, <1>3 DEF Flow, one, rest

LEMMA FlowDrop ==
  ASSUME NEW g \in Chunks, NEW sp \in Chunks, NEW t \in Chunks, NEW h \in Chunks,
         NEW p \in Chunks, NEW m \in Nat, NEW f, NEW q, NEW q2, Flow(g, sp, t, h, p, m, f, q)
  PROVE  Flow(g, sp, t, <<>>, p, m, f, q2)
<1>1. \A u : Before(u, <<>>) /\ Before(<<>>, u)
  BY Empty DEF Before
<1>2. UpTo(<<>>, m)
  BY Empty DEF UpTo
<1> QED
  BY <1>1, <1>2, Empty DEF Flow

LEMMA FlowDropTail ==
  ASSUME NEW g \in Chunks, NEW sp \in Chunks, NEW t \in Chunks, NEW h \in Chunks,
         NEW p \in Chunks, NEW m \in Nat, NEW f, NEW q, Flow(g, sp, t, h, p, m, f, q)
  PROVE  Flow(g, sp, <<>>, h, p, m, f, q)
<1>1. \A u : Before(u, <<>>) /\ Before(<<>>, u)
  BY Empty DEF Before
<1>2. UpTo(<<>>, m)
  BY Empty DEF UpTo
<1> QED
  BY <1>1, <1>2, Empty DEF Flow

(* What follows u and v follows them joined, and the other way round.       *)
LEMMA Around ==
  ASSUME NEW u \in Chunks, NEW v \in Chunks
  PROVE  /\ \A z : Before(u, z) /\ Before(v, z) => Before(u \o v, z)
         /\ \A z : Before(z, u) /\ Before(z, v) => Before(z, u \o v)
         /\ \A n : UpTo(u, n) /\ UpTo(v, n) => UpTo(u \o v, n)
<1>1. ToSet(u \o v) = ToSet(u) \union ToSet(v)
  BY Joined
<1> DEFINE w == u \o v
<1> HIDE DEF w
<1>2. ToSet(w) = ToSet(u) \union ToSet(v)
  BY <1>1 DEF w
<1>3. \A z : Before(u, z) /\ Before(v, z) => Before(w, z)
  BY <1>2 DEF Before
<1>4. \A z : Before(z, u) /\ Before(z, v) => Before(z, w)
  BY <1>2 DEF Before
<1>5. \A n : UpTo(u, n) /\ UpTo(v, n) => UpTo(w, n)
  BY <1>2 DEF UpTo
<1> QED
  BY <1>3, <1>4, <1>5 DEF w

(* The redactor takes the chunk in hand and lets some through.              *)
LEMMA FlowRedact ==
  ASSUME NEW g \in Chunks, NEW sp \in Chunks, NEW t \in Chunks, NEW h \in Chunks,
         NEW p \in Chunks, NEW m \in Nat, NEW f, NEW q, q # "send", NEW out, NEW keep,
         \/ out = t \o h /\ keep = <<>>
         \/ out = t /\ keep = h
         \/ out = <<>> /\ keep = t \o h,
         Flow(g, sp, t, h, p, m, f, q)
  PROVE  Flow(g, sp, keep, out, p, m, f, "send")
<1>1. CASE out = t /\ keep = h
  BY <1>1 DEF Flow
<1>2. CASE out = t \o h /\ keep = <<>>
  <2>1. Incr(out)
    BY <1>2, Joined DEF Flow
  <2>2. /\ Before(g, out) /\ Before(sp, out) /\ Before(out, p) /\ UpTo(out, m)
    BY <1>2, Around DEF Flow
  <2>3. \A u : Before(u, <<>>) /\ Before(<<>>, u)
    BY Empty DEF Before
  <2>4. UpTo(<<>>, m) /\ Incr(<<>>)
    BY Empty DEF UpTo
  <2> QED
    BY <1>2, <2>1, <2>2, <2>3, <2>4 DEF Flow
<1>3. CASE out = <<>> /\ keep = t \o h
  <2>1. Incr(keep)
    BY <1>3, Joined DEF Flow
  <2>2. /\ Before(g, keep) /\ Before(sp, keep) /\ Before(keep, p) /\ UpTo(keep, m)
    BY <1>3, Around DEF Flow
  <2>3. \A u : Before(u, <<>>) /\ Before(<<>>, u)
    BY Empty DEF Before
  <2>4. UpTo(<<>>, m) /\ Incr(<<>>)
    BY Empty DEF UpTo
  <2> QED
    BY <1>3, <2>1, <2>2, <2>3, <2>4 DEF Flow
<1> QED
  BY <1>1, <1>2, <1>3

(* What is in hand goes to the file, or to the client.                      *)
LEMMA FlowSpill ==
  ASSUME NEW g \in Chunks, NEW sp \in Chunks, NEW t \in Chunks, NEW h \in Chunks,
         NEW p \in Chunks, NEW m \in Nat, NEW f \in Unsent, NEW f2, NEW q2,
         Flow(g, sp, t, h, p, m, f, "send")
  PROVE  Flow(g, sp \o h, t, <<>>, p, m, f2, q2)
<1> DEFINE w == sp \o h
<1>1. Incr(w)
  BY Joined DEF Flow
<1>2. Before(g, w) /\ Before(w, t) /\ Before(w, p) /\ UpTo(w, m)
  BY Around DEF Flow
<1> HIDE DEF w
<1>3. Flow(g, sp, t, <<>>, p, m, f, q2)
  BY FlowDrop
<1>4. Before(w, <<>>)
  BY Empty DEF Before
<1> QED
  BY <1>1, <1>2, <1>3, <1>4 DEF Flow, w

LEMMA FlowSend ==
  ASSUME NEW g \in Chunks, NEW t \in Chunks, NEW h \in Chunks,
         NEW p \in Chunks, NEW m \in Nat, NEW f, NEW q2,
         Flow(g, <<>>, t, h, p, m, f, "send")
  PROVE  Flow(g \o h, <<>>, t, <<>>, p, m, f, q2)
<1> DEFINE w == g \o h
<1>1. Incr(w)
  BY Joined DEF Flow
<1>2. Before(w, t) /\ Before(w, p) /\ UpTo(w, m)
  BY Around DEF Flow
<1> HIDE DEF w
<1>3. Flow(g, <<>>, t, <<>>, p, m, f, q2)
  BY FlowDrop, Empty
<1>4. Before(w, <<>>)
  BY Empty DEF Before
<1> QED
  BY <1>1, <1>2, <1>3, <1>4 DEF Flow, w

(* The same for what the redactor held back.                                *)
LEMMA FlowSpillTail ==
  ASSUME NEW g \in Chunks, NEW sp \in Chunks, NEW t \in Chunks, NEW h \in Chunks,
         NEW p \in Chunks, NEW m \in Nat, NEW f \in Unsent, NEW f2, NEW q, q # "send",
         Flow(g, sp, t, h, p, m, f, q)
  PROVE  Flow(g, sp \o t, <<>>, h, p, m, f2, q)
<1> DEFINE w == sp \o t
<1>1. Incr(w)
  BY Joined DEF Flow
<1>2. Before(g, w) /\ Before(w, h) /\ Before(w, p) /\ UpTo(w, m)
  BY Around DEF Flow
<1> HIDE DEF w
<1>3. Flow(g, sp, <<>>, h, p, m, f, q)
  BY FlowDropTail
<1>4. Before(w, <<>>)
  BY Empty DEF Before
<1> QED
  BY <1>1, <1>2, <1>3, <1>4 DEF Flow, w

LEMMA FlowSendTail ==
  ASSUME NEW g \in Chunks, NEW t \in Chunks, NEW h \in Chunks,
         NEW p \in Chunks, NEW m \in Nat, NEW f, NEW q, q # "send",
         Flow(g, <<>>, t, h, p, m, f, q)
  PROVE  Flow(g \o t, <<>>, <<>>, h, p, m, f, q)
<1> DEFINE w == g \o t
<1>1. Incr(w)
  BY Joined DEF Flow
<1>2. Before(w, h) /\ Before(w, p) /\ UpTo(w, m)
  BY Around DEF Flow
<1> HIDE DEF w
<1>3. Flow(g, <<>>, <<>>, h, p, m, f, q)
  BY FlowDropTail, Empty
<1>4. Before(w, <<>>)
  BY Empty DEF Before
<1> QED
  BY <1>1, <1>2, <1>3, <1>4 DEF Flow, w

(* The file, or a part of it, is streamed.                                  *)
LEMMA FlowStream ==
  ASSUME NEW g \in Chunks, NEW sp \in Chunks, NEW t \in Chunks, NEW h \in Chunks,
         NEW p \in Chunks, NEW m \in Nat,
         NEW f \in Unsent, NEW f2, f2 \notin Unsent, NEW q,
         NEW v \in Chunks, ToSet(v) \subseteq ToSet(sp), Incr(v),
         Flow(g, sp, t, h, p, m, f, q)
  PROVE  Flow(g \o v, sp, t, h, p, m, f2, q)
<1> DEFINE w == g \o v
<1>1. UpTo(v, m) /\ Before(g, v) /\ \A z : Before(sp, z) => Before(v, z)
  BY DEF Flow, Before, UpTo
<1>2. Incr(w)
  BY <1>1, Joined DEF Flow
<1>3. Before(w, t) /\ Before(w, h) /\ Before(w, p) /\ UpTo(w, m)
  BY <1>1, Around DEF Flow
<1> HIDE DEF w
<1> QED
  BY <1>2, <1>3 DEF Flow, w
-----------------------------------------------------------------------------
(* What a step does to one stream.                                          *)
Shape ==
  /\ got \in [StreamSet -> Chunks] /\ spill \in [StreamSet -> Chunks] /\ tail \in [StreamSet -> Chunks]
  /\ hand \in [StreamSet -> Chunks] /\ pipe \in [StreamSet -> Chunks]
  /\ made \in [StreamSet -> Nat] /\ acc \in [StreamSet -> Nat] /\ hashed \in [StreamSet -> Nat]
  /\ pump \in [StreamSet -> {"off", "read", "hold", "send", "done"}]
  /\ file \in [StreamSet -> Files]
  /\ loss \in [StreamSet -> SUBSET Losses]
  /\ inline \in [StreamSet -> BOOLEAN]

(* The parts of a stream that a step leaves alone.                          *)
SameInput(x) == pipe'[x] = pipe[x] /\ made'[x] = made[x]
SamePump(x) == pump'[x] = pump[x] /\ hand'[x] = hand[x]
SameStore(x) == inline'[x] = inline[x] /\ file'[x] = file[x] /\ spill'[x] = spill[x]
SameCount(x) == acc'[x] = acc[x] /\ hashed'[x] = hashed[x] /\ loss'[x] = loss[x]
Same(x) ==
  /\ SameInput(x) /\ SamePump(x) /\ SameStore(x) /\ SameCount(x)
  /\ tail'[x] = tail[x] /\ got'[x] = got[x]
Others(s) == \A x \in StreamSet \ {s} : Same(x)

LEMMA Shaped == ASSUME TypeOK PROVE Shape
BY DEF TypeOK, FlagsOK, ChunkTypes, BufferTypes, Shape, Chunks, Files

LEMMA AtStream ==
  ASSUME Shape, NEW x \in StreamSet
  PROVE  /\ got[x] \in Chunks /\ spill[x] \in Chunks /\ tail[x] \in Chunks /\ hand[x] \in Chunks
         /\ pipe[x] \in Chunks /\ made[x] \in Nat /\ acc[x] \in Nat /\ hashed[x] \in Nat
         /\ pump[x] \in {"off", "read", "hold", "send", "done"}
         /\ file[x] \in Files /\ loss[x] \subseteq Losses
BY DEF Shape

LEMMA WriteEffect ==
  ASSUME Shape, NEW s \in StreamSet, ToolWrites(s)
  PROVE  /\ Others(s) /\ SamePump(s) /\ SameStore(s) /\ SameCount(s)
         /\ tail'[s] = tail[s] /\ got'[s] = got[s]
         /\ made'[s] = made[s] + 1 /\ pipe'[s] = Append(pipe[s], made[s] + 1)
BY DEF Shape, ToolWrites, Others, Same, SameInput, SamePump, SameStore, SameCount, pumpVars, bufVars

LEMMA ReadEffect ==
  ASSUME Shape, NEW s \in StreamSet, PumpRead(s)
  PROVE  /\ Others(s) /\ SameStore(s) /\ SameCount(s)
         /\ tail'[s] = tail[s] /\ got'[s] = got[s] /\ made'[s] = made[s]
         /\ pump[s] = "read" /\ pipe[s] # <<>> /\ pump'[s] = "hold"
         /\ hand'[s] = <<Head(pipe[s])>> /\ pipe'[s] = Tail(pipe[s])
BY DEF Shape, PumpRead, Others, Same, SameInput, SamePump, SameStore, SameCount, bufVars

LEMMA EndEffect ==
  ASSUME Shape, NEW s \in StreamSet, PumpEnds(s)
  PROVE  /\ Others(s) /\ SameInput(s) /\ SameStore(s) /\ SameCount(s)
         /\ tail'[s] = tail[s] /\ got'[s] = got[s] /\ hand'[s] = hand[s]
         /\ pump[s] = "read" /\ pump'[s] = "done"
BY DEF Shape, PumpEnds, Others, Same, SameInput, SamePump, SameStore, SameCount, bufVars, toolVars

LEMMA SentEffect ==
  ASSUME Shape, NEW s \in StreamSet, PumpSent(s)
  PROVE  /\ Others(s) /\ SameInput(s) /\ SameStore(s)
         /\ tail'[s] = tail[s] /\ hashed'[s] = hashed[s]
         /\ pump[s] = "send" /\ pump'[s] = "read" /\ hand'[s] = <<>>
         /\ \/ got'[s] = got[s] \o hand[s] /\ acc'[s] = acc[s] + Len(hand[s]) /\ loss'[s] = loss[s]
            \/ got'[s] = got[s] /\ acc'[s] = acc[s] /\ loss'[s] = loss[s] \union {"send"}
<1>1. CASE SendSucceeds /\ Deliver(s, hand[s]) /\ acc' = [acc EXCEPT ![s] = @ + Len(hand[s])] /\ UNCHANGED loss
  BY <1>1 DEF Shape, PumpSent, PumpContinues, Deliver, Others, Same, SameInput, SamePump, SameStore, SameCount, toolVars
<1>2. CASE Lose(s, "send") /\ UNCHANGED <<got, acc>>
  BY <1>2 DEF Shape, PumpSent, PumpContinues, Lose, Others, Same, SameInput, SamePump, SameStore, SameCount, toolVars
<1> QED
  BY <1>1, <1>2 DEF PumpSent

(* What becomes of the chunks that a pumper, or the flush, writes.          *)
Goes(s) == pump'[s] = "read" /\ hand'[s] = <<>>
Held(s) == SameStore(s) /\ acc'[s] = acc[s]
ToNowhere(s) == Goes(s) /\ Held(s) /\ loss'[s] = loss[s] /\ hashed'[s] = hashed[s]
ToLimit(s, out) ==
  /\ OverLimit(s, out) /\ pump'[s] = "done" /\ hand'[s] = <<>> /\ Held(s)
  /\ loss'[s] = loss[s] \union {"limit"} /\ hashed'[s] = hashed[s]
ToClient(s, out) ==
  /\ ~ OverLimit(s, out) /\ inline[s] /\ pump'[s] = "send" /\ hand'[s] = out /\ Held(s)
  /\ loss'[s] = loss[s] /\ hashed'[s] = hashed[s] + Len(out)
ToFile(s, out) ==
  /\ ~ OverLimit(s, out) /\ (inline[s] \/ file[s] = "open") /\ Goes(s)
  /\ ~ inline'[s] /\ file'[s] = "open" /\ spill'[s] = spill[s] \o out
  /\ acc'[s] = acc[s] + Len(out) /\ loss'[s] = loss[s] /\ hashed'[s] = hashed[s] + Len(out)
ToLoss(s, out) ==
  /\ Goes(s) /\ Held(s) /\ hashed'[s] = hashed[s] + Len(out)
  /\ loss'[s] = loss[s] \union {"temp"} \/ loss'[s] = loss[s] \union {"late"}
Redaction(s, out, keep) ==
  \/ out = tail[s] \o hand[s] /\ keep = <<>>
  \/ out = tail[s] /\ keep = hand[s]
  \/ out = <<>> /\ keep = tail[s] \o hand[s]

LEMMA RedactionOf ==
  ASSUME NEW s, NEW r \in Redacted(s) PROVE Redaction(s, r.out, r.keep)
<1>1. CASE r = [out |-> tail[s] \o hand[s], keep |-> <<>>]
  BY <1>1 DEF Redaction
<1>2. CASE r = [out |-> tail[s], keep |-> hand[s]]
  BY <1>2 DEF Redaction
<1>3. CASE r = [out |-> <<>>, keep |-> tail[s] \o hand[s]]
  BY <1>3 DEF Redaction
<1> QED
  BY <1>1, <1>2, <1>3, Zenon DEF Redacted

LEMMA RedactionTypes ==
  ASSUME Shape, NEW s \in StreamSet, NEW out, NEW keep, Redaction(s, out, keep)
  PROVE  out \in Chunks /\ keep \in Chunks
<1>1. tail[s] \in Chunks /\ hand[s] \in Chunks
  BY AtStream
<1> QED
  BY <1>1, Joined, Empty DEF Redaction

LEMMA HashEffect ==
  ASSUME Shape, NEW s \in StreamSet, NEW out \in Chunks, TakenByHash(s, out)
  PROVE  /\ \A x \in StreamSet \ {s} : hashed'[x] = hashed[x]
         /\ OverLimit(s, out) => hashed'[s] = hashed[s]
         /\ ~ OverLimit(s, out) => hashed'[s] = hashed[s] + Len(out)
<1> DEFINE new == IF OverLimit(s, out) THEN hashed[s] ELSE hashed[s] + Len(out)
<1>1. hashed' = [hashed EXCEPT ![s] = new]
  BY DEF TakenByHash
<1>2. (OverLimit(s, out) => new = hashed[s]) /\ (~ OverLimit(s, out) => new = hashed[s] + Len(out))
  BY Zenon
<1> HIDE DEF new
<1> QED
  BY <1>1, <1>2 DEF Shape

LEMMA PumpWriteEffect ==
  ASSUME Shape, NEW s \in StreamSet, PumpWrite(s)
  PROVE  /\ Others(s) /\ SameInput(s) /\ got'[s] = got[s] /\ pump[s] = "hold"
         /\ \E out, keep :
              /\ Redaction(s, out, keep) /\ tail'[s] = keep
              /\ \/ ToNowhere(s) /\ out = <<>>
                 \/ ToLimit(s, out) \/ ToClient(s, out) \/ ToFile(s, out) \/ ToLoss(s, out)
<1>1. PICK r \in Redacted(s) :
        /\ tail' = [tail EXCEPT ![s] = r.keep] /\ TakenByHash(s, r.out)
        /\ IF r.out = <<>> THEN WriteNothing(s)
           ELSE \/ WriteOverLimit(s, r.out) \/ WriteInline(s, r.out)
                \/ WriteSpill(s, r.out) \/ WriteFile(s, r.out)
  BY DEF PumpWrite
<1> DEFINE out == r.out
           keep == r.keep
<1>2. Redaction(s, out, keep) /\ out \in Chunks /\ keep \in Chunks
  BY RedactionOf, RedactionTypes
<1> HIDE DEF out, keep
<1>3. /\ tail' = [tail EXCEPT ![s] = keep] /\ TakenByHash(s, out)
      /\ IF out = <<>> THEN WriteNothing(s)
         ELSE WriteOverLimit(s, out) \/ WriteInline(s, out) \/ WriteSpill(s, out) \/ WriteFile(s, out)
  BY <1>1 DEF out, keep
<1>4. tail'[s] = keep /\ \A x \in StreamSet \ {s} : tail'[x] = tail[x]
  BY <1>3 DEF Shape
<1>5. /\ \A x \in StreamSet \ {s} : hashed'[x] = hashed[x]
      /\ OverLimit(s, out) => hashed'[s] = hashed[s]
      /\ ~ OverLimit(s, out) => hashed'[s] = hashed[s] + Len(out)
  BY <1>2, <1>3, HashEffect
<1>6. /\ UNCHANGED <<pipe, made, got>> /\ pump[s] = "hold"
  BY DEF PumpWrite
<1> DEFINE Rest == \A x \in StreamSet \ {s} : SamePump(x) /\ SameStore(x) /\ acc'[x] = acc[x] /\ loss'[x] = loss[x]
           Outcome == \/ ToNowhere(s) /\ out = <<>>
                      \/ ToLimit(s, out) \/ ToClient(s, out) \/ ToFile(s, out) \/ ToLoss(s, out)
<1>7. ASSUME out = <<>>, WriteNothing(s) PROVE Rest /\ Outcome
  <2>1. Rest /\ Goes(s) /\ Held(s) /\ loss'[s] = loss[s]
    BY <1>7 DEF WriteNothing, PumpContinues, Shape, Goes, Held, SamePump, SameStore
  <2>2. hashed'[s] = hashed[s]
    BY <1>5, <1>7, Empty, AtStream
  <2> QED
    BY <1>7, <2>1, <2>2 DEF ToNowhere
<1>8. ASSUME WriteOverLimit(s, out) PROVE Rest /\ Outcome
  <2>1. Rest /\ ToLimit(s, out)
    BY <1>5, <1>8 DEF WriteOverLimit, Lose, Shape, ToLimit, Held, SamePump, SameStore
  <2> QED
    BY <2>1
<1>9. ASSUME WriteInline(s, out) PROVE Rest /\ Outcome
  <2>1. Rest /\ ToClient(s, out)
    BY <1>5, <1>9 DEF WriteInline, Shape, ToClient, Held, SamePump, SameStore
  <2> QED
    BY <2>1
<1>10. ASSUME WriteSpill(s, out) PROVE Rest /\ Outcome
  <2>1. ~ OverLimit(s, out) /\ inline[s] /\ Goes(s) /\ \A x \in StreamSet \ {s} : SamePump(x)
    BY <1>10 DEF WriteSpill, Spills, PumpContinues, Shape, Goes, SamePump
  <2>2. CASE /\ inline' = [inline EXCEPT ![s] = FALSE] /\ file' = [file EXCEPT ![s] = "open"]
             /\ AppendsToFile(s, out) /\ acc' = [acc EXCEPT ![s] = @ + Len(out)] /\ UNCHANGED loss
    <3>1. ~ inline'[s] /\ \A x \in StreamSet \ {s} : inline'[x] = inline[x]
      BY <2>2, Zenon DEF Shape
    <3>2. /\ file'[s] = "open" /\ spill'[s] = spill[s] \o out /\ acc'[s] = acc[s] + Len(out) /\ loss'[s] = loss[s]
          /\ \A x \in StreamSet \ {s} : file'[x] = file[x] /\ spill'[x] = spill[x] /\ acc'[x] = acc[x] /\ loss'[x] = loss[x]
      BY <2>2 DEF AppendsToFile, Shape
    <3>3. Rest
      BY <2>1, <3>1, <3>2 DEF SameStore
    <3>4. ToFile(s, out)
      BY <1>5, <2>1, <3>1, <3>2 DEF ToFile
    <3> QED
      BY <3>3, <3>4
  <2>3. CASE Lose(s, "temp") /\ UNCHANGED <<inline, file, spill, acc>>
    <3>1. Rest /\ Held(s) /\ loss'[s] = loss[s] \union {"temp"}
      BY <2>1, <2>3 DEF Lose, Shape, SameStore, Held
    <3> QED
      BY <1>5, <2>1, <3>1 DEF ToLoss
  <2> QED
    BY <1>10, <2>2, <2>3 DEF WriteSpill
<1>11. ASSUME WriteFile(s, out) PROVE Rest /\ Outcome
  <2>1. /\ ~ OverLimit(s, out) /\ ~ inline[s] /\ UNCHANGED <<inline, file>>
        /\ Goes(s) /\ \A x \in StreamSet \ {s} : SamePump(x)
    BY <1>11 DEF WriteFile, PumpContinues, Shape, Goes, SamePump
  <2>2. CASE /\ file[s] = "open" /\ AppendsToFile(s, out) /\ acc' = [acc EXCEPT ![s] = @ + Len(out)] /\ UNCHANGED loss
    <3>1. /\ spill'[s] = spill[s] \o out /\ acc'[s] = acc[s] + Len(out) /\ loss'[s] = loss[s]
          /\ \A x \in StreamSet \ {s} : spill'[x] = spill[x] /\ acc'[x] = acc[x] /\ loss'[x] = loss[x]
      BY <2>2 DEF AppendsToFile, Shape
    <3>2. Rest
      BY <2>1, <3>1 DEF SameStore
    <3>3. ToFile(s, out)
      BY <1>5, <2>1, <2>2, <3>1 DEF ToFile
    <3> QED
      BY <3>2, <3>3
  <2>3. CASE Lose(s, "late") /\ UNCHANGED <<spill, acc>>
    <3>1. Rest /\ Held(s) /\ loss'[s] = loss[s] \union {"late"}
      BY <2>1, <2>3 DEF Lose, Shape, SameStore, Held
    <3> QED
      BY <1>5, <2>1, <3>1 DEF ToLoss
  <2> QED
    BY <1>11, <2>2, <2>3 DEF WriteFile
<1>12. Rest /\ Outcome
  BY <1>3, <1>7, <1>8, <1>9, <1>10, <1>11
<1>13. Others(s) /\ SameInput(s) /\ got'[s] = got[s]
  BY <1>4, <1>5, <1>6, <1>12 DEF Others, Same, SameInput, SameCount
<1> HIDE DEF Rest
<1> QED
  BY <1>2, <1>4, <1>6, <1>12, <1>13

(* The flush leaves the redactor empty.                                     *)
Flushed(s) == tail'[s] = <<>> /\ SameInput(s) /\ SamePump(s) /\ pump[s] # "send"
FlushedNothing(s) ==
  /\ tail[s] = <<>> /\ inline'[s] = inline[s] /\ spill'[s] = spill[s]
  /\ (inline[s] => file'[s] = file[s]) /\ (~ inline[s] => file'[s] = "closed")
  /\ got'[s] = got[s] /\ SameCount(s)
FlushedToClient(s) ==
  /\ ~ OverLimit(s, tail[s]) /\ inline[s] /\ SameStore(s) /\ got'[s] = got[s] \o tail[s]
  /\ acc'[s] = acc[s] + Len(tail[s]) /\ hashed'[s] = hashed[s] + Len(tail[s]) /\ loss'[s] = loss[s]
FlushedToFile(s) ==
  /\ ~ OverLimit(s, tail[s]) /\ ~ inline'[s] /\ file'[s] = "closed" /\ spill'[s] = spill[s] \o tail[s]
  /\ got'[s] = got[s]
  /\ acc'[s] = acc[s] + Len(tail[s]) /\ hashed'[s] = hashed[s] + Len(tail[s]) /\ loss'[s] = loss[s]
FlushLost(s) ==
  /\ SameStore(s) /\ got'[s] = got[s] /\ acc'[s] = acc[s] /\ loss'[s] = loss[s] \union {"flush"}
  /\ hashed'[s] \in Nat

LEMMA FinalizeEffect ==
  ASSUME Shape, FinalizeStream, NEW s \in StreamSet, s = Streams[fin]
  PROVE  /\ Others(s) /\ Flushed(s)
         /\ FlushedNothing(s) \/ FlushedToClient(s) \/ FlushedToFile(s)
<1>1. /\ pump[s] # "send" /\ UNCHANGED <<pipe, made, pump, hand>>
      /\ Flush(s)
  BY DEF FinalizeStream, Locked, toolVars, pumpVars
<1>2. tail[s] \in Chunks
  BY AtStream
<1>3. tail'[s] = <<>> /\ (\A x \in StreamSet \ {s} : tail'[x] = tail[x]) /\ UNCHANGED loss
  BY <1>1 DEF Flush, Shape
<1>4. /\ \A x \in StreamSet \ {s} : hashed'[x] = hashed[x]
      /\ OverLimit(s, tail[s]) => hashed'[s] = hashed[s]
      /\ ~ OverLimit(s, tail[s]) => hashed'[s] = hashed[s] + Len(tail[s])
  BY <1>1, <1>2, HashEffect DEF Flush
<1> DEFINE Rest == \A x \in StreamSet \ {s} : SameStore(x) /\ acc'[x] = acc[x] /\ got'[x] = got[x]
           Outcome == FlushedNothing(s) \/ FlushedToClient(s) \/ FlushedToFile(s)
<1>5. ASSUME tail[s] = <<>> PROVE Rest /\ Outcome
  <2>1. /\ file' = [file EXCEPT ![s] = IF inline[s] THEN @ ELSE "closed"]
        /\ UNCHANGED <<got, acc, spill, inline>>
    BY <1>1, <1>5 DEF Flush
  <2>2. hashed'[s] = hashed[s]
    BY <1>4, <1>5, Empty, AtStream
  <2>3. /\ (inline[s] => file'[s] = file[s]) /\ (~ inline[s] => file'[s] = "closed")
        /\ \A x \in StreamSet \ {s} : file'[x] = file[x]
    BY <2>1, Zenon DEF Shape
  <2> QED
    BY <1>3, <1>5, <2>1, <2>2, <2>3 DEF FlushedNothing, SameStore, SameCount
<1>6. ASSUME tail[s] # <<>> PROVE Rest /\ Outcome
  <2>1. ~ OverLimit(s, tail[s]) /\ acc' = [acc EXCEPT ![s] = @ + Len(tail[s])]
    BY <1>1, <1>6 DEF Flush
  <2>2. acc'[s] = acc[s] + Len(tail[s]) /\ \A x \in StreamSet \ {s} : acc'[x] = acc[x]
    BY <2>1 DEF Shape
  <2>3. CASE inline[s] /\ Deliver(s, tail[s]) /\ UNCHANGED <<file, spill, inline>>
    <3>1. got'[s] = got[s] \o tail[s] /\ \A x \in StreamSet \ {s} : got'[x] = got[x]
      BY <2>3 DEF Deliver, Shape
    <3> QED
      BY <1>3, <1>4, <2>1, <2>2, <2>3, <3>1 DEF FlushedToClient, SameStore
  <2>4. CASE /\ inline' = [inline EXCEPT ![s] = FALSE] /\ file' = [file EXCEPT ![s] = "closed"]
             /\ AppendsToFile(s, tail[s]) /\ UNCHANGED got
    <3>1. ~ inline'[s] /\ \A x \in StreamSet \ {s} : inline'[x] = inline[x]
      BY <2>4, Zenon DEF Shape
    <3>2. /\ file'[s] = "closed" /\ spill'[s] = spill[s] \o tail[s] /\ got' = got
          /\ \A x \in StreamSet \ {s} : file'[x] = file[x] /\ spill'[x] = spill[x]
      BY <2>4 DEF AppendsToFile, Shape
    <3>3. Rest
      BY <2>2, <3>1, <3>2 DEF SameStore
    <3>4. FlushedToFile(s)
      BY <1>3, <1>4, <2>1, <2>2, <3>1, <3>2 DEF FlushedToFile
    <3> QED
      BY <3>3, <3>4
  <2> QED
    BY <1>1, <1>6, <2>3, <2>4 DEF Flush
<1>7. Rest /\ Outcome
  BY <1>5, <1>6
<1>8. Others(s)
  BY <1>1, <1>3, <1>4, <1>7 DEF Others, Same, SameInput, SamePump, SameCount
<1>9. Flushed(s)
  BY <1>1, <1>3 DEF Flushed, SameInput, SamePump
<1> QED
  BY <1>7, <1>8, <1>9

LEMMA FlushFailsEffect ==
  ASSUME Shape, FlushFails, NEW s \in StreamSet, s = Streams[fin]
  PROVE  Others(s) /\ Flushed(s) /\ FlushLost(s)
<1>1. /\ pump[s] # "send" /\ UNCHANGED <<pipe, made, pump, hand, inline, acc, file, spill, got>>
      /\ tail' = [tail EXCEPT ![s] = <<>>] /\ TakenByHash(s, tail[s]) /\ Lose(s, "flush")
  BY DEF FlushFails, Locked, toolVars, pumpVars
<1>2. tail'[s] = <<>> /\ \A x \in StreamSet \ {s} : tail'[x] = tail[x]
  BY <1>1 DEF Shape
<1>3. loss'[s] = loss[s] \union {"flush"} /\ \A x \in StreamSet \ {s} : loss'[x] = loss[x]
  BY <1>1 DEF Lose, Shape
<1>4. tail[s] \in Chunks /\ Len(tail[s]) \in Nat /\ hashed[s] \in Nat
  BY AtStream, LenProperties DEF Chunks
<1>5. /\ \A x \in StreamSet \ {s} : hashed'[x] = hashed[x]
      /\ hashed'[s] \in Nat
  BY <1>1, <1>4, HashEffect
<1>6. Others(s)
  BY <1>1, <1>2, <1>3, <1>5 DEF Others, Same, SameInput, SamePump, SameStore, SameCount
<1>7. Flushed(s) /\ FlushLost(s)
  BY <1>1, <1>2, <1>3, <1>5 DEF Flushed, FlushLost, SameInput, SamePump, SameStore
<1> QED
  BY <1>6, <1>7

LEMMA StreamEffect ==
  ASSUME Shape, StreamFile, NEW s \in StreamSet, s = Streams[fin]
  PROVE  /\ Others(s) /\ SameInput(s) /\ SamePump(s)
         /\ inline'[s] = inline[s] /\ spill'[s] = spill[s] /\ tail'[s] = tail[s]
         /\ acc'[s] = acc[s] /\ hashed'[s] = hashed[s]
         /\ \/ got'[s] = got[s] \o spill[s] /\ file'[s] = "removed" /\ loss'[s] = loss[s]
            \/ /\ \E n \in 0 .. Len(spill[s]) - 1 : got'[s] = got[s] \o SubSeq(spill[s], 1, n)
               /\ file'[s] = "cut" /\ loss'[s] = loss[s] \union {"send"}
<1>1. UNCHANGED <<pipe, made, pump, hand, tail, inline, acc, hashed, spill>>
  BY DEF StreamFile, toolVars, pumpVars
<1>2. CASE Deliver(s, spill[s]) /\ file' = [file EXCEPT ![s] = "removed"] /\ UNCHANGED loss
  BY <1>1, <1>2 DEF Deliver, Shape, Others, Same, SameInput, SamePump, SameStore, SameCount
<1>3. CASE /\ \E n \in 0 .. Len(spill[s]) - 1 : Deliver(s, SubSeq(spill[s], 1, n))
           /\ Lose(s, "send") /\ file' = [file EXCEPT ![s] = "cut"]
  <2>1. PICK n \in 0 .. Len(spill[s]) - 1 : Deliver(s, SubSeq(spill[s], 1, n))
    BY <1>3
  <2> DEFINE v == SubSeq(spill[s], 1, n)
  <2> HIDE DEF v
  <2>2. got' = [got EXCEPT ![s] = @ \o v]
    BY <2>1 DEF Deliver, v
  <2>3. /\ got'[s] = got[s] \o v /\ file'[s] = "cut" /\ loss'[s] = loss[s] \union {"send"}
        /\ \A x \in StreamSet \ {s} : got'[x] = got[x] /\ file'[x] = file[x] /\ loss'[x] = loss[x]
    BY <1>3, <2>2 DEF Lose, Shape
  <2>4. Others(s)
    BY <1>1, <2>3 DEF Others, Same, SameInput, SamePump, SameStore, SameCount
  <2> QED
    BY <1>1, <2>3, <2>4 DEF SameInput, SamePump, v
<1> QED
  BY <1>2, <1>3 DEF StreamFile
-----------------------------------------------------------------------------
(* How the counts change, with numbers for the lengths.                     *)
LEMMA CountSent ==
  ASSUME NEW lg \in Nat, NEW a \in Nat, NEW n \in Nat, NEW l, NEW hs,
         Counted("none", lg, 0, a, n, l, hs)
  PROVE  Counted("none", lg + n, 0, a + n, 0, l, hs)
BY BoundAssumption DEF Counted

LEMMA CountLost ==
  ASSUME NEW f, NEW lg \in Nat, NEW ls \in Nat, NEW a \in Nat, NEW n \in Nat, NEW l, NEW hs,
         NEW l2, NEW hs2, ~ (l2 \subseteq {"limit"}), Counted(f, lg, ls, a, n, l, hs)
  PROVE  Counted(f, lg, ls, a, 0, l2, hs2)
BY BoundAssumption DEF Counted

LEMMA CountTaken ==
  ASSUME NEW f, NEW lg \in Nat, NEW ls \in Nat, NEW a \in Nat, NEW n \in Nat, NEW l, NEW hs \in Nat,
         Counted(f, lg, ls, a, 0, l, hs), Limit > 0 => a + n <= Limit
  PROVE  Counted(f, lg, ls, a, n, l, hs + n)
BY BoundAssumption DEF Counted

LEMMA CountSpilled ==
  ASSUME NEW f \in Unsent, NEW f2, NEW lg \in Nat, NEW ls \in Nat, NEW a \in Nat,
         NEW n \in Nat, NEW l, NEW hs, Counted(f, lg, ls, a, n, l, hs)
  PROVE  Counted(f2, lg, ls + n, a + n, 0, l, hs)
BY BoundAssumption DEF Counted

LEMMA CountStreamed ==
  ASSUME NEW f \in Unsent, NEW f2, f2 \notin Unsent, NEW lg \in Nat, NEW ls \in Nat,
         NEW a \in Nat, NEW n \in Nat, NEW k \in 0 .. ls, NEW l, NEW l2, l \subseteq l2, NEW hs,
         Counted(f, lg, ls, a, n, l, hs)
  PROVE  Counted(f2, lg + k, ls, a, n, l2, hs)
BY BoundAssumption DEF Counted

(* Every move keeps the order, the cover and the counts of its stream.      *)
LEMMA LocalSame == ASSUME NEW x \in StreamSet, Same(x), Local(x) PROVE Local(x)'
<1>1. FlowOK(x)'
  BY DEF Local, Same, SameInput, SamePump, SameStore, FlowOK
<1>2. CoverOK(x)'
  BY DEF Local, Same, SameInput, SamePump, SameStore, SameCount, CoverOK, Somewhere
<1>3. PumpOK(x)'
  BY DEF Local, Same, SamePump, SameStore, PumpOK
<1>4. CountOK(x)'
  BY DEF Local, Same, SamePump, SameStore, SameCount, CountOK, Counted, Sending
<1> QED
  BY <1>1, <1>2, <1>3, <1>4 DEF Local

LEMMA LocalWrite ==
  ASSUME Shape, NEW s \in StreamSet, ToolWrites(s), Local(s) PROVE Local(s)'
<1>1. /\ SamePump(s) /\ SameStore(s) /\ SameCount(s) /\ tail'[s] = tail[s] /\ got'[s] = got[s]
      /\ made'[s] = made[s] + 1 /\ pipe'[s] = Append(pipe[s], made[s] + 1)
  BY WriteEffect
<1>2. /\ got[s] \in Chunks /\ spill[s] \in Chunks /\ tail[s] \in Chunks /\ hand[s] \in Chunks
      /\ pipe[s] \in Chunks /\ made[s] \in Nat
  BY AtStream
<1>3. FlowOK(s)'
  <2>1. Flow(got[s], spill[s], tail[s], hand[s], Append(pipe[s], made[s] + 1), made[s] + 1, file[s], pump[s])
    BY <1>2, FlowWrite DEF Local, FlowOK
  <2> QED
    BY <1>1, <2>1 DEF FlowOK, SamePump, SameStore
<1>4. CoverOK(s)'
  <2>1. ToSet(Append(pipe[s], made[s] + 1)) = ToSet(pipe[s]) \union {made[s] + 1}
    BY <1>2, Written
  <2>2. Somewhere(s)' = Somewhere(s) \union {made[s] + 1}
    BY <1>1, <2>1 DEF Somewhere, SamePump, SameStore
  <2>3. 1 .. made[s] + 1 = 1 .. made[s] \union {made[s] + 1}
    BY <1>2
  <2> QED
    BY <1>1, <2>2, <2>3 DEF Local, CoverOK, SameCount
<1>5. PumpOK(s)'
  BY <1>1 DEF Local, SamePump, SameStore, PumpOK
<1>6. CountOK(s)'
  BY <1>1 DEF Local, SamePump, SameStore, SameCount, CountOK, Counted, Sending
<1> QED
  BY <1>3, <1>4, <1>5, <1>6 DEF Local

LEMMA LocalRead ==
  ASSUME Shape, NEW s \in StreamSet, PumpRead(s), Local(s) PROVE Local(s)'
<1>1. /\ SameStore(s) /\ SameCount(s)
      /\ tail'[s] = tail[s] /\ got'[s] = got[s] /\ made'[s] = made[s]
      /\ pump[s] = "read" /\ pipe[s] # <<>> /\ pump'[s] = "hold"
      /\ hand'[s] = <<Head(pipe[s])>> /\ pipe'[s] = Tail(pipe[s])
  BY ReadEffect
<1>2. /\ got[s] \in Chunks /\ spill[s] \in Chunks /\ tail[s] \in Chunks
      /\ pipe[s] \in Chunks /\ made[s] \in Nat
  BY AtStream
<1>3. hand[s] = <<>>
  BY <1>1 DEF Local, PumpOK
<1>4. FlowOK(s)'
  <2>1. Flow(got[s], spill[s], tail[s], <<>>, pipe[s], made[s], file[s], pump[s])
    BY <1>3 DEF Local, FlowOK
  <2>2. Flow(got[s], spill[s], tail[s], <<Head(pipe[s])>>, Tail(pipe[s]), made[s], file[s], "hold")
    BY <1>1, <1>2, <2>1, FlowRead
  <2> QED
    BY <1>1, <2>2 DEF FlowOK, SameStore
<1>5. CoverOK(s)'
  <2>1. /\ ToSet(<<Head(pipe[s])>>) = {Head(pipe[s])}
        /\ ToSet(pipe[s]) = {Head(pipe[s])} \union ToSet(Tail(pipe[s]))
    BY <1>1, <1>2, Split
  <2>2. Somewhere(s) \subseteq Somewhere(s)'
    BY <1>1, <1>3, <2>1, Empty DEF Somewhere, SameStore
  <2> QED
    BY <1>1, <2>2 DEF Local, CoverOK, SameCount
<1>6. PumpOK(s)'
  BY <1>1 DEF Local, SameStore, PumpOK
<1>7. CountOK(s)'
  BY <1>1 DEF Local, SameStore, SameCount, CountOK, Counted, Sending
<1> QED
  BY <1>4, <1>5, <1>6, <1>7 DEF Local

(* The pumper starts or ends, the file is removed, or a loss is noted.      *)
LEMMA LocalIdle ==
  ASSUME Shape, NEW x \in StreamSet, Local(x), SameInput(x), hand'[x] = hand[x],
         tail'[x] = tail[x] /\ got'[x] = got[x] /\ spill'[x] = spill[x] /\ inline'[x] = inline[x],
         acc'[x] = acc[x] /\ hashed'[x] = hashed[x] /\ loss[x] \subseteq loss'[x],
         \/ file'[x] = file[x]
         \/ file[x] # "none" /\ file'[x] = "removed"
         \/ file[x] \in Unsent \ {"none"} /\ file'[x] = "closed",
         pump'[x] = pump[x] \/ (pump[x] \in {"off", "read"} /\ pump'[x] \in {"read", "done"})
  PROVE  Local(x)'
<1>1. FlowOK(x)'
  BY DEF Local, FlowOK, Flow, SameInput, Unsent
<1>2. CoverOK(x)'
  BY DEF Local, SameInput, CoverOK, Somewhere
<1>3. PumpOK(x)'
  BY DEF Local, PumpOK
<1>4. CountOK(x)'
  BY DEF Local, CountOK, Counted, Sending, Unsent
<1> QED
  BY <1>1, <1>2, <1>3, <1>4 DEF Local

LEMMA LocalSent ==
  ASSUME Shape, NEW s \in StreamSet, PumpSent(s), Local(s) PROVE Local(s)'
<1>1. /\ SameInput(s) /\ SameStore(s) /\ tail'[s] = tail[s] /\ hashed'[s] = hashed[s]
      /\ pump[s] = "send" /\ pump'[s] = "read" /\ hand'[s] = <<>>
  BY SentEffect
<1>2. /\ got[s] \in Chunks /\ spill[s] \in Chunks /\ tail[s] \in Chunks /\ hand[s] \in Chunks
      /\ pipe[s] \in Chunks /\ made[s] \in Nat /\ acc[s] \in Nat /\ hashed[s] \in Nat
  BY AtStream
<1>3. /\ Len(got[s]) \in Nat /\ Len(hand[s]) \in Nat
      /\ Len(got[s] \o hand[s]) = Len(got[s]) + Len(hand[s])
      /\ ToSet(got[s] \o hand[s]) = ToSet(got[s]) \union ToSet(hand[s])
  BY <1>2, Joined, LenProperties DEF Chunks
<1>4. inline[s] /\ spill[s] = <<>> /\ file[s] = "none"
  BY <1>1 DEF Local, PumpOK
<1>5. PumpOK(s)'
  BY <1>1 DEF Local, SameStore, PumpOK
<1>8. Sending(s) = Len(hand[s]) /\ Sending(s)' = 0 /\ file'[s] = "none" /\ Len(spill[s]) = 0 /\ Len(spill'[s]) = 0
  BY <1>1, <1>4, Empty DEF Sending, SameStore
<1>9. Counted("none", Len(got[s]), 0, acc[s], Len(hand[s]), loss[s], hashed[s])
  BY <1>4, <1>8 DEF Local, CountOK
<1>6. CASE got'[s] = got[s] \o hand[s] /\ acc'[s] = acc[s] + Len(hand[s]) /\ loss'[s] = loss[s]
  <2>1. FlowOK(s)'
    <3>1. Flow(got[s] \o hand[s], <<>>, tail[s], <<>>, pipe[s], made[s], file[s], "read")
      BY <1>1, <1>2, <1>4, FlowSend DEF Local, FlowOK
    <3> QED
      BY <1>1, <1>4, <1>6, <3>1 DEF FlowOK, SameInput, SameStore
  <2>2. CoverOK(s)'
    <3>1. Somewhere(s) \subseteq Somewhere(s)'
      BY <1>1, <1>3, <1>6 DEF Somewhere, SameInput, SameStore
    <3> QED
      BY <1>1, <1>6, <3>1 DEF Local, CoverOK, SameInput
  <2>3. CountOK(s)'
    <3>1. Counted("none", Len(got[s]) + Len(hand[s]), 0, acc[s] + Len(hand[s]), 0, loss[s], hashed[s])
      BY <1>2, <1>3, <1>9, CountSent
    <3> QED
      BY <1>1, <1>3, <1>6, <1>8, <3>1 DEF CountOK
  <2> QED
    BY <1>5, <2>1, <2>2, <2>3 DEF Local
<1>7. CASE got'[s] = got[s] /\ acc'[s] = acc[s] /\ loss'[s] = loss[s] \union {"send"}
  <2>1. FlowOK(s)'
    <3>1. Flow(got[s], spill[s], tail[s], <<>>, pipe[s], made[s], file[s], "read")
      BY <1>2, FlowDrop DEF Local, FlowOK
    <3> QED
      BY <1>1, <1>7, <3>1 DEF FlowOK, SameInput, SameStore
  <2>2. CoverOK(s)'
    BY <1>7 DEF CoverOK
  <2>3. CountOK(s)'
    <3>1. ~ (loss'[s] \subseteq {"limit"})
      BY <1>7
    <3>2. Counted("none", Len(got[s]), 0, acc[s], 0, loss'[s], hashed'[s])
      BY <1>2, <1>3, <1>9, <3>1, CountLost
    <3> QED
      BY <1>7, <1>8, <3>2 DEF CountOK
  <2> QED
    BY <1>5, <2>1, <2>2, <2>3 DEF Local
<1> QED
  BY <1>6, <1>7, SentEffect

LEMMA LocalPumpWrite ==
  ASSUME Shape, NEW s \in StreamSet, PumpWrite(s), Local(s) PROVE Local(s)'
<1>1. /\ SameInput(s) /\ got'[s] = got[s] /\ pump[s] = "hold"
  BY PumpWriteEffect
<1>2. PICK out, keep :
        /\ Redaction(s, out, keep) /\ tail'[s] = keep
        /\ \/ ToNowhere(s) /\ out = <<>>
           \/ ToLimit(s, out) \/ ToClient(s, out) \/ ToFile(s, out) \/ ToLoss(s, out)
  BY PumpWriteEffect
<1>3. /\ got[s] \in Chunks /\ spill[s] \in Chunks /\ tail[s] \in Chunks /\ hand[s] \in Chunks
      /\ pipe[s] \in Chunks /\ made[s] \in Nat /\ acc[s] \in Nat /\ hashed[s] \in Nat
  BY AtStream
<1>4. out \in Chunks /\ keep \in Chunks
  BY <1>2, RedactionTypes
<1>5. Len(got[s]) \in Nat /\ Len(spill[s]) \in Nat /\ Len(out) \in Nat
  BY <1>3, <1>4, LenProperties DEF Chunks
<1>6. Flow(got[s], spill[s], keep, out, pipe[s], made[s], file[s], "send")
  <2>1. Flow(got[s], spill[s], tail[s], hand[s], pipe[s], made[s], file[s], "hold")
    BY <1>1 DEF Local, FlowOK
  <2>2. \/ out = tail[s] \o hand[s] /\ keep = <<>>
        \/ out = tail[s] /\ keep = hand[s]
        \/ out = <<>> /\ keep = tail[s] \o hand[s]
    BY <1>2 DEF Redaction
  <2> QED
    BY <1>3, <2>1, <2>2, FlowRedact
<1>7. ToSet(tail[s]) \union ToSet(hand[s]) \subseteq ToSet(out) \union ToSet(keep)
  <2>1. CASE out = tail[s] \o hand[s]
    BY <1>3, <2>1, Joined
  <2>2. CASE out = tail[s] /\ keep = hand[s]
    BY <2>2
  <2>3. CASE keep = tail[s] \o hand[s]
    BY <1>3, <2>3, Joined
  <2> QED
    BY <1>2, <2>1, <2>2, <2>3 DEF Redaction
<1>8. Counted(file[s], Len(got[s]), Len(spill[s]), acc[s], 0, loss[s], hashed[s])
  <2>1. Sending(s) = 0
    BY <1>1 DEF Sending
  <2> QED
    BY <2>1 DEF Local, CountOK
<1>9. ASSUME ~ OverLimit(s, out)
      PROVE  Counted(file[s], Len(got[s]), Len(spill[s]), acc[s], Len(out), loss[s], hashed[s] + Len(out))
  <2>1. Limit > 0 => acc[s] + Len(out) <= Limit
    BY <1>3, <1>5, <1>9, BoundAssumption DEF OverLimit
  <2> QED
    BY <1>3, <1>5, <1>8, <2>1, CountTaken
<1>10. \A q : Flow(got[s], spill[s], keep, <<>>, pipe[s], made[s], file[s], q)
  BY <1>3, <1>4, <1>6, FlowDrop
<1>11. 1 .. made[s] \subseteq Somewhere(s) \/ loss[s] # {}
  BY DEF Local, CoverOK
<1>12. ASSUME Held(s), hand'[s] = <<>>, pump'[s] \in {"read", "done"} PROVE FlowOK(s)' /\ PumpOK(s)'
  <2>1. FlowOK(s)'
    BY <1>1, <1>2, <1>10, <1>12 DEF FlowOK, Held, SameStore, SameInput
  <2>2. PumpOK(s)'
    BY <1>1, <1>12 DEF Local, PumpOK, Held, SameStore
  <2> QED
    BY <2>1, <2>2
<1>13. pump'[s] \in {"read", "done"} => Sending(s)' = 0
  BY DEF Sending
<1>14. CASE ToNowhere(s) /\ out = <<>>
  <2>1. FlowOK(s)' /\ PumpOK(s)'
    BY <1>12, <1>14 DEF ToNowhere, Goes
  <2>2. CoverOK(s)'
    <3>1. Somewhere(s) \subseteq Somewhere(s)'
      BY <1>1, <1>2, <1>7, <1>14, Empty DEF Somewhere, SameInput, ToNowhere, Held, SameStore
    <3> QED
      BY <1>1, <1>11, <1>14, <3>1 DEF CoverOK, SameInput, ToNowhere
  <2>3. CountOK(s)'
    BY <1>1, <1>8, <1>13, <1>14 DEF CountOK, ToNowhere, Goes, Held, SameStore
  <2> QED
    BY <2>1, <2>2, <2>3 DEF Local
<1>15. CASE ToLimit(s, out)
  <2>1. FlowOK(s)' /\ PumpOK(s)'
    BY <1>12, <1>15 DEF ToLimit
  <2>2. CoverOK(s)'
    BY <1>15 DEF CoverOK, ToLimit
  <2>3. CountOK(s)'
    <3>1. Counted(file[s], Len(got[s]), Len(spill[s]), acc[s], 0, loss'[s], hashed[s])
      BY <1>8, <1>15 DEF Counted, ToLimit
    <3> QED
      BY <1>1, <1>13, <1>15, <3>1 DEF CountOK, ToLimit, Held, SameStore
  <2> QED
    BY <2>1, <2>2, <2>3 DEF Local
<1>16. CASE ToClient(s, out)
  <2>1. FlowOK(s)'
    BY <1>1, <1>2, <1>6, <1>16 DEF FlowOK, SameInput, ToClient, Held, SameStore
  <2>2. PumpOK(s)'
    BY <1>1, <1>16 DEF Local, PumpOK, ToClient, Held, SameStore
  <2>3. CoverOK(s)'
    <3>1. Somewhere(s) \subseteq Somewhere(s)'
      BY <1>1, <1>2, <1>7, <1>16 DEF Somewhere, SameInput, ToClient, Held, SameStore
    <3> QED
      BY <1>1, <1>11, <1>16, <3>1 DEF CoverOK, SameInput, ToClient
  <2>4. CountOK(s)'
    <3>1. Sending(s)' = Len(out)
      BY <1>16 DEF Sending, ToClient
    <3>2. Counted(file[s], Len(got[s]), Len(spill[s]), acc[s], Len(out), loss[s], hashed[s] + Len(out))
      BY <1>9, <1>16 DEF ToClient
    <3> QED
      BY <1>1, <1>16, <3>1, <3>2 DEF CountOK, ToClient, Held, SameStore
  <2> QED
    BY <2>1, <2>2, <2>3, <2>4 DEF Local
<1>17. CASE ToFile(s, out)
  <2>1. file[s] \in Unsent
    BY <1>17 DEF ToFile, Local, PumpOK, Unsent
  <2>2. /\ Len(spill[s] \o out) = Len(spill[s]) + Len(out)
        /\ ToSet(spill[s] \o out) = ToSet(spill[s]) \union ToSet(out)
    BY <1>3, <1>4, Joined
  <2>3. FlowOK(s)'
    <3>1. Flow(got[s], spill[s] \o out, keep, <<>>, pipe[s], made[s], "open", "read")
      BY <1>3, <1>4, <1>6, <2>1, FlowSpill
    <3> QED
      BY <1>1, <1>2, <1>17, <3>1 DEF FlowOK, SameInput, ToFile, Goes
  <2>4. PumpOK(s)'
    BY <1>17 DEF PumpOK, ToFile, Goes
  <2>5. CoverOK(s)'
    <3>1. Somewhere(s) \subseteq Somewhere(s)'
      BY <1>1, <1>2, <1>7, <1>17, <2>2 DEF Somewhere, SameInput, ToFile
    <3> QED
      BY <1>1, <1>11, <1>17, <3>1 DEF CoverOK, SameInput, ToFile
  <2>6. CountOK(s)'
    <3>1. Counted(file[s], Len(got[s]), Len(spill[s]), acc[s], Len(out), loss[s], hashed[s] + Len(out))
      BY <1>9, <1>17 DEF ToFile
    <3>2. Counted("open", Len(got[s]), Len(spill[s]) + Len(out), acc[s] + Len(out), 0, loss[s], hashed[s] + Len(out))
      BY <1>3, <1>5, <2>1, <3>1, CountSpilled
    <3>3. Sending(s)' = 0
      BY <1>13, <1>17 DEF ToFile, Goes
    <3> QED
      BY <1>1, <1>17, <2>2, <3>2, <3>3 DEF CountOK, ToFile
  <2> QED
    BY <2>3, <2>4, <2>5, <2>6 DEF Local
<1>18. CASE ToLoss(s, out)
  <2>1. FlowOK(s)' /\ PumpOK(s)'
    BY <1>12, <1>18 DEF ToLoss, Goes
  <2>2. CoverOK(s)'
    BY <1>18 DEF CoverOK, ToLoss
  <2>3. CountOK(s)'
    <3>0. "temp" \in loss'[s] \/ "late" \in loss'[s]
      BY <1>18 DEF ToLoss
    <3>1. ~ (loss'[s] \subseteq {"limit"})
      BY <3>0
    <3>2. Counted(file[s], Len(got[s]), Len(spill[s]), acc[s], 0, loss'[s], hashed'[s])
      BY <1>3, <1>5, <1>8, <3>1, CountLost
    <3> QED
      BY <1>1, <1>13, <1>18, <3>2 DEF CountOK, ToLoss, Goes, Held, SameStore
  <2> QED
    BY <2>1, <2>2, <2>3 DEF Local
<1> QED
  BY <1>2, <1>14, <1>15, <1>16, <1>17, <1>18

LEMMA LocalFlush ==
  ASSUME Shape, NEW s \in StreamSet, Local(s), Flushed(s), file[s] \in Unsent,
         FlushedNothing(s) \/ FlushedToClient(s) \/ FlushedToFile(s) \/ FlushLost(s)
  PROVE  Local(s)'
<1>1. tail'[s] = <<>> /\ SameInput(s) /\ SamePump(s) /\ pump[s] # "send"
  BY DEF Flushed
<1>2. /\ got[s] \in Chunks /\ spill[s] \in Chunks /\ tail[s] \in Chunks /\ hand[s] \in Chunks
      /\ pipe[s] \in Chunks /\ made[s] \in Nat /\ acc[s] \in Nat /\ hashed[s] \in Nat
  BY AtStream
<1>3. Len(got[s]) \in Nat /\ Len(spill[s]) \in Nat /\ Len(tail[s]) \in Nat
  BY <1>2, LenProperties DEF Chunks
<1>4. Flow(got[s], spill[s], tail[s], hand[s], pipe[s], made[s], file[s], pump[s])
  BY DEF Local, FlowOK
<1>5. Sending(s) = 0 /\ Sending(s)' = 0
  BY <1>1 DEF Sending, SamePump
<1>6. Counted(file[s], Len(got[s]), Len(spill[s]), acc[s], 0, loss[s], hashed[s])
  BY <1>5 DEF Local, CountOK
<1>7. ASSUME ~ OverLimit(s, tail[s])
      PROVE  Counted(file[s], Len(got[s]), Len(spill[s]), acc[s], Len(tail[s]), loss[s], hashed[s] + Len(tail[s]))
  <2>1. Limit > 0 => acc[s] + Len(tail[s]) <= Limit
    BY <1>2, <1>3, <1>7, BoundAssumption DEF OverLimit
  <2> QED
    BY <1>2, <1>3, <1>6, <2>1, CountTaken
<1>8. 1 .. made[s] \subseteq Somewhere(s) \/ loss[s] # {}
  BY DEF Local, CoverOK
<1>9. CASE FlushedNothing(s)
  <2>1. /\ inline'[s] = inline[s] /\ spill'[s] = spill[s] /\ got'[s] = got[s] /\ SameCount(s)
        /\ tail[s] = <<>>
    BY <1>9, Zenon DEF FlushedNothing
  <2>2. file'[s] = file[s] \/ (file[s] \in Unsent \ {"none"} /\ file'[s] = "closed")
    <3>1. CASE inline[s]
      BY <1>9, <3>1, Zenon DEF FlushedNothing
    <3>2. CASE ~ inline[s]
      <4>1. file'[s] = "closed"
        BY <1>9, <3>2, Zenon DEF FlushedNothing
      <4>2. file[s] # "none"
        BY <3>2, Zenon DEF Local, PumpOK
      <4> QED
        BY <4>1, <4>2
    <3> QED
      BY <3>1, <3>2
  <2> QED
    BY <1>1, <2>1, <2>2, LocalIdle DEF SamePump, SameCount
<1>10. CASE FlushedToClient(s)
  <2>1. file[s] = "none" /\ spill[s] = <<>>
    BY <1>10 DEF FlushedToClient, Local, PumpOK
  <2>2. /\ Len(got[s] \o tail[s]) = Len(got[s]) + Len(tail[s])
        /\ ToSet(got[s] \o tail[s]) = ToSet(got[s]) \union ToSet(tail[s])
    BY <1>2, Joined
  <2>3. FlowOK(s)'
    <3>1. Flow(got[s] \o tail[s], <<>>, <<>>, hand[s], pipe[s], made[s], file[s], pump[s])
      BY <1>1, <1>2, <1>4, <2>1, FlowSendTail
    <3> QED
      BY <1>1, <1>10, <2>1, <3>1 DEF FlowOK, SameInput, SamePump, FlushedToClient, SameStore
  <2>4. PumpOK(s)'
    BY <1>1, <1>10 DEF Local, PumpOK, FlushedToClient, SamePump, SameStore
  <2>5. CoverOK(s)'
    <3>1. Somewhere(s) \subseteq Somewhere(s)'
      BY <1>1, <1>10, <2>2 DEF Somewhere, SameInput, SamePump, FlushedToClient, SameStore
    <3> QED
      BY <1>1, <1>8, <1>10, <3>1 DEF CoverOK, SameInput, FlushedToClient
  <2>6. CountOK(s)'
    <3>1. Counted(file[s], Len(got[s]), Len(spill[s]), acc[s], Len(tail[s]), loss[s], hashed[s] + Len(tail[s]))
      BY <1>7, <1>10 DEF FlushedToClient
    <3>2. Len(spill[s]) = 0
      BY <2>1, Empty
    <3>3. Counted("none", Len(got[s]) + Len(tail[s]), 0, acc[s] + Len(tail[s]), 0, loss[s], hashed[s] + Len(tail[s]))
      BY <1>2, <1>3, <2>1, <3>1, <3>2, CountSent
    <3> QED
      BY <1>5, <1>10, <2>1, <2>2, <3>2, <3>3 DEF CountOK, FlushedToClient, SameStore
  <2> QED
    BY <2>3, <2>4, <2>5, <2>6 DEF Local
<1>11. CASE FlushedToFile(s)
  <2>2. /\ Len(spill[s] \o tail[s]) = Len(spill[s]) + Len(tail[s])
        /\ ToSet(spill[s] \o tail[s]) = ToSet(spill[s]) \union ToSet(tail[s])
    BY <1>2, Joined
  <2>3. FlowOK(s)'
    <3>1. Flow(got[s], spill[s] \o tail[s], <<>>, hand[s], pipe[s], made[s], "closed", pump[s])
      BY <1>1, <1>2, <1>4, FlowSpillTail
    <3> QED
      BY <1>1, <1>11, <3>1 DEF FlowOK, SameInput, SamePump, FlushedToFile
  <2>4. PumpOK(s)'
    BY <1>1, <1>11 DEF Local, PumpOK, FlushedToFile, SamePump
  <2>5. CoverOK(s)'
    <3>1. Somewhere(s) \subseteq Somewhere(s)'
      BY <1>1, <1>11, <2>2 DEF Somewhere, SameInput, SamePump, FlushedToFile
    <3> QED
      BY <1>1, <1>8, <1>11, <3>1 DEF CoverOK, SameInput, FlushedToFile
  <2>6. CountOK(s)'
    <3>1. Counted(file[s], Len(got[s]), Len(spill[s]), acc[s], Len(tail[s]), loss[s], hashed[s] + Len(tail[s]))
      BY <1>7, <1>11 DEF FlushedToFile
    <3>2. Counted("closed", Len(got[s]), Len(spill[s]) + Len(tail[s]), acc[s] + Len(tail[s]), 0, loss[s], hashed[s] + Len(tail[s]))
      BY <1>2, <1>3, <3>1, CountSpilled
    <3> QED
      BY <1>5, <1>11, <2>2, <3>2 DEF CountOK, FlushedToFile
  <2> QED
    BY <2>3, <2>4, <2>5, <2>6 DEF Local
<1>12. CASE FlushLost(s)
  <2>1. FlowOK(s)'
    <3>1. Flow(got[s], spill[s], <<>>, hand[s], pipe[s], made[s], file[s], pump[s])
      BY <1>2, <1>4, FlowDropTail
    <3> QED
      BY <1>1, <1>12, <3>1 DEF FlowOK, SameInput, SamePump, FlushLost, SameStore
  <2>2. PumpOK(s)'
    BY <1>1, <1>12 DEF Local, PumpOK, FlushLost, SamePump, SameStore
  <2>3. CoverOK(s)'
    BY <1>12 DEF CoverOK, FlushLost
  <2>4. CountOK(s)'
    <3>0. "flush" \in loss'[s]
      BY <1>12 DEF FlushLost
    <3>1. ~ (loss'[s] \subseteq {"limit"})
      BY <3>0
    <3>2. Counted(file[s], Len(got[s]), Len(spill[s]), acc[s], 0, loss'[s], hashed'[s])
      BY <1>2, <1>3, <1>6, <3>1, CountLost
    <3> QED
      BY <1>5, <1>12, <3>2 DEF CountOK, FlushLost, SameStore
  <2> QED
    BY <2>1, <2>2, <2>3, <2>4 DEF Local
<1> QED
  BY <1>9, <1>10, <1>11, <1>12

LEMMA LocalStream ==
  ASSUME Shape, StreamFile, NEW s \in StreamSet, s = Streams[fin], Local(s), file[s] \in Unsent,
         file[s] # "none"
  PROVE  Local(s)'
<1>1. /\ SameInput(s) /\ SamePump(s)
      /\ inline'[s] = inline[s] /\ spill'[s] = spill[s] /\ tail'[s] = tail[s]
      /\ acc'[s] = acc[s] /\ hashed'[s] = hashed[s]
  BY StreamEffect
<1>2. /\ got[s] \in Chunks /\ spill[s] \in Chunks /\ tail[s] \in Chunks /\ hand[s] \in Chunks
      /\ pipe[s] \in Chunks /\ made[s] \in Nat /\ acc[s] \in Nat
  BY AtStream
<1>3. Len(got[s]) \in Nat /\ Len(spill[s]) \in Nat /\ Len(hand[s]) \in Nat
  BY <1>2, LenProperties DEF Chunks
<1>4. Sending(s) \in Nat /\ Sending(s)' = Sending(s)
  BY <1>1, <1>3 DEF Sending, SamePump
<1>5. PICK v \in Chunks : /\ ToSet(v) \subseteq ToSet(spill[s]) /\ Incr(v) /\ Len(v) \in 0 .. Len(spill[s])
                          /\ got'[s] = got[s] \o v
  <2>0. Incr(spill[s])
    BY DEF Local, FlowOK, Flow
  <2>1. CASE got'[s] = got[s] \o spill[s]
    <3>1. Len(spill[s]) \in 0 .. Len(spill[s])
      BY <1>3
    <3> QED
      BY <1>2, <2>0, <2>1, <3>1
  <2>2. ASSUME NEW n \in 0 .. Len(spill[s]) - 1, got'[s] = got[s] \o SubSeq(spill[s], 1, n)
        PROVE  \E v \in Chunks : /\ ToSet(v) \subseteq ToSet(spill[s]) /\ Incr(v)
                                 /\ Len(v) \in 0 .. Len(spill[s]) /\ got'[s] = got[s] \o v
    <3> DEFINE v == SubSeq(spill[s], 1, n)
    <3>1. n \in 0 .. Len(spill[s])
      BY <1>3
    <3>2. v \in Chunks /\ Len(v) = n /\ ToSet(v) \subseteq ToSet(spill[s]) /\ Incr(v)
      BY <1>2, <2>0, <3>1, Cut
    <3> HIDE DEF v
    <3>3. got'[s] = got[s] \o v
      BY <2>2 DEF v
    <3> QED
      BY <3>1, <3>2, <3>3
  <2> QED
    BY <2>1, <2>2, StreamEffect
<1>6. /\ file'[s] \in {"cut", "removed"} /\ loss[s] \subseteq loss'[s]
  BY StreamEffect
<1>7. /\ Len(got[s] \o v) = Len(got[s]) + Len(v)
      /\ ToSet(got[s] \o v) = ToSet(got[s]) \union ToSet(v)
  BY <1>2, Joined
<1>8. FlowOK(s)'
  <2>1. Flow(got[s], spill[s], tail[s], hand[s], pipe[s], made[s], file[s], pump[s])
    BY DEF Local, FlowOK
  <2>2. file'[s] \notin Unsent /\ file[s] \in Unsent
    BY <1>6 DEF Unsent
  <2>3. Flow(got[s] \o v, spill[s], tail[s], hand[s], pipe[s], made[s], file'[s], pump[s])
    BY <1>2, <1>5, <2>1, <2>2, FlowStream
  <2> QED
    BY <1>1, <1>5, <2>3 DEF FlowOK, SameInput, SamePump
<1>9. PumpOK(s)'
  BY <1>1, <1>6 DEF Local, PumpOK, SamePump
<1>10. CoverOK(s)'
  <2>1. Somewhere(s) \subseteq Somewhere(s)'
    BY <1>1, <1>5, <1>7 DEF Somewhere, SameInput, SamePump
  <2> QED
    BY <1>1, <1>6, <2>1 DEF Local, CoverOK, SameInput
<1>11. CountOK(s)'
  <2>1. Counted(file[s], Len(got[s]), Len(spill[s]), acc[s], Sending(s), loss[s], hashed[s])
    BY DEF Local, CountOK
  <2>2. file'[s] \notin Unsent /\ file[s] \in Unsent
    BY <1>6 DEF Unsent
  <2>3. Counted(file'[s], Len(got[s]) + Len(v), Len(spill[s]), acc[s], Sending(s), loss'[s], hashed[s])
    BY <1>2, <1>3, <1>4, <1>5, <1>6, <2>1, <2>2, CountStreamed
  <2> QED
    BY <1>1, <1>4, <1>5, <1>7, <2>3 DEF CountOK
<1> QED
  BY <1>8, <1>9, <1>10, <1>11 DEF Local
-----------------------------------------------------------------------------
(* The step that Next takes keeps the types.                                *)
ExitTypes ==
  /\ atExit \in [StreamSet -> Nat]
  /\ \A x \in StreamSet : atExit[x] <= made[x] /\ made[x] <= MaxChunks[x]

LEMMA ShapedBack ==
  ASSUME Shape', ExitTypes' PROVE ChunkTypes' /\ BufferTypes' /\ (inline \in [StreamSet -> BOOLEAN])'
BY DEF Shape, ExitTypes, ChunkTypes, BufferTypes, Chunks, Files

LEMMA ExitTyped == ASSUME TypeOK PROVE ExitTypes
BY DEF TypeOK, ChunkTypes, ExitTypes

LEMMA ExitKept ==
  ASSUME ExitTypes, Shape, UNCHANGED made, UNCHANGED atExit \/ atExit' = made PROVE ExitTypes'
BY BoundAssumption DEF ExitTypes, Shape

LEMMA LeaderExit ==
  ASSUME NEW how, LeaderDies(how) PROVE UNCHANGED atExit \/ atExit' = made
<1>1. CASE proc = "running"
  BY <1>1 DEF LeaderDies
<1>2. CASE proc # "running"
  BY <1>2 DEF LeaderDies
<1> QED
  BY <1>1, <1>2

(* Storing a value of the right type in one place.                          *)
LEMMA StoreChunks ==
  ASSUME NEW v \in [StreamSet -> Chunks], NEW s \in StreamSet, NEW e \in Chunks
  PROVE  [v EXCEPT ![s] = e] \in [StreamSet -> Chunks]
OBVIOUS

LEMMA ShapeWrite == ASSUME Shape, ExitTypes, NEW s \in StreamSet, ToolWrites(s) PROVE Shape' /\ ExitTypes'
<1> DEFINE e == Append(pipe[s], made[s] + 1)
<1>1. e \in Chunks
  BY AtStream, Written
<1>2. pipe' = [pipe EXCEPT ![s] = e]
  BY DEF ToolWrites
<1> HIDE DEF e
<1>3. pipe' \in [StreamSet -> Chunks]
  BY <1>1, <1>2, StoreChunks DEF Shape
<1>4. made' = [made EXCEPT ![s] = made[s] + 1] /\ made[s] < MaxChunks[s] /\ atExit' = atExit
  BY DEF ToolWrites
<1>5. made' \in [StreamSet -> Nat] /\ ExitTypes'
  <2>1. made[s] \in Nat /\ MaxChunks[s] \in Nat /\ atExit[s] \in Nat /\ atExit[s] <= made[s]
    BY BoundAssumption DEF Shape, ExitTypes
  <2>2. made' \in [StreamSet -> Nat] /\ made'[s] = made[s] + 1 /\ \A x \in StreamSet \ {s} : made'[x] = made[x]
    BY <1>4, <2>1 DEF Shape
  <2>3. atExit'[s] <= made'[s] /\ made'[s] <= MaxChunks[s]
    BY <1>4, <2>1, <2>2
  <2> QED
    BY <1>4, <2>2, <2>3 DEF ExitTypes
<1>6. UNCHANGED <<got, spill, tail, hand, acc, hashed, pump, file, loss, inline>>
  BY DEF ToolWrites, pumpVars, bufVars
<1> QED
  BY <1>3, <1>5, <1>6 DEF Shape

LEMMA ShapeRead == ASSUME Shape, NEW s \in StreamSet, PumpRead(s) PROVE Shape'
<1> DEFINE e == <<Head(pipe[s])>>
           r == Tail(pipe[s])
<1>1. e \in Chunks /\ r \in Chunks
  BY AtStream, Split DEF PumpRead
<1>2. pipe' = [pipe EXCEPT ![s] = r] /\ hand' = [hand EXCEPT ![s] = e]
  BY DEF PumpRead
<1> HIDE DEF e, r
<1>3. pipe' \in [StreamSet -> Chunks] /\ hand' \in [StreamSet -> Chunks]
  BY <1>1, <1>2, StoreChunks DEF Shape
<1>4. pump' \in [StreamSet -> {"off", "read", "hold", "send", "done"}]
  BY DEF PumpRead, Shape
<1>6. UNCHANGED <<got, spill, tail, made, acc, hashed, file, loss, inline>>
  BY DEF PumpRead, bufVars
<1> QED
  BY <1>3, <1>4, <1>6 DEF Shape

LEMMA ShapeEnds == ASSUME Shape, NEW s \in StreamSet, PumpEnds(s) PROVE Shape'
BY DEF PumpEnds, Shape, bufVars, toolVars

LEMMA ShapeLose ==
  ASSUME Shape, NEW s \in StreamSet, NEW why \in Losses, Lose(s, why)
  PROVE  loss' \in [StreamSet -> SUBSET Losses]
BY DEF Lose, Shape

LEMMA ShapeContinue ==
  ASSUME Shape, NEW s \in StreamSet, PumpContinues(s)
  PROVE  /\ hand' \in [StreamSet -> Chunks]
         /\ pump' \in [StreamSet -> {"off", "read", "hold", "send", "done"}]
<1>1. hand' = [hand EXCEPT ![s] = <<>>]
  BY DEF PumpContinues
<1>2. hand' \in [StreamSet -> Chunks]
  BY <1>1, Empty, StoreChunks DEF Shape
<1>3. pump' \in [StreamSet -> {"off", "read", "hold", "send", "done"}]
  BY DEF PumpContinues, Shape
<1> QED
  BY <1>2, <1>3

LEMMA ShapeDeliver ==
  ASSUME Shape, NEW s \in StreamSet, NEW v \in Chunks, Deliver(s, v) PROVE got' \in [StreamSet -> Chunks]
<1> DEFINE e == got[s] \o v
<1>1. e \in Chunks
  BY AtStream, Joined
<1>2. got' = [got EXCEPT ![s] = e]
  BY DEF Deliver
<1> HIDE DEF e
<1> QED
  BY <1>1, <1>2, StoreChunks DEF Shape

LEMMA ShapeAppend ==
  ASSUME Shape, NEW s \in StreamSet, NEW v \in Chunks, AppendsToFile(s, v) PROVE spill' \in [StreamSet -> Chunks]
<1> DEFINE e == spill[s] \o v
<1>1. e \in Chunks
  BY AtStream, Joined
<1>2. spill' = [spill EXCEPT ![s] = e]
  BY DEF AppendsToFile
<1> HIDE DEF e
<1> QED
  BY <1>1, <1>2, StoreChunks DEF Shape

LEMMA ShapeCount ==
  ASSUME Shape, NEW s \in StreamSet, NEW v \in Chunks, acc' = [acc EXCEPT ![s] = @ + Len(v)]
  PROVE  acc' \in [StreamSet -> Nat]
<1>1. Len(v) \in Nat
  BY LenProperties DEF Chunks
<1>2. acc' = [acc EXCEPT ![s] = acc[s] + Len(v)]
  OBVIOUS
<1> QED
  BY <1>1, <1>2 DEF Shape

LEMMA ShapeHash ==
  ASSUME Shape, NEW s \in StreamSet, NEW v \in Chunks, TakenByHash(s, v)
  PROVE  hashed' \in [StreamSet -> Nat]
<1>1. Len(v) \in Nat /\ hashed[s] \in Nat
  BY LenProperties, AtStream DEF Chunks
<1>2. CASE OverLimit(s, v)
  <2>1. hashed' = [hashed EXCEPT ![s] = hashed[s]]
    BY <1>2 DEF TakenByHash
  <2> QED
    BY <2>1 DEF Shape
<1>3. CASE ~ OverLimit(s, v)
  <2>1. hashed' = [hashed EXCEPT ![s] = hashed[s] + Len(v)]
    BY <1>3 DEF TakenByHash
  <2> QED
    BY <1>1, <2>1 DEF Shape
<1> QED
  BY <1>2, <1>3

LEMMA ShapeSent == ASSUME Shape, NEW s \in StreamSet, PumpSent(s) PROVE Shape'
<1>1. /\ UNCHANGED <<pipe, made, tail, inline, hashed, file, spill>> /\ PumpContinues(s) /\ hand[s] \in Chunks
  BY AtStream DEF PumpSent, toolVars
<1>2. CASE Deliver(s, hand[s]) /\ acc' = [acc EXCEPT ![s] = @ + Len(hand[s])] /\ UNCHANGED loss
  <2>1. got' \in [StreamSet -> Chunks] /\ acc' \in [StreamSet -> Nat]
    BY <1>1, <1>2, ShapeDeliver, ShapeCount
  <2> QED
    BY <1>1, <1>2, <2>1, ShapeContinue DEF Shape
<1>3. CASE Lose(s, "send") /\ UNCHANGED <<got, acc>>
  <2>1. loss' \in [StreamSet -> SUBSET Losses]
    BY <1>3, ShapeLose DEF Losses
  <2> QED
    BY <1>1, <1>3, <2>1, ShapeContinue DEF Shape
<1> QED
  BY <1>2, <1>3 DEF PumpSent

LEMMA ShapePumpWrite ==
  ASSUME Shape, ExitTypes, NEW s \in StreamSet, PumpWrite(s) PROVE Shape' /\ ExitTypes'
<1>1. PICK r \in Redacted(s) :
        /\ tail' = [tail EXCEPT ![s] = r.keep] /\ TakenByHash(s, r.out)
        /\ IF r.out = <<>> THEN WriteNothing(s)
           ELSE \/ WriteOverLimit(s, r.out) \/ WriteInline(s, r.out)
                \/ WriteSpill(s, r.out) \/ WriteFile(s, r.out)
  BY DEF PumpWrite
<1> DEFINE out == r.out
           keep == r.keep
<1>2. out \in Chunks /\ keep \in Chunks
  BY RedactionOf, RedactionTypes
<1> HIDE DEF out, keep
<1>3. /\ tail' = [tail EXCEPT ![s] = keep] /\ TakenByHash(s, out)
      /\ \/ WriteNothing(s)
         \/ WriteOverLimit(s, out) \/ WriteInline(s, out) \/ WriteSpill(s, out) \/ WriteFile(s, out)
  BY <1>1 DEF out, keep
<1>4. /\ tail' \in [StreamSet -> Chunks] /\ hashed' \in [StreamSet -> Nat]
      /\ pipe' = pipe /\ made' = made /\ got' = got
  BY <1>2, <1>3, StoreChunks, ShapeHash DEF Shape, PumpWrite
<1> DEFINE Rest == /\ pump' \in [StreamSet -> {"off", "read", "hold", "send", "done"}]
                   /\ hand' \in [StreamSet -> Chunks] /\ spill' \in [StreamSet -> Chunks]
                   /\ acc' \in [StreamSet -> Nat] /\ loss' \in [StreamSet -> SUBSET Losses]
                   /\ file' \in [StreamSet -> Files]
                   /\ inline' \in [StreamSet -> BOOLEAN]
                   /\ UNCHANGED atExit \/ atExit' = made
<1>5. ASSUME WriteNothing(s) PROVE Rest
  <2>1. PumpContinues(s) /\ UNCHANGED <<inline, acc, file, spill, loss, atExit>>
    BY <1>5 DEF WriteNothing
  <2> QED
    BY <2>1, ShapeContinue DEF Shape
<1>6. ASSUME WriteOverLimit(s, out) PROVE Rest
  <2>1. /\ UNCHANGED <<inline, acc, file, spill>> /\ Lose(s, "limit") /\ LeaderDies("killed")
        /\ pump' = [pump EXCEPT ![s] = "done"] /\ hand' = [hand EXCEPT ![s] = <<>>]
    BY <1>6 DEF WriteOverLimit, KillGroup
  <2>2. loss' \in [StreamSet -> SUBSET Losses]
    BY <2>1, ShapeLose DEF Losses
  <2>3. hand' \in [StreamSet -> Chunks]
    BY <2>1, Empty, StoreChunks DEF Shape
  <2>4. pump' \in [StreamSet -> {"off", "read", "hold", "send", "done"}]
    BY <2>1 DEF Shape
  <2>5. UNCHANGED atExit \/ atExit' = made
    BY <2>1, LeaderExit
  <2> QED
    BY <2>1, <2>2, <2>3, <2>4, <2>5 DEF Shape
<1>7. ASSUME WriteInline(s, out) PROVE Rest
  <2>1. /\ UNCHANGED <<inline, acc, file, spill, loss, atExit>>
        /\ pump' = [pump EXCEPT ![s] = "send"] /\ hand' = [hand EXCEPT ![s] = out]
    BY <1>7 DEF WriteInline
  <2>3. hand' \in [StreamSet -> Chunks]
    BY <1>2, <2>1, StoreChunks DEF Shape
  <2>4. pump' \in [StreamSet -> {"off", "read", "hold", "send", "done"}]
    BY <2>1 DEF Shape
  <2> QED
    BY <2>1, <2>3, <2>4 DEF Shape
<1>8. ASSUME WriteSpill(s, out) PROVE Rest
  <2>1. PumpContinues(s) /\ UNCHANGED atExit
    BY <1>8 DEF WriteSpill
  <2>2. CASE /\ inline' = [inline EXCEPT ![s] = FALSE] /\ file' = [file EXCEPT ![s] = "open"]
             /\ AppendsToFile(s, out) /\ acc' = [acc EXCEPT ![s] = @ + Len(out)] /\ UNCHANGED loss
    <3>1. inline' \in [StreamSet -> BOOLEAN]
      BY <2>2, Zenon DEF Shape
    <3>2. file' \in [StreamSet -> Files]
      BY <2>2 DEF Shape, Files
    <3>3. spill' \in [StreamSet -> Chunks] /\ acc' \in [StreamSet -> Nat]
      BY <1>2, <2>2, ShapeAppend, ShapeCount
    <3> QED
      BY <2>1, <2>2, <3>1, <3>2, <3>3, ShapeContinue DEF Shape
  <2>3. CASE Lose(s, "temp") /\ UNCHANGED <<inline, file, spill, acc>>
    <3>1. loss' \in [StreamSet -> SUBSET Losses]
      BY <2>3, ShapeLose DEF Losses
    <3> QED
      BY <2>1, <2>3, <3>1, ShapeContinue DEF Shape
  <2> QED
    BY <1>8, <2>2, <2>3 DEF WriteSpill
<1>9. ASSUME WriteFile(s, out) PROVE Rest
  <2>1. PumpContinues(s) /\ UNCHANGED <<inline, file, atExit>>
    BY <1>9 DEF WriteFile
  <2>2. CASE AppendsToFile(s, out) /\ acc' = [acc EXCEPT ![s] = @ + Len(out)] /\ UNCHANGED loss
    <3>3. spill' \in [StreamSet -> Chunks] /\ acc' \in [StreamSet -> Nat]
      BY <1>2, <2>2, ShapeAppend, ShapeCount
    <3> QED
      BY <2>1, <2>2, <3>3, ShapeContinue DEF Shape
  <2>3. CASE Lose(s, "late") /\ UNCHANGED <<spill, acc>>
    <3>1. loss' \in [StreamSet -> SUBSET Losses]
      BY <2>3, ShapeLose DEF Losses
    <3> QED
      BY <2>1, <2>3, <3>1, ShapeContinue DEF Shape
  <2> QED
    BY <1>9, <2>2, <2>3 DEF WriteFile
<1>10. Rest
  BY <1>3, <1>5, <1>6, <1>7, <1>8, <1>9
<1>11. ExitTypes'
  BY <1>4, <1>10, ExitKept
<1> QED
  BY <1>4, <1>10, <1>11 DEF Shape

LEMMA ShapeFinalize ==
  ASSUME Shape, FinalizeStream, NEW s \in StreamSet, s = Streams[fin] PROVE Shape'
<1>1. /\ UNCHANGED <<pipe, made, pump, hand, loss>> /\ Flush(s) /\ tail[s] \in Chunks
      /\ tail' = [tail EXCEPT ![s] = <<>>] /\ TakenByHash(s, tail[s])
  BY AtStream DEF FinalizeStream, Flush, toolVars, pumpVars
<1>2. tail' \in [StreamSet -> Chunks] /\ hashed' \in [StreamSet -> Nat]
  BY <1>1, Empty, StoreChunks, ShapeHash DEF Shape
<1>3. CASE tail[s] = <<>>
  <2>1. /\ file' = [file EXCEPT ![s] = IF inline[s] THEN @ ELSE "closed"]
        /\ UNCHANGED <<got, acc, spill, inline>>
    BY <1>1, <1>3 DEF Flush
  <2>2. file' \in [StreamSet -> Files]
    BY <2>1 DEF Shape, Files
  <2> QED
    BY <1>1, <1>2, <2>1, <2>2 DEF Shape
<1>4. CASE tail[s] # <<>>
  <2>1. acc' = [acc EXCEPT ![s] = @ + Len(tail[s])]
    BY <1>1, <1>4 DEF Flush
  <2>2. acc' \in [StreamSet -> Nat]
    BY <1>1, <2>1, ShapeCount
  <2>3. CASE Deliver(s, tail[s]) /\ UNCHANGED <<file, spill, inline>>
    <3>1. got' \in [StreamSet -> Chunks]
      BY <1>1, <2>3, ShapeDeliver
    <3> QED
      BY <1>1, <1>2, <2>2, <2>3, <3>1 DEF Shape
  <2>4. CASE /\ inline' = [inline EXCEPT ![s] = FALSE] /\ file' = [file EXCEPT ![s] = "closed"]
             /\ AppendsToFile(s, tail[s]) /\ UNCHANGED got
    <3>1. inline' \in [StreamSet -> BOOLEAN]
      BY <2>4, Zenon DEF Shape
    <3>2. file' \in [StreamSet -> Files]
      BY <2>4 DEF Shape, Files
    <3>3. spill' \in [StreamSet -> Chunks]
      BY <1>1, <2>4, ShapeAppend
    <3> QED
      BY <1>1, <1>2, <2>2, <2>4, <3>1, <3>2, <3>3 DEF Shape
  <2> QED
    BY <1>1, <1>4, <2>3, <2>4 DEF Flush
<1> QED
  BY <1>3, <1>4

LEMMA ShapeFlushFails ==
  ASSUME Shape, FlushFails, NEW s \in StreamSet, s = Streams[fin] PROVE Shape'
<1>1. /\ UNCHANGED <<pipe, made, pump, hand, inline, acc, file, spill, got>> /\ tail[s] \in Chunks
      /\ tail' = [tail EXCEPT ![s] = <<>>] /\ TakenByHash(s, tail[s]) /\ Lose(s, "flush")
  BY AtStream DEF FlushFails, toolVars, pumpVars
<1>2. tail' \in [StreamSet -> Chunks] /\ hashed' \in [StreamSet -> Nat]
  BY <1>1, Empty, StoreChunks, ShapeHash DEF Shape
<1>3. loss' \in [StreamSet -> SUBSET Losses]
  BY <1>1, ShapeLose DEF Losses
<1> QED
  BY <1>1, <1>2, <1>3 DEF Shape

LEMMA ShapeStream ==
  ASSUME Shape, StreamFile, NEW s \in StreamSet, s = Streams[fin] PROVE Shape'
<1>1. UNCHANGED <<pipe, made, pump, hand, tail, inline, acc, hashed, spill>> /\ spill[s] \in Chunks
  BY AtStream DEF StreamFile, toolVars, pumpVars
<1>2. CASE Deliver(s, spill[s]) /\ file' = [file EXCEPT ![s] = "removed"] /\ UNCHANGED loss
  <2>1. got' \in [StreamSet -> Chunks]
    BY <1>1, <1>2, ShapeDeliver
  <2>2. file' \in [StreamSet -> Files]
    BY <1>2 DEF Shape, Files
  <2> QED
    BY <1>1, <1>2, <2>1, <2>2 DEF Shape
<1>3. ASSUME NEW n \in 0 .. Len(spill[s]) - 1, Deliver(s, SubSeq(spill[s], 1, n)),
             Lose(s, "send"), file' = [file EXCEPT ![s] = "cut"]
      PROVE  Shape'
  <2>0. n \in 0 .. Len(spill[s])
    BY <1>1, LenProperties DEF Chunks
  <2>1. SubSeq(spill[s], 1, n) \in Chunks
    BY <1>1, <2>0, Cut
  <2>2. got' \in [StreamSet -> Chunks]
    BY <1>3, <2>1, ShapeDeliver
  <2>3. file' \in [StreamSet -> Files]
    BY <1>3 DEF Shape, Files
  <2>4. loss' \in [StreamSet -> SUBSET Losses]
    BY <1>3, ShapeLose DEF Losses
  <2> QED
    BY <1>1, <2>2, <2>3, <2>4 DEF Shape
<1> QED
  BY <1>2, <1>3 DEF StreamFile
-----------------------------------------------------------------------------
(* The streams are finalized one after the other.                           *)
LEMMA StreamsAt ==
  /\ Len(Streams) \in Nat \ {0} /\ StreamSet = {Streams[i] : i \in 1 .. Len(Streams)}
  /\ \A i, j \in 1 .. Len(Streams) : Streams[i] = Streams[j] => i = j
<1>1. Len(Streams) \in Nat /\ DOMAIN Streams = 1 .. Len(Streams)
  BY StreamAssumption, LenProperties
<1>2. Len(Streams) # 0
  BY StreamAssumption, EmptySeq
<1>3. StreamSet = {Streams[i] : i \in DOMAIN Streams}
  BY DEF StreamSet, ToSet
<1>4. \A i, j \in DOMAIN Streams : Streams[i] = Streams[j] => i = j
  BY StreamAssumption DEF IsInjective
<1> QED
  BY <1>1, <1>2, <1>3, <1>4

LEMMA Target ==
  ASSUME TypeOK, MainOK, main \in {"finalize", "stream"}
  PROVE  /\ fin \in 1 .. Len(Streams) /\ Streams[fin] \in StreamSet /\ ~ Finalized(Streams[fin])
<1>1. fin \in 1 .. Len(Streams)
  BY StreamsAt DEF TypeOK, ControlTypes, MainOK
<1>2. Streams[fin] \in StreamSet
  BY <1>1, StreamsAt
<1>3. ASSUME NEW i \in 1 .. fin - 1 PROVE Streams[i] # Streams[fin]
  <2>1. i \in 1 .. Len(Streams) /\ i # fin
    BY <1>1, StreamsAt
  <2> QED
    BY <1>1, <2>1, StreamsAt
<1> QED
  BY <1>1, <1>2, <1>3 DEF Finalized

LEMMA TargetFile ==
  ASSUME TypeOK, MainOK, main \in {"finalize", "stream"}, NEW s, s = Streams[fin],
         PumpOK(s), FinalOK(s)
  PROVE  file[s] \in Unsent /\ (main = "stream" => file[s] # "none")
<1>1. ~ Finalized(s) /\ main \notin {"audit", "report", "cleanup", "sweep", "end"}
  BY Target
<1>2. CASE inline[s]
  <2>1. file[s] = "none"
    BY <1>2 DEF PumpOK
  <2>2. main # "stream"
    BY <1>2 DEF FinalOK
  <2> QED
    BY <2>1, <2>2 DEF Unsent
<1>3. CASE ~ inline[s]
  <2>1. file[s] # "none"
    BY <1>3 DEF PumpOK
  <2> QED
    BY <1>1, <1>3, <2>1 DEF FinalOK
<1> QED
  BY <1>2, <1>3

(* The main goroutine and the processes.                                    *)
LEMMA ControlStep ==
  ASSUME TypeOK, MainOK, [Next]_vars
  PROVE  ControlTypes' /\ MainOK' /\ (sigterm \in BOOLEAN)'
<1> DEFINE Goal == ControlTypes' /\ MainOK' /\ (sigterm \in BOOLEAN)'
<1> USE StreamsAt DEF ControlTypes, MainOK, PastDrain
<1>0. ControlTypes /\ sigterm \in BOOLEAN
  BY DEF TypeOK, FlagsOK
<1>1. ASSUME NEW s \in StreamSet, ToolWrites(s) \/ PumpRead(s) \/ PumpEnds(s) PROVE Goal
  <2>1. UNCHANGED <<main, fin, term, audits, proc, exit, desc, ctx, watch, sigterm, client>>
    BY <1>1 DEF ToolWrites, PumpRead, PumpEnds, procVars, reportVars
  <2> QED
    BY <1>0, <2>1
<1>2. ASSUME NEW kind \in {"group", "detached"}, ToolForks(kind) PROVE Goal
  BY <1>0, <1>2 DEF ToolForks, reportVars
<1>3. ASSUME DescendantExits PROVE Goal
  BY <1>0, <1>3 DEF DescendantExits, reportVars
<1>4. ASSUME NEW how \in {"zero", "other"}, ToolExits(how) PROVE Goal
  BY <1>0, <1>4 DEF ToolExits, LeaderDies, reportVars
<1>5. ASSUME ContextExpires PROVE Goal
  BY <1>0, <1>5 DEF ContextExpires, reportVars
<1>6. ASSUME ExecKill PROVE Goal
  BY <1>0, <1>6 DEF ExecKill, LeaderDies, reportVars
<1>7. ASSUME Reap PROVE Goal
  BY <1>0, <1>7 DEF Reap, reportVars
<1>8. ASSUME NEW state \in {"reading", "stalled", "gone"}, ClientChanges(state) PROVE Goal
  BY <1>0, <1>8 DEF ClientChanges, procVars, reportVars
<1>9. ASSUME NEW s \in StreamSet, PumpWrite(s) PROVE Goal
  <2>1. UNCHANGED <<main, fin, term, audits, ctx, watch, sigterm, client>>
    BY <1>9 DEF PumpWrite, reportVars
  <2>2. UNCHANGED <<proc, exit, desc>> \/ KillGroup
    BY <1>9 DEF PumpWrite, WriteNothing, WriteOverLimit, WriteInline, WriteSpill, WriteFile
  <2> QED
    BY <1>0, <2>1, <2>2 DEF KillGroup, LeaderDies
<1>10. ASSUME NEW s \in StreamSet, PumpSent(s) PROVE Goal
  <2>1. UNCHANGED <<main, fin, term, audits, proc, exit, desc, ctx, watch, sigterm>>
    BY <1>10 DEF PumpSent, procVars, reportVars
  <2>2. client' \in {client, "gone"}
    BY <1>10 DEF PumpSent, SendSucceeds, SendFails
  <2> QED
    BY <1>0, <2>1, <2>2
<1>11. ASSUME StartProcess PROVE Goal
  BY <1>0, <1>11 DEF StartProcess, reportVars
<1>12. ASSUME StartFails PROVE Goal
  BY <1>0, <1>12 DEF StartFails, Error, SendSucceeds, SendFails, procVars
<1>13. ASSUME SelectExit PROVE Goal
  BY <1>0, <1>13 DEF SelectExit, procVars, reportVars
<1>14. ASSUME SelectWaitError PROVE Goal
  BY <1>0, <1>14 DEF SelectWaitError, Error, SendSucceeds, SendFails, procVars
<1>15. ASSUME SelectTimeout PROVE Goal
  BY <1>0, <1>15 DEF SelectTimeout, reportVars
<1>16. ASSUME GraceEnds PROVE Goal
  BY <1>0, <1>16 DEF GraceEnds, KillGroup, LeaderDies, reportVars
<1>17. ASSUME DrainEnds PROVE Goal
  <2>1. main = "drain" /\ main' = "finalize" /\ UNCHANGED <<fin, term, audits, proc, exit, desc, ctx, watch, sigterm, client>>
    BY <1>17 DEF DrainEnds, procVars, reportVars
  <2> QED
    BY <1>0, <2>1
<1>18. ASSUME main \in {"finalize", "stream"}, NextStream \/ (main' = "stream" /\ UNCHANGED fin),
              UNCHANGED <<term, audits, proc, exit, desc, ctx, watch, sigterm>>, client' \in {client, "gone"}
       PROVE  Goal
  BY <1>0, <1>18 DEF NextStream
<1>19. ASSUME FinalizeStream PROVE Goal
  <2>1. UNCHANGED <<term, audits, proc, exit, desc, ctx, watch, sigterm>> /\ main \in {"finalize", "stream"}
    BY <1>19 DEF FinalizeStream, procVars, reportVars
  <2>2. client' \in {client, "gone"}
    BY <1>19 DEF FinalizeStream, Flush, SendSucceeds
  <2>3. NextStream \/ (main' = "stream" /\ UNCHANGED fin)
    BY <1>19 DEF FinalizeStream
  <2> QED
    BY <1>18, <2>1, <2>2, <2>3
<1>20. ASSUME FlushFails PROVE Goal
  <2>1. UNCHANGED <<term, audits, proc, exit, desc, ctx, watch, sigterm>> /\ main \in {"finalize", "stream"}
    BY <1>20 DEF FlushFails, procVars, reportVars
  <2>2. client' \in {client, "gone"}
    BY <1>20 DEF FlushFails, SendFails
  <2>3. NextStream
    BY <1>20 DEF FlushFails, AfterFailure
  <2> QED
    BY <1>18, <2>1, <2>2, <2>3
<1>21. ASSUME StreamFile PROVE Goal
  <2>1. UNCHANGED <<term, audits, proc, exit, desc, ctx, watch, sigterm>> /\ main \in {"finalize", "stream"}
    BY <1>21 DEF StreamFile, procVars, reportVars
  <2>2. client' \in {client, "gone"}
    BY <1>21 DEF StreamFile, SendSucceeds, SendFails
  <2>3. NextStream
    BY <1>21 DEF StreamFile
  <2> QED
    BY <1>18, <2>1, <2>2, <2>3
<1>22. ASSUME Audit PROVE Goal
  BY <1>0, <1>22 DEF Audit, procVars
<1>23. ASSUME SendDone PROVE Goal
  <2>1. term' \in {"done", "timeout"}
    BY <1>23 DEF SendDone
  <2>2. main = "report" /\ main' = "cleanup" /\ client' \in {client, "gone"}
        /\ UNCHANGED <<fin, proc, exit, desc, ctx, watch, sigterm, audits>>
    BY <1>23 DEF SendDone, SendSucceeds, SendFails, procVars
  <2> QED
    BY <1>0, <2>1, <2>2
<1>24. ASSUME CleanupProcess PROVE Goal
  BY <1>0, <1>24 DEF CleanupProcess, KillGroup, LeaderDies, reportVars
<1>25. ASSUME CleanupBuffers PROVE Goal
  BY <1>0, <1>25 DEF CleanupBuffers, procVars, reportVars
<1>26. ASSUME UNCHANGED vars PROVE Goal
  BY <1>0, <1>26 DEF vars, procVars, reportVars
<1> QED
  BY <1>1, <1>2, <1>3, <1>4, <1>5, <1>6, <1>7, <1>8, <1>9, <1>10, <1>11, <1>12, <1>13, <1>14, <1>15,
     <1>16, <1>17, <1>19, <1>20, <1>21, <1>22, <1>23, <1>24, <1>25, <1>26
     DEF Next, MainStep, PumpStep, ToolStep, ClientStep, Finished
-----------------------------------------------------------------------------
(* The data of every stream keeps its types and its local invariants.       *)
Quiet ==
  /\ UNCHANGED <<pipe, made, pump, hand, tail, inline, acc, hashed, file, spill, got, loss>>
  /\ UNCHANGED atExit \/ atExit' = made

LEMMA QuietSame == ASSUME Quiet, NEW x \in StreamSet PROVE Same(x)
BY DEF Quiet, Same, SameInput, SamePump, SameStore, SameCount

LEMMA QuietShape == ASSUME Quiet, Shape, ExitTypes PROVE Shape' /\ ExitTypes'
<1>1. Shape'
  BY DEF Quiet, Shape
<1>2. ExitTypes'
  BY ExitKept DEF Quiet
<1> QED
  BY <1>1, <1>2

QuietStep ==
  \/ \E kind \in {"group", "detached"} : ToolForks(kind)
  \/ DescendantExits \/ ContextExpires \/ Reap
  \/ \E how \in {"zero", "other"} : ToolExits(how)
  \/ ExecKill \/ ClientStep \/ UNCHANGED vars

MainQuietStep ==
  \/ StartFails \/ SelectExit \/ SelectWaitError \/ SelectTimeout
  \/ GraceEnds \/ Audit \/ SendDone \/ CleanupProcess

LEMMA QuietSteps == ASSUME QuietStep \/ MainQuietStep PROVE Quiet
<1> USE DEF Quiet, bufVars, pumpVars, toolVars
<1>1. ASSUME NEW kind \in {"group", "detached"}, ToolForks(kind) PROVE Quiet
  BY <1>1 DEF ToolForks
<1>2. ASSUME DescendantExits PROVE Quiet
  BY <1>2 DEF DescendantExits
<1>3. ASSUME NEW how \in {"zero", "other"}, ToolExits(how) PROVE Quiet
  BY <1>3, LeaderExit DEF ToolExits
<1>4. ASSUME ContextExpires PROVE Quiet
  BY <1>4 DEF ContextExpires
<1>5. ASSUME ExecKill PROVE Quiet
  BY <1>5, LeaderExit DEF ExecKill
<1>6. ASSUME Reap PROVE Quiet
  BY <1>6 DEF Reap
<1>7. ASSUME ClientStep PROVE Quiet
  BY <1>7 DEF ClientStep, ClientChanges
<1>8. ASSUME UNCHANGED vars PROVE Quiet
  BY <1>8 DEF vars
<1>9. ASSUME StartFails PROVE Quiet
  BY <1>9 DEF StartFails
<1>10. ASSUME SelectExit PROVE Quiet
  BY <1>10 DEF SelectExit
<1>11. ASSUME SelectWaitError PROVE Quiet
  BY <1>11 DEF SelectWaitError
<1>12. ASSUME SelectTimeout PROVE Quiet
  BY <1>12 DEF SelectTimeout
<1>13. ASSUME GraceEnds PROVE Quiet
  BY <1>13, LeaderExit DEF GraceEnds, KillGroup
<1>14. ASSUME Audit PROVE Quiet
  BY <1>14 DEF Audit
<1>15. ASSUME SendDone PROVE Quiet
  BY <1>15 DEF SendDone
<1>16. ASSUME CleanupProcess PROVE Quiet
  BY <1>16, LeaderExit DEF CleanupProcess, KillGroup
<1> QED
  BY <1>1, <1>2, <1>3, <1>4, <1>5, <1>6, <1>7, <1>8, <1>9, <1>10, <1>11, <1>12, <1>13, <1>14, <1>15, <1>16
     DEF QuietStep, MainQuietStep

LEMMA StepCases ==
  ASSUME [Next]_vars
  PROVE  \/ QuietStep \/ MainQuietStep \/ StartProcess \/ DrainEnds \/ FinalizeStream \/ FlushFails
         \/ StreamFile \/ CleanupBuffers
         \/ \E s \in StreamSet : \/ ToolWrites(s) \/ PumpRead(s) \/ PumpEnds(s)
                                 \/ PumpWrite(s) \/ PumpSent(s)
<1>1. CASE MainStep
  BY <1>1 DEF MainStep, MainQuietStep
<1>2. CASE \E s \in StreamSet : PumpStep(s)
  BY <1>2 DEF PumpStep
<1>3. CASE ToolStep
  BY <1>3 DEF ToolStep, QuietStep
<1>4. CASE ClientStep \/ ContextExpires \/ ExecKill \/ Reap \/ UNCHANGED vars
  BY <1>4 DEF QuietStep
<1>5. CASE Finished
  BY <1>5 DEF Finished, QuietStep
<1> QED
  BY <1>1, <1>2, <1>3, <1>4, <1>5 DEF Next

(* The steps that touch all streams at once.                                *)
LEMMA StartEffect ==
  ASSUME Shape, StartProcess
  PROVE  /\ Shape' /\ \A x \in StreamSet :
              /\ SameInput(x) /\ SameStore(x) /\ SameCount(x) /\ tail'[x] = tail[x] /\ got'[x] = got[x]
              /\ hand'[x] = hand[x] /\ pump'[x] = "read"
<1>1. /\ UNCHANGED <<pipe, made, hand, tail, inline, acc, hashed, file, spill, got, loss>>
      /\ pump' = [x \in StreamSet |-> "read"]
  BY DEF StartProcess, toolVars, bufVars
<1> QED
  BY <1>1 DEF Shape, SameInput, SameStore, SameCount

LEMMA DrainEffect ==
  ASSUME Shape, DrainEnds
  PROVE  /\ Shape' /\ \A x \in StreamSet :
              /\ SameInput(x) /\ SamePump(x) /\ SameStore(x) /\ tail'[x] = tail[x] /\ got'[x] = got[x]
              /\ acc'[x] = acc[x] /\ hashed'[x] = hashed[x]
              /\ loss'[x] = loss[x] \/ loss'[x] = loss[x] \union {"cap"}
              /\ "cap" \notin loss'[x] => pump[x] \in {"off", "done"}
<1>1. UNCHANGED <<pipe, made, pump, hand, tail, inline, acc, hashed, file, spill, got>>
  BY DEF DrainEnds, toolVars, bufVars, pumpVars
<1>2. CASE PumpersDone /\ UNCHANGED loss
  BY <1>1, <1>2 DEF PumpersDone, Shape, SameInput, SamePump, SameStore
<1>3. CASE loss' = [x \in StreamSet |-> IF pump[x] = "done" THEN loss[x] ELSE loss[x] \union {"cap"}]
  <2>1. loss' \in [StreamSet -> SUBSET Losses]
    BY <1>3 DEF Shape, Losses
  <2>2. \A x \in StreamSet : /\ pump[x] = "done" => loss'[x] = loss[x]
                             /\ pump[x] # "done" => loss'[x] = loss[x] \union {"cap"}
    BY <1>3
  <2> QED
    BY <1>1, <2>1, <2>2 DEF Shape, SameInput, SamePump, SameStore
<1> QED
  BY <1>2, <1>3 DEF DrainEnds

LEMMA SweepEffect ==
  ASSUME Shape, CleanupBuffers
  PROVE  /\ Shape' /\ \A x \in StreamSet :
              /\ SameInput(x) /\ SamePump(x) /\ SameCount(x) /\ tail'[x] = tail[x] /\ got'[x] = got[x]
              /\ inline'[x] = inline[x] /\ spill'[x] = spill[x]
              /\ \/ file[x] = "none" /\ file'[x] = "none"
                 \/ file[x] # "none" /\ file'[x] = "removed"
<1>1. /\ UNCHANGED <<pipe, made, pump, hand, tail, inline, acc, hashed, spill, got, loss>>
      /\ file' = [x \in StreamSet |-> IF file[x] = "none" THEN "none" ELSE "removed"]
  BY DEF CleanupBuffers, RemoveSpillFiles, toolVars, pumpVars
<1> QED
  BY <1>1 DEF Shape, SameInput, SamePump, SameCount, Files

LEMMA DataStep ==
  ASSUME IInv, [Next]_vars
  PROVE  Shape' /\ ExitTypes' /\ \A x \in StreamSet : Local(x)'
<1> DEFINE Goal == Shape' /\ ExitTypes' /\ \A x \in StreamSet : Local(x)'
<1>0. /\ TypeOK /\ MainOK /\ Shape /\ ExitTypes
      /\ \A x \in StreamSet : Local(x) /\ PumpOK(x) /\ FinalOK(x)
  BY Shaped, ExitTyped DEF IInv, Local, Ended
<1>1. ASSUME QuietStep \/ MainQuietStep PROVE Goal
  BY <1>0, <1>1, QuietSteps, QuietSame, QuietShape, LocalSame
<1>2. ASSUME NEW s \in StreamSet, Others(s), Local(s)' PROVE \A x \in StreamSet : Local(x)'
  <2>1. \A x \in StreamSet \ {s} : Local(x)'
    BY <1>0, <1>2, LocalSame DEF Others
  <2> QED
    BY <1>2, <2>1
<1>3. ASSUME NEW s \in StreamSet, ToolWrites(s) PROVE Goal
  BY <1>0, <1>2, <1>3, WriteEffect, LocalWrite, ShapeWrite
<1>4. ASSUME NEW s \in StreamSet, PumpRead(s) PROVE Goal
  <2>1. UNCHANGED <<made, atExit>>
    BY <1>4 DEF PumpRead
  <2>2. ExitTypes'
    BY <1>0, <2>1, ExitKept
  <2> QED
    BY <1>0, <1>2, <1>4, <2>2, ReadEffect, LocalRead, ShapeRead
<1>5. ASSUME NEW s \in StreamSet, PumpEnds(s) PROVE Goal
  <2>1. UNCHANGED <<made, atExit>>
    BY <1>5 DEF PumpEnds, toolVars
  <2>2. ExitTypes'
    BY <1>0, <2>1, ExitKept
  <2>3. Local(s)'
    BY <1>0, <1>5, EndEffect, LocalIdle DEF SameStore, SameCount
  <2> QED
    BY <1>0, <1>2, <1>5, <2>2, <2>3, EndEffect, ShapeEnds
<1>6. ASSUME NEW s \in StreamSet, PumpWrite(s) PROVE Goal
  BY <1>0, <1>2, <1>6, PumpWriteEffect, LocalPumpWrite, ShapePumpWrite
<1>7. ASSUME NEW s \in StreamSet, PumpSent(s) PROVE Goal
  <2>1. UNCHANGED <<made, atExit>>
    BY <1>7 DEF PumpSent, toolVars
  <2>2. ExitTypes'
    BY <1>0, <2>1, ExitKept
  <2> QED
    BY <1>0, <1>2, <1>7, <2>2, SentEffect, LocalSent, ShapeSent
<1>8. ASSUME StartProcess PROVE Goal
  <2>1. UNCHANGED <<made, atExit>>
    BY <1>8 DEF StartProcess, toolVars
  <2>2. ExitTypes'
    BY <1>0, <2>1, ExitKept
  <2>3. ASSUME NEW x \in StreamSet PROVE Local(x)'
    <3>1. pump[x] = "off"
      BY <1>8, <1>0 DEF IInv, Ended, OffOK, MainOK, StartProcess
    <3> QED
      BY <1>0, <1>8, <3>1, StartEffect, LocalIdle DEF SameStore, SameCount
  <2> QED
    BY <1>0, <1>8, <2>2, <2>3, StartEffect
<1>9. ASSUME DrainEnds PROVE Goal
  <2>1. UNCHANGED <<made, atExit>>
    BY <1>9 DEF DrainEnds, toolVars
  <2>2. ExitTypes'
    BY <1>0, <2>1, ExitKept
  <2>3. ASSUME NEW x \in StreamSet PROVE Local(x)'
    <3>1. loss[x] \subseteq loss'[x]
      BY <1>0, <1>9, DrainEffect
    <3> QED
      BY <1>0, <1>9, <3>1, DrainEffect, LocalIdle DEF SameStore, SamePump
  <2> QED
    BY <1>0, <1>9, <2>2, <2>3, DrainEffect
<1>10. ASSUME CleanupBuffers PROVE Goal
  <2>1. UNCHANGED <<made, atExit>>
    BY <1>10 DEF CleanupBuffers, toolVars
  <2>2. ExitTypes'
    BY <1>0, <2>1, ExitKept
  <2>3. ASSUME NEW x \in StreamSet PROVE Local(x)'
    BY <1>0, <1>10, SweepEffect, LocalIdle DEF SamePump, SameCount
  <2> QED
    BY <1>0, <1>10, <2>2, <2>3, SweepEffect
<1>11. ASSUME main \in {"finalize", "stream"}
       PROVE  \E s \in StreamSet : /\ s = Streams[fin] /\ file[s] \in Unsent
                                   /\ main = "stream" => file[s] # "none"
  <2>1. Streams[fin] \in StreamSet
    BY <1>0, <1>11, Target
  <2>2. PICK s \in StreamSet : s = Streams[fin]
    BY <2>1
  <2>3. file[s] \in Unsent /\ (main = "stream" => file[s] # "none")
    BY <1>0, <1>11, <2>2, TargetFile
  <2> QED
    BY <2>2, <2>3
<1>12. ASSUME FinalizeStream PROVE Goal
  <2>1. UNCHANGED <<made, atExit>> /\ main = "finalize"
    BY <1>12 DEF FinalizeStream, toolVars
  <2>2. ExitTypes'
    BY <1>0, <2>1, ExitKept
  <2>3. PICK s \in StreamSet : file[s] \in Unsent /\ s = Streams[fin]
    BY <1>11, <2>1
  <2>4. Others(s) /\ Flushed(s) /\ (FlushedNothing(s) \/ FlushedToClient(s) \/ FlushedToFile(s)) /\ Shape'
    BY <1>0, <1>12, <2>3, FinalizeEffect, ShapeFinalize
  <2>5. Local(s)'
    BY <1>0, <2>3, <2>4, LocalFlush
  <2> QED
    BY <1>2, <2>2, <2>3, <2>4, <2>5
<1>13. ASSUME FlushFails PROVE Goal
  <2>1. UNCHANGED <<made, atExit>> /\ main = "finalize"
    BY <1>13 DEF FlushFails, toolVars
  <2>2. ExitTypes'
    BY <1>0, <2>1, ExitKept
  <2>3. PICK s \in StreamSet : file[s] \in Unsent /\ s = Streams[fin]
    BY <1>11, <2>1
  <2>4. Others(s) /\ Flushed(s) /\ FlushLost(s) /\ Shape'
    BY <1>0, <1>13, <2>3, FlushFailsEffect, ShapeFlushFails
  <2>5. Local(s)'
    BY <1>0, <2>3, <2>4, LocalFlush
  <2> QED
    BY <1>2, <2>2, <2>3, <2>4, <2>5
<1>14. ASSUME StreamFile PROVE Goal
  <2>1. UNCHANGED <<made, atExit>> /\ main = "stream"
    BY <1>14 DEF StreamFile, toolVars
  <2>2. ExitTypes'
    BY <1>0, <2>1, ExitKept
  <2>3. PICK s \in StreamSet : file[s] \in Unsent /\ file[s] # "none" /\ s = Streams[fin]
    BY <1>11, <2>1
  <2>4. Others(s) /\ Local(s)' /\ Shape'
    BY <1>0, <1>14, <2>3, StreamEffect, LocalStream, ShapeStream
  <2> QED
    BY <1>2, <2>2, <2>3, <2>4
<1> QED
  BY <1>1, <1>3, <1>4, <1>5, <1>6, <1>7, <1>8, <1>9, <1>10, <1>12, <1>13, <1>14, StepCases

-----------------------------------------------------------------------------
(* How a run ends.                                                          *)
Late == {"audit", "report", "cleanup", "sweep", "end"}
ProcGoes ==
  /\ (proc' = "none") <=> (proc = "none")
  /\ proc \in {"zombie", "reaped"} => proc' \in {"zombie", "reaped"} /\ atExit' = atExit
  /\ desc' = "group" => desc = "group" \/ proc = "running"
MainGoes(x) ==
  /\ PastDrain' => PastDrain
  /\ term' # "error" => term # "error"
  /\ main' = "end" => main = "end"
  /\ main' \notin Late => main \notin Late
  /\ Finalized(x)' <=> Finalized(x)
  /\ main' = "stream" /\ x = Streams[fin'] => main = "stream" /\ x = Streams[fin]

LEMMA EndedSame ==
  ASSUME TypeOK, NEW x \in StreamSet, Ended(x), Same(x), ProcGoes, MainGoes(x) PROVE Ended(x)'
<1>1. OffOK(x)'
  BY DEF Ended, OffOK, ProcGoes, Same, SamePump
<1>2. KillOK(x)'
  BY DEF Ended, KillOK, ProcGoes, Same, SameCount, TypeOK, ControlTypes
<1>3. DrainOK(x)'
  BY DEF Ended, DrainOK, ProcGoes, MainGoes, Same, SameInput, SamePump, SameStore, SameCount
<1>4. FinalOK(x)'
  BY DEF Ended, FinalOK, MainGoes, Late, Same, SameStore, SameCount
<1> QED
  BY <1>1, <1>2, <1>3, <1>4 DEF Ended

LEMMA ProcCalm == ASSUME UNCHANGED <<proc, desc, atExit>> PROVE ProcGoes
BY DEF ProcGoes

LEMMA ProcDies ==
  ASSUME NEW how, LeaderDies(how), desc' = desc \/ desc' = "gone" PROVE ProcGoes
<1>1. CASE proc = "running"
  BY <1>1 DEF LeaderDies, ProcGoes
<1>2. CASE proc # "running"
  BY <1>2 DEF LeaderDies, ProcGoes
<1> QED
  BY <1>1, <1>2

LEMMA ProcKilled == ASSUME KillGroup PROVE ProcGoes /\ proc' # "running" /\ desc' # "group"
<1>1. desc' = desc \/ desc' = "gone"
  BY DEF KillGroup
<1>2. ProcGoes
  BY <1>1, ProcDies DEF KillGroup
<1> QED
  BY <1>2 DEF KillGroup, LeaderDies

LEMMA MainSame == ASSUME UNCHANGED <<main, fin, term>>, NEW x PROVE MainGoes(x)
BY DEF MainGoes, PastDrain, Finalized

LEMMA QuietGoes == ASSUME QuietStep, NEW x PROVE ProcGoes /\ MainGoes(x)
<1> USE DEF toolVars, reportVars
<1>1. ASSUME NEW kind \in {"group", "detached"}, ToolForks(kind) PROVE ProcGoes /\ MainGoes(x)
  <2>1. ProcGoes
    BY <1>1 DEF ToolForks, ProcGoes
  <2> QED
    BY <1>1, <2>1, MainSame DEF ToolForks
<1>2. ASSUME DescendantExits PROVE ProcGoes /\ MainGoes(x)
  <2>1. ProcGoes
    BY <1>2 DEF DescendantExits, ProcGoes
  <2> QED
    BY <1>2, <2>1, MainSame DEF DescendantExits
<1>3. ASSUME NEW how \in {"zero", "other"}, ToolExits(how) PROVE ProcGoes /\ MainGoes(x)
  BY <1>3, ProcDies, MainSame DEF ToolExits
<1>4. ASSUME ContextExpires PROVE ProcGoes /\ MainGoes(x)
  BY <1>4, ProcCalm, MainSame DEF ContextExpires
<1>5. ASSUME ExecKill PROVE ProcGoes /\ MainGoes(x)
  BY <1>5, ProcDies, MainSame DEF ExecKill
<1>6. ASSUME Reap PROVE ProcGoes /\ MainGoes(x)
  <2>1. ProcGoes
    BY <1>6 DEF Reap, ProcGoes
  <2> QED
    BY <1>6, <2>1, MainSame DEF Reap
<1>7. ASSUME ClientStep PROVE ProcGoes /\ MainGoes(x)
  BY <1>7, ProcCalm, MainSame DEF ClientStep, ClientChanges, procVars
<1>8. ASSUME UNCHANGED vars PROVE ProcGoes /\ MainGoes(x)
  BY <1>8, ProcCalm, MainSame DEF vars, procVars
<1> QED
  BY <1>1, <1>2, <1>3, <1>4, <1>5, <1>6, <1>7, <1>8 DEF QuietStep

LEMMA MainQuietGoes == ASSUME MainOK, MainQuietStep, NEW x PROVE ProcGoes /\ MainGoes(x)
<1> USE DEF toolVars, reportVars, procVars
<1>0. ASSUME UNCHANGED fin PROVE Finalized(x)' <=> Finalized(x)
  BY <1>0 DEF Finalized
<1>1. ASSUME StartFails \/ SelectWaitError PROVE ProcGoes /\ MainGoes(x)
  <2>1. main' = "cleanup" /\ term' = "error" /\ UNCHANGED <<fin, proc, desc, atExit>>
    BY <1>1 DEF StartFails, SelectWaitError, Error
  <2> QED
    BY <1>0, <2>1, ProcCalm DEF MainGoes, PastDrain, Late
<1>2. ASSUME SelectExit PROVE ProcGoes /\ MainGoes(x)
  <2>1. main = "select" /\ main' = "drain" /\ UNCHANGED <<term, fin, proc, desc, atExit>>
    BY <1>2 DEF SelectExit
  <2> QED
    BY <1>0, <2>1, ProcCalm DEF MainGoes, PastDrain, Late
<1>3. ASSUME SelectTimeout PROVE ProcGoes /\ MainGoes(x)
  <2>1. main = "select" /\ main' = "grace" /\ UNCHANGED <<term, fin, proc, desc, atExit>>
    BY <1>3 DEF SelectTimeout
  <2> QED
    BY <1>0, <2>1, ProcCalm DEF MainGoes, PastDrain, Late
<1>4. ASSUME GraceEnds PROVE ProcGoes /\ MainGoes(x)
  <2>1. main = "grace" /\ main' = "drain" /\ UNCHANGED <<term, fin>>
    BY <1>4 DEF GraceEnds
  <2>2. ProcGoes
    BY <1>4, ProcCalm, ProcKilled DEF GraceEnds
  <2> QED
    BY <1>0, <2>1, <2>2 DEF MainGoes, PastDrain, Late
<1>5. ASSUME Audit PROVE ProcGoes /\ MainGoes(x)
  <2>1. main = "audit" /\ main' = "report" /\ UNCHANGED <<term, fin, proc, desc, atExit>>
    BY <1>5 DEF Audit
  <2> QED
    BY <1>0, <2>1, ProcCalm DEF MainGoes, PastDrain, Late
<1>6. ASSUME SendDone PROVE ProcGoes /\ MainGoes(x)
  <2>1. main = "report" /\ main' = "cleanup" /\ UNCHANGED <<fin, proc, desc, atExit>>
    BY <1>6 DEF SendDone
  <2>2. term = "none"
    BY <2>1 DEF MainOK
  <2> QED
    BY <1>0, <2>1, <2>2, ProcCalm DEF MainGoes, PastDrain, Late
<1>7. ASSUME CleanupProcess PROVE ProcGoes /\ MainGoes(x)
  <2>1. main = "cleanup" /\ main' = "sweep" /\ UNCHANGED <<term, fin>> /\ KillGroup
    BY <1>7 DEF CleanupProcess
  <2> QED
    BY <1>0, <2>1, ProcKilled DEF MainGoes, PastDrain, Late
<1> QED
  BY <1>1, <1>2, <1>3, <1>4, <1>5, <1>6, <1>7 DEF MainQuietStep

LEMMA EndedWrite ==
  ASSUME Shape, ExitTypes, NEW s \in StreamSet, ToolWrites(s), Ended(s) PROVE Ended(s)'
<1>1. /\ SamePump(s) /\ SameStore(s) /\ SameCount(s) /\ tail'[s] = tail[s] /\ got'[s] = got[s]
      /\ pipe'[s] = Append(pipe[s], made[s] + 1)
  BY WriteEffect
<1>2. UNCHANGED <<main, fin, term, proc, desc, atExit>>
  BY DEF ToolWrites, procVars, reportVars
<1>3. ToSet(pipe'[s]) = ToSet(pipe[s]) \union {made[s] + 1}
  BY <1>1, AtStream, Written
<1>4. made[s] + 1 > atExit[s]
  BY DEF ExitTypes, Shape
<1>5. OffOK(s)' /\ KillOK(s)'
  BY <1>1, <1>2 DEF Ended, OffOK, KillOK, SamePump, SameCount
<1>6. DrainOK(s)'
  <2>1. (\A a \in ToSet(pipe[s]) : a > atExit[s]) => \A a \in ToSet(pipe'[s]) : a > atExit'[s]
    BY <1>2, <1>3, <1>4
  <2> QED
    BY <1>1, <1>2, <2>1 DEF Ended, DrainOK, PastDrain, SamePump, SameStore, SameCount
<1>7. FinalOK(s)'
  BY <1>1, <1>2 DEF Ended, FinalOK, Finalized, SameStore, SameCount
<1> QED
  BY <1>5, <1>6, <1>7 DEF Ended

LEMMA EndedRead ==
  ASSUME Shape, NEW s \in StreamSet, PumpRead(s), Ended(s) PROVE Ended(s)'
<1>1. /\ SameStore(s) /\ SameCount(s) /\ tail'[s] = tail[s] /\ got'[s] = got[s]
      /\ pump[s] = "read" /\ pump'[s] = "hold"
  BY ReadEffect
<1>2. UNCHANGED <<main, fin, term, proc, desc>>
  BY DEF PumpRead, procVars, reportVars
<1>3. OffOK(s)' /\ KillOK(s)'
  BY <1>1, <1>2 DEF Ended, OffOK, KillOK, SameCount
<1>4. DrainOK(s)'
  BY <1>1, <1>2 DEF Ended, DrainOK, PastDrain, SameStore, SameCount
<1>5. FinalOK(s)'
  BY <1>1, <1>2 DEF Ended, FinalOK, Finalized, SameStore, SameCount
<1> QED
  BY <1>3, <1>4, <1>5 DEF Ended

LEMMA EndedEnds ==
  ASSUME TypeOK, MainOK, Shape, NEW s \in StreamSet, PumpEnds(s), Ended(s) PROVE Ended(s)'
<1>1. /\ SameInput(s) /\ SameStore(s) /\ SameCount(s) /\ tail'[s] = tail[s] /\ got'[s] = got[s]
      /\ pump[s] = "read" /\ pump'[s] = "done"
  BY EndEffect
<1>2. UNCHANGED <<main, fin, term, proc, desc, atExit>>
  BY DEF PumpEnds, procVars, reportVars, toolVars
<1>3. OffOK(s)' /\ KillOK(s)'
  BY <1>1, <1>2 DEF Ended, OffOK, KillOK, SameCount
<1>4. ASSUME loss[s] = {}, term # "error" PROVE pipe[s] = <<>> /\ proc \in {"zombie", "reaped"}
  <2>1. proc # "none"
    BY <1>1 DEF Ended, OffOK
  <2>2. ~ PastDrain
    BY <1>1, <1>4 DEF Ended, DrainOK
  <2>3. ~ ReadEndsClosed
    BY <1>4, <2>2 DEF ReadEndsClosed, PastDrain, MainOK, TypeOK, ControlTypes
  <2>4. CASE pipe[s] = <<>> /\ ~ Writers
    BY <2>1, <2>4 DEF Writers, TypeOK, ControlTypes
  <2>5. CASE DrainDeadline(s)
    BY <2>1, <2>5 DEF DrainDeadline, Draining, MainOK, TypeOK, ControlTypes
  <2> QED
    BY <2>3, <2>4, <2>5 DEF PumpEnds
<1>5. DrainOK(s)'
  <2>1. \A a \in ToSet(<<>>) : a > atExit[s]
    BY Empty
  <2> QED
    BY <1>1, <1>2, <1>4, <2>1 DEF Ended, DrainOK, PastDrain, SameInput, SameStore, SameCount
<1>6. FinalOK(s)'
  BY <1>1, <1>2 DEF Ended, FinalOK, Finalized, SameStore, SameCount
<1> QED
  BY <1>3, <1>5, <1>6 DEF Ended

(* A pumper that is still at work has been given up on, once past the drain.*)
LEMMA GivenUp ==
  ASSUME TypeOK, MainOK, NEW s \in StreamSet, pump[s] # "done", DrainOK(s)
  PROVE  /\ PastDrain \/ Finalized(s) \/ main = "stream" => "cap" \in loss[s]
         /\ main = "end" /\ term # "error" => "cap" \in loss[s]
<1>1. PastDrain => "cap" \in loss[s]
  BY DEF DrainOK
<1>2. Finalized(s) => fin > 1
  BY DEF Finalized, TypeOK, ControlTypes
<1>3. main = "end" /\ term # "error" => PastDrain
  BY DEF PastDrain, MainOK, TypeOK, ControlTypes
<1> QED
  BY <1>1, <1>2, <1>3 DEF PastDrain, MainOK

LEMMA EndedPumpWrite ==
  ASSUME TypeOK, MainOK, Shape, NEW s \in StreamSet, PumpWrite(s), Ended(s), PumpOK(s) PROVE Ended(s)'
<1>1. got'[s] = got[s] /\ pump[s] = "hold"
  BY PumpWriteEffect
<1>2. PICK out, keep :
        \/ ToNowhere(s) /\ out = <<>>
        \/ ToLimit(s, out) \/ ToClient(s, out) \/ ToFile(s, out) \/ ToLoss(s, out)
  BY PumpWriteEffect
<1>3. UNCHANGED <<main, fin, term>>
  BY DEF PumpWrite, reportVars
<1>4. /\ loss[s] \subseteq loss'[s] /\ pump'[s] \in {"read", "send", "done"}
      /\ pump'[s] = "done" => "limit" \in loss'[s]
  BY <1>2 DEF ToNowhere, ToLimit, ToClient, ToFile, ToLoss, Goes
<1>5. SameStore(s) \/ (~ inline'[s] /\ file'[s] \in Unsent)
  BY <1>2 DEF ToNowhere, ToLimit, ToClient, ToFile, ToLoss, Held, Unsent
<1>6. ProcGoes /\ ("limit" \in loss'[s] => "limit" \in loss[s] \/ (proc' # "running" /\ desc' # "group"))
  <2>1. CASE \E out2 : WriteOverLimit(s, out2)
    BY <2>1, ProcKilled DEF WriteOverLimit
  <2>2. CASE UNCHANGED <<proc, desc, atExit>> /\ (loss' = loss \/ Lose(s, "temp") \/ Lose(s, "late"))
    <3>1. "limit" \in loss'[s] => "limit" \in loss[s]
      BY <2>2 DEF Lose, Shape
    <3> QED
      BY <2>2, <3>1, ProcCalm
  <2> QED
    BY <2>1, <2>2 DEF PumpWrite, WriteNothing, WriteInline, WriteSpill, WriteFile
<1>7. /\ PastDrain \/ Finalized(s) \/ main = "stream" => "cap" \in loss'[s]
      /\ main = "end" /\ term # "error" => "cap" \in loss'[s]
  BY <1>1, <1>4, GivenUp DEF Ended
<1>8. OffOK(s)'
  BY <1>1, <1>4, <1>6 DEF Ended, OffOK, ProcGoes
<1>9. KillOK(s)'
  BY <1>1, <1>6 DEF Ended, OffOK, KillOK, ProcGoes, TypeOK, ControlTypes
<1>10. DrainOK(s)'
  BY <1>3, <1>4, <1>7 DEF DrainOK, PastDrain
<1>11. FinalOK(s)'
  <2>1. "cap" \in loss'[s] => ~ (loss'[s] \subseteq {"limit", "temp"}) /\ loss'[s] # {}
    OBVIOUS
  <2>2. Finalized(s)' <=> Finalized(s)
    BY <1>3 DEF Finalized
  <2> QED
    BY <1>3, <1>5, <1>7, <2>1, <2>2 DEF Ended, FinalOK, SameStore
<1> QED
  BY <1>8, <1>9, <1>10, <1>11 DEF Ended

LEMMA EndedSent ==
  ASSUME TypeOK, MainOK, Shape, NEW s \in StreamSet, PumpSent(s), Ended(s) PROVE Ended(s)'
<1>0. SameStore(s) /\ pump[s] = "send" /\ pump'[s] = "read" /\ loss'[s] \in {loss[s], loss[s] \union {"send"}}
  BY SentEffect
<1>1. /\ SameStore(s) /\ pump[s] = "send" /\ pump'[s] = "read" /\ loss[s] \subseteq loss'[s]
      /\ "limit" \in loss'[s] => "limit" \in loss[s]
  BY <1>0
<1>2. UNCHANGED <<main, fin, term, proc, desc>>
  BY DEF PumpSent, procVars, reportVars
<1>3. /\ PastDrain \/ Finalized(s) \/ main = "stream" => "cap" \in loss'[s]
      /\ main = "end" /\ term # "error" => "cap" \in loss'[s]
  BY <1>1, GivenUp DEF Ended
<1>4. OffOK(s)' /\ KillOK(s)'
  BY <1>1, <1>2 DEF Ended, OffOK, KillOK
<1>5. DrainOK(s)'
  BY <1>1, <1>2, <1>3 DEF DrainOK, PastDrain
<1>6. FinalOK(s)'
  <2>1. "cap" \in loss'[s] => ~ (loss'[s] \subseteq {"limit", "temp"}) /\ loss'[s] # {}
    OBVIOUS
  <2>2. Finalized(s)' <=> Finalized(s)
    BY <1>2 DEF Finalized
  <2> QED
    BY <1>1, <1>2, <1>3, <2>1, <2>2 DEF Ended, FinalOK, SameStore
<1> QED
  BY <1>4, <1>5, <1>6 DEF Ended

LEMMA EndedStart ==
  ASSUME TypeOK, MainOK, Shape, NEW x \in StreamSet, StartProcess, Ended(x) PROVE Ended(x)'
<1>1. /\ SameStore(x) /\ SameCount(x) /\ tail'[x] = tail[x] /\ got'[x] = got[x] /\ pump'[x] = "read"
  BY StartEffect
<1>2. main = "start" /\ main' = "select" /\ proc' = "running" /\ UNCHANGED <<fin, term, desc>>
  BY DEF StartProcess, reportVars
<1>3. proc = "none" /\ fin = 1 /\ term = "none"
  BY <1>2 DEF MainOK
<1>4. OffOK(x)' /\ KillOK(x)'
  BY <1>1, <1>2, <1>3 DEF Ended, OffOK, KillOK, SameCount
<1>5. DrainOK(x)'
  BY <1>1, <1>2, <1>3 DEF DrainOK, PastDrain
<1>6. FinalOK(x)'
  BY <1>1, <1>2 DEF Ended, FinalOK, Finalized, SameStore, SameCount
<1> QED
  BY <1>4, <1>5, <1>6 DEF Ended

LEMMA EndedDrain ==
  ASSUME TypeOK, MainOK, Shape, NEW x \in StreamSet, DrainEnds, Ended(x) PROVE Ended(x)'
<1>1. /\ SameInput(x) /\ SamePump(x) /\ SameStore(x) /\ tail'[x] = tail[x] /\ got'[x] = got[x]
      /\ acc'[x] = acc[x] /\ loss'[x] \in {loss[x], loss[x] \union {"cap"}}
      /\ "cap" \notin loss'[x] => pump[x] \in {"off", "done"}
  BY DrainEffect
<1>2. main = "drain" /\ main' = "finalize" /\ UNCHANGED <<fin, term, proc, desc, atExit>>
  BY DEF DrainEnds, procVars, reportVars, toolVars
<1>3. proc # "none" /\ fin = 1
  BY <1>2 DEF MainOK
<1>4. loss[x] \subseteq loss'[x] /\ ("limit" \in loss'[x] => "limit" \in loss[x])
  BY <1>1
<1>5. pump[x] # "off"
  BY <1>3 DEF Ended, OffOK
<1>6. OffOK(x)' /\ KillOK(x)'
  BY <1>1, <1>2, <1>4 DEF Ended, OffOK, KillOK, SamePump
<1>7. DrainOK(x)'
  BY <1>1, <1>2, <1>4, <1>5 DEF Ended, DrainOK, PastDrain, SameInput, SamePump, SameStore
<1>8. ~ Finalized(x) /\ ~ Finalized(x)'
  BY <1>2, <1>3 DEF Finalized
<1>9. FinalOK(x)'
  BY <1>1, <1>2, <1>8 DEF Ended, FinalOK, SameStore
<1> QED
  BY <1>6, <1>7, <1>9 DEF Ended

LEMMA EndedSweep ==
  ASSUME TypeOK, MainOK, Shape, NEW x \in StreamSet, CleanupBuffers, Ended(x) PROVE Ended(x)'
<1>1. /\ SameInput(x) /\ SamePump(x) /\ SameCount(x) /\ tail'[x] = tail[x] /\ got'[x] = got[x]
      /\ spill'[x] = spill[x] /\ file'[x] \in {"none", "removed"}
  BY SweepEffect
<1>2. main = "sweep" /\ main' = "end" /\ UNCHANGED <<fin, term, proc, desc, atExit>>
  BY DEF CleanupBuffers, procVars, reportVars, toolVars
<1>3. OffOK(x)' /\ KillOK(x)'
  BY <1>1, <1>2 DEF Ended, OffOK, KillOK, SamePump, SameCount
<1>4. DrainOK(x)'
  BY <1>1, <1>2 DEF Ended, DrainOK, PastDrain, SameInput, SamePump, SameCount
<1>5. FinalOK(x)'
  BY <1>1, <1>2 DEF Ended, FinalOK, Finalized, SameCount
<1> QED
  BY <1>3, <1>4, <1>5 DEF Ended

(* The next stream is taken up: the others are as finalized as they were.   *)
LEMMA NextGoes ==
  ASSUME TypeOK, MainOK, main \in {"finalize", "stream"}, NEW s, s = Streams[fin], NextStream, UNCHANGED term
  PROVE  /\ Finalized(s)' /\ PastDrain /\ main' \in {"finalize", "audit"}
         /\ \A x \in StreamSet \ {s} : MainGoes(x)
<1>1. fin \in 1 .. Len(Streams) /\ fin' = fin + 1 /\ main' \in {"finalize", "audit"}
  BY Target DEF NextStream
<1>2. PastDrain
  BY DEF PastDrain
<1>3. Finalized(s)'
  <2>1. fin \in 1 .. fin' - 1
    BY <1>1, StreamsAt
  <2> QED
    BY <2>1 DEF Finalized
<1>4. ASSUME NEW x \in StreamSet \ {s} PROVE Finalized(x)' <=> Finalized(x)
  <2>1. 1 .. fin' - 1 = 1 .. fin - 1 \union {fin}
    BY <1>1, StreamsAt
  <2> QED
    BY <2>1 DEF Finalized
<1>5. ASSUME NEW x \in StreamSet \ {s} PROVE MainGoes(x)
  BY <1>1, <1>2, <1>4, <1>5 DEF MainGoes, Late
<1> QED
  BY <1>1, <1>2, <1>3, <1>5

(* finalizeStream has dealt with stream s.                                  *)
LEMMA EndedFinalized ==
  ASSUME TypeOK, MainOK, NEW s \in StreamSet, Ended(s), main \in {"finalize", "stream"}, s = Streams[fin],
         NextStream, UNCHANGED <<term, proc, desc, atExit>>, SameInput(s), SamePump(s),
         loss[s] \subseteq loss'[s], "limit" \in loss'[s] => "limit" \in loss[s],
         loss'[s] = {} => tail'[s] = <<>> /\ ToSet(spill'[s]) \subseteq ToSet(got'[s]),
         loss'[s] \subseteq {"limit", "temp"} => acc'[s] = Len(got'[s])
  PROVE  Ended(s)'
<1>1. Finalized(s)' /\ PastDrain /\ main' \in {"finalize", "audit"}
  BY NextGoes
<1>2. OffOK(s)' /\ KillOK(s)'
  BY DEF Ended, OffOK, KillOK, SamePump
<1>3. DrainOK(s)'
  BY <1>1 DEF Ended, DrainOK, SameInput, SamePump
<1>4. FinalOK(s)'
  BY <1>1 DEF FinalOK
<1> QED
  BY <1>2, <1>3, <1>4 DEF Ended

LEMMA EndedFlushFails ==
  ASSUME IInv, FlushFails, NEW x \in StreamSet PROVE Ended(x)'
<1>1. TypeOK /\ MainOK /\ Shape /\ \A y \in StreamSet : Ended(y)
  BY Shaped DEF IInv
<1>2. main = "finalize" /\ NextStream /\ UNCHANGED <<term, proc, desc, atExit>>
  BY DEF FlushFails, AfterFailure, procVars, reportVars, toolVars
<1>3. PICK s \in StreamSet : s = Streams[fin]
  BY <1>1, <1>2, Target
<1>4. Others(s) /\ Flushed(s) /\ FlushLost(s)
  BY <1>1, <1>3, FlushFailsEffect
<1>5. CASE x # s
  BY <1>1, <1>2, <1>3, <1>4, <1>5, NextGoes, ProcCalm, EndedSame DEF Others
<1>6. CASE x = s
  <2>1. loss'[s] = loss[s] \union {"flush"}
    BY <1>4 DEF FlushLost
  <2>2. "flush" \in loss'[s] /\ loss[s] \subseteq loss'[s] /\ ("limit" \in loss'[s] => "limit" \in loss[s])
    BY <2>1
  <2>3. loss'[s] # {} /\ ~ (loss'[s] \subseteq {"limit", "temp"})
    BY <2>2
  <2> QED
    BY <1>1, <1>2, <1>3, <1>4, <1>6, <2>2, <2>3, EndedFinalized DEF Flushed
<1> QED
  BY <1>5, <1>6

LEMMA EndedStream ==
  ASSUME IInv, StreamFile, NEW x \in StreamSet PROVE Ended(x)'
<1>1. TypeOK /\ MainOK /\ Shape /\ \A y \in StreamSet : Ended(y) /\ Local(y)
  BY Shaped DEF IInv
<1>2. main = "stream" /\ NextStream /\ UNCHANGED <<term, proc, desc, atExit>>
  BY DEF StreamFile, procVars, reportVars, toolVars
<1>3. PICK s \in StreamSet : s = Streams[fin]
  BY <1>1, <1>2, Target
<1>4. /\ Others(s) /\ SameInput(s) /\ SamePump(s)
      /\ spill'[s] = spill[s] /\ tail'[s] = tail[s] /\ acc'[s] = acc[s]
      /\ \/ got'[s] = got[s] \o spill[s] /\ loss'[s] = loss[s]
         \/ loss'[s] = loss[s] \union {"send"}
  BY <1>1, <1>3, StreamEffect
<1>5. CASE x # s
  BY <1>1, <1>2, <1>3, <1>4, <1>5, NextGoes, ProcCalm, EndedSame DEF Others
<1>6. CASE x = s /\ loss'[s] = loss[s] \union {"send"}
  <2>2. "send" \in loss'[s] /\ loss[s] \subseteq loss'[s] /\ ("limit" \in loss'[s] => "limit" \in loss[s])
    BY <1>6
  <2>3. loss'[s] # {} /\ ~ (loss'[s] \subseteq {"limit", "temp"})
    BY <2>2
  <2> QED
    BY <1>1, <1>2, <1>3, <1>4, <1>6, <2>2, <2>3, EndedFinalized
<1>7. CASE x = s /\ got'[s] = got[s] \o spill[s] /\ loss'[s] = loss[s]
  <2>1. got[s] \in Chunks /\ spill[s] \in Chunks
    BY <1>1, AtStream
  <2>2. /\ Len(got'[s]) = Len(got[s]) + Len(spill[s])
        /\ ToSet(got'[s]) = ToSet(got[s]) \union ToSet(spill[s])
    BY <1>7, <2>1, Joined
  <2>3. file[s] \in Unsent
    BY <1>1, <1>2, <1>3, TargetFile DEF Local, Ended
  <2>4. acc[s] = Len(got[s]) + Len(spill[s])
    BY <1>1, <2>3 DEF Local, CountOK, Counted
  <2>5. loss[s] = {} => tail[s] = <<>>
    BY <1>1, <1>2, <1>3 DEF Ended, FinalOK
  <2>6. /\ loss'[s] = {} => tail'[s] = <<>> /\ ToSet(spill'[s]) \subseteq ToSet(got'[s])
        /\ acc'[s] = Len(got'[s])
    BY <1>4, <1>7, <2>2, <2>4, <2>5
  <2> QED
    BY <1>1, <1>2, <1>3, <1>4, <1>7, <2>6, EndedFinalized
<1> QED
  BY <1>4, <1>5, <1>6, <1>7

LEMMA EndedFinalize ==
  ASSUME IInv, FinalizeStream, NEW x \in StreamSet PROVE Ended(x)'
<1>1. TypeOK /\ MainOK /\ Shape /\ \A y \in StreamSet : Ended(y) /\ Local(y)
  BY Shaped DEF IInv
<1>2. main = "finalize" /\ UNCHANGED <<term, proc, desc, atExit>>
  BY DEF FinalizeStream, procVars, reportVars, toolVars
<1>3. PICK s \in StreamSet : s = Streams[fin]
  BY <1>1, <1>2, Target
<1>4. /\ Others(s) /\ Flushed(s)
      /\ FlushedNothing(s) \/ FlushedToClient(s) \/ FlushedToFile(s)
  BY <1>1, <1>3, FinalizeEffect
<1>5. Local(s)' /\ Shape'
  <2>1. FinalizeStream => [Next]_vars
    BY DEF Next, MainStep
  <2> QED
    BY <2>1, DataStep
<1>6. tail'[s] = <<>> /\ SameInput(s) /\ SamePump(s) /\ loss'[s] = loss[s]
  BY <1>4 DEF Flushed, FlushedNothing, FlushedToClient, FlushedToFile, SameCount
<1>7. CASE inline'[s]
  <2>1. NextStream
    BY <1>3, <1>7 DEF FinalizeStream
  <2>2. CASE x # s
    BY <1>1, <1>2, <1>3, <1>4, <2>1, <2>2, NextGoes, ProcCalm, EndedSame DEF Others
  <2>3. CASE x = s
    <3>1. spill'[s] = <<>> /\ file'[s] = "none"
      BY <1>5, <1>7 DEF Local, PumpOK
    <3>2. ToSet(spill'[s]) = {} /\ Len(spill'[s]) = 0
      BY <3>1, Empty
    <3>3. got'[s] \in Chunks
      BY <1>5 DEF Shape
    <3>4. Len(got'[s]) \in Nat
      BY <3>3, LenProperties DEF Chunks
    <3>5. acc'[s] = Len(got'[s])
      BY <1>5, <3>1, <3>2, <3>4 DEF Local, CountOK, Counted, Unsent
    <3> QED
      BY <1>1, <1>2, <1>3, <1>6, <2>1, <2>3, <3>2, <3>5, EndedFinalized
  <2> QED
    BY <2>2, <2>3
<1>8. CASE ~ inline'[s]
  <2>1. main' = "stream" /\ fin' = fin
    BY <1>3, <1>8 DEF FinalizeStream
  <2>2. \A y : Finalized(y)' <=> Finalized(y)
    BY <2>1 DEF Finalized
  <2>3. CASE x # s
    <3>1. MainGoes(x)
      BY <1>2, <1>3, <2>1, <2>2, <2>3 DEF MainGoes, PastDrain, Late
    <3> QED
      BY <1>1, <1>2, <1>4, <2>3, <3>1, ProcCalm, EndedSame DEF Others
  <2>4. CASE x = s
    <3>1. OffOK(s)' /\ KillOK(s)'
      BY <1>1, <1>2, <1>6 DEF Ended, OffOK, KillOK, SamePump
    <3>2. DrainOK(s)'
      BY <1>1, <1>2, <1>6, <2>1 DEF Ended, DrainOK, PastDrain, SameInput, SamePump
    <3>3. file'[s] \in Unsent
      <4>1. CASE FlushedToFile(s)
        BY <4>1 DEF FlushedToFile, Unsent
      <4>2. CASE FlushedNothing(s)
        <5>1. file'[s] = "closed"
          BY <1>8, <4>2, Zenon DEF FlushedNothing
        <5> QED
          BY <5>1 DEF Unsent
      <4>3. CASE FlushedToClient(s)
        BY <1>8, <4>3, Zenon DEF FlushedToClient, SameStore
      <4> QED
        BY <1>4, <4>1, <4>2, <4>3
    <3>4. ~ Finalized(s)'
      BY <1>1, <1>2, <1>3, <2>2, Target
    <3>5. FinalOK(s)'
      BY <1>6, <1>8, <3>3, <3>4 DEF FinalOK
    <3> QED
      BY <2>4, <3>1, <3>2, <3>5 DEF Ended
  <2> QED
    BY <2>3, <2>4
<1> QED
  BY <1>7, <1>8
-----------------------------------------------------------------------------
(* The inductive invariant.                                                 *)
LEMMA EndedStep == ASSUME IInv, [Next]_vars, NEW x \in StreamSet PROVE Ended(x)'
<1>0. /\ TypeOK /\ MainOK /\ Shape /\ ExitTypes
      /\ \A y \in StreamSet : Ended(y) /\ PumpOK(y)
  BY Shaped, ExitTyped DEF IInv, Local
<1>1. ASSUME QuietStep PROVE Ended(x)'
  BY <1>0, <1>1, QuietSteps, QuietSame, QuietGoes, EndedSame
<1>2. ASSUME MainQuietStep PROVE Ended(x)'
  BY <1>0, <1>2, QuietSteps, QuietSame, MainQuietGoes, EndedSame
<1>3. ASSUME NEW s \in StreamSet, Others(s), x # s, UNCHANGED <<main, fin, term>>, ProcGoes PROVE Ended(x)'
  BY <1>0, <1>3, MainSame, EndedSame DEF Others
<1>4. ASSUME NEW s \in StreamSet, ToolWrites(s) PROVE Ended(x)'
  <2>1. UNCHANGED <<main, fin, term, proc, desc, atExit>> /\ Others(s)
    BY <1>0, <1>4, WriteEffect DEF ToolWrites, procVars, reportVars
  <2> QED
    BY <1>0, <1>3, <1>4, <2>1, ProcCalm, EndedWrite
<1>5. ASSUME NEW s \in StreamSet, PumpRead(s) PROVE Ended(x)'
  <2>1. UNCHANGED <<main, fin, term, proc, desc, atExit>> /\ Others(s)
    BY <1>0, <1>5, ReadEffect DEF PumpRead, procVars, reportVars
  <2> QED
    BY <1>0, <1>3, <1>5, <2>1, ProcCalm, EndedRead
<1>6. ASSUME NEW s \in StreamSet, PumpEnds(s) PROVE Ended(x)'
  <2>1. UNCHANGED <<main, fin, term, proc, desc, atExit>> /\ Others(s)
    BY <1>0, <1>6, EndEffect DEF PumpEnds, procVars, reportVars, toolVars
  <2> QED
    BY <1>0, <1>3, <1>6, <2>1, ProcCalm, EndedEnds
<1>7. ASSUME NEW s \in StreamSet, PumpWrite(s) PROVE Ended(x)'
  <2>1. UNCHANGED <<main, fin, term>> /\ Others(s)
    BY <1>0, <1>7, PumpWriteEffect DEF PumpWrite, reportVars
  <2>2. UNCHANGED <<proc, desc, atExit>> \/ KillGroup
    BY <1>7 DEF PumpWrite, WriteNothing, WriteOverLimit, WriteInline, WriteSpill, WriteFile
  <2> QED
    BY <1>0, <1>3, <1>7, <2>1, <2>2, ProcCalm, ProcKilled, EndedPumpWrite
<1>8. ASSUME NEW s \in StreamSet, PumpSent(s) PROVE Ended(x)'
  <2>1. UNCHANGED <<main, fin, term, proc, desc, atExit>> /\ Others(s)
    BY <1>0, <1>8, SentEffect DEF PumpSent, procVars, reportVars, toolVars
  <2> QED
    BY <1>0, <1>3, <1>8, <2>1, ProcCalm, EndedSent
<1>9. ASSUME StartProcess \/ DrainEnds \/ CleanupBuffers PROVE Ended(x)'
  BY <1>0, <1>9, EndedStart, EndedDrain, EndedSweep
<1>10. ASSUME FinalizeStream \/ FlushFails \/ StreamFile PROVE Ended(x)'
  BY <1>10, EndedFinalize, EndedFlushFails, EndedStream
<1> QED
  BY <1>1, <1>2, <1>4, <1>5, <1>6, <1>7, <1>8, <1>9, <1>10, StepCases

LEMMA Initially == ASSUME Init PROVE IInv
<1>1. FlagsOK
  BY Zenon DEF Init, FlagsOK
<1>2. ControlTypes /\ MainOK
  BY StreamsAt DEF Init, ControlTypes, MainOK, PastDrain
<1>3. <<>> \in Chunks
  BY Empty
<1>4. ChunkTypes
  BY <1>3, BoundAssumption DEF Init, ChunkTypes, Chunks
<1>5. BufferTypes
  BY DEF Init, BufferTypes
<1>6. ASSUME NEW x \in StreamSet PROVE Local(x) /\ Ended(x)
  <2>1. /\ pipe[x] = <<>> /\ hand[x] = <<>> /\ tail[x] = <<>> /\ spill[x] = <<>> /\ got[x] = <<>>
        /\ made[x] = 0 /\ acc[x] = 0 /\ hashed[x] = 0 /\ pump[x] = "off" /\ file[x] = "none" /\ loss[x] = {}
    BY DEF Init
  <2>2. inline[x]
    BY Zenon DEF Init
  <2>3. FlowOK(x)
    BY <2>1, Empty DEF FlowOK, Flow, Before, UpTo
  <2>4. CoverOK(x)
    BY <2>1 DEF CoverOK
  <2>5. PumpOK(x)
    BY <2>1, <2>2 DEF PumpOK
  <2>6. CountOK(x)
    BY <2>1, Empty, BoundAssumption DEF CountOK, Counted, Sending
  <2>7. OffOK(x) /\ KillOK(x)
    BY <2>1 DEF Init, OffOK, KillOK
  <2>8. DrainOK(x)
    BY <2>1 DEF Init, DrainOK, PastDrain
  <2>9. FinalOK(x)
    BY <2>1, <2>2 DEF Init, FinalOK, Finalized
  <2> QED
    BY <2>3, <2>4, <2>5, <2>6, <2>7, <2>8, <2>9 DEF Local, Ended
<1> QED
  BY <1>1, <1>2, <1>4, <1>5, <1>6 DEF IInv, TypeOK

(* Types, the order of the chunks, the counts of the buffers, and where the *)
(* main goroutine, the pumpers and the processes can be at the same time.   *)
THEOREM Inductive == Spec => []IInv
<1>1. ASSUME IInv, [Next]_vars PROVE IInv'
  <2>1. ControlTypes' /\ MainOK' /\ (sigterm \in BOOLEAN)'
    BY <1>1, ControlStep DEF IInv
  <2>2. Shape' /\ ExitTypes' /\ \A x \in StreamSet : Local(x)'
    BY <1>1, DataStep
  <2>3. \A x \in StreamSet : Ended(x)'
    BY <1>1, EndedStep
  <2>4. ChunkTypes' /\ BufferTypes' /\ (inline \in [StreamSet -> BOOLEAN])'
    BY <2>2, ShapedBack
  <2>5. TypeOK'
    BY <2>1, <2>4, Zenon DEF TypeOK, FlagsOK
  <2> QED
    BY <2>1, <2>2, <2>3, <2>5 DEF IInv
<1> QED
  BY <1>1, Initially, PTL DEF Spec

(* Every variable of a run keeps its type.                                  *)
THEOREM Types == Spec => []TypeOK
<1>1. IInv => TypeOK
  BY DEF IInv
<1> QED
  BY <1>1, Inductive, PTL

(* writeLocked, the redactor's tail, the spill file and streamFile deliver  *)
(* each stream in the order the tool wrote it, and nothing twice.           *)
THEOREM DeliveredInOrder == Spec => []InOrder
<1>1. IInv => InOrder
  BY DEF IInv, Local, FlowOK, Flow, Incr, InOrder
<1> QED
  BY <1>1, Inductive, PTL

(* max_output_size: a stream never delivers more, and the group of a tool   *)
(* that exceeded it is dead.                                                *)
THEOREM WithinLimit == Spec => []LimitEnforced
<1>1. ASSUME IInv, NEW x \in StreamSet
      PROVE  (Limit > 0 => Len(got[x]) <= Limit) /\ ("limit" \in loss[x] => proc # "running" /\ desc # "group")
  <2>1. Shape /\ Local(x) /\ Ended(x)
    BY <1>1, Shaped DEF IInv
  <2>2. got[x] \in Chunks /\ hand[x] \in Chunks /\ acc[x] \in Nat
    BY <2>1, AtStream
  <2>3. Len(got[x]) \in Nat /\ Len(hand[x]) \in Nat
    BY <2>2, LenProperties DEF Chunks
  <2>4. Sending(x) \in Nat
    BY <2>3 DEF Sending
  <2>5. Len(got[x]) <= acc[x] /\ (Limit > 0 => acc[x] + Sending(x) <= Limit)
    BY <2>1 DEF Local, CountOK, Counted
  <2>6. Limit > 0 => Len(got[x]) <= Limit
    BY <2>2, <2>3, <2>4, <2>5, BoundAssumption
  <2> QED
    BY <2>1, <2>6 DEF Ended, KillOK
<1>2. IInv => LimitEnforced
  BY <1>1 DEF LimitEnforced
<1> QED
  BY <1>2, Inductive, PTL

(* cleanup leaves no process of the tool's group, and no spill file of a    *)
(* stream that was drained, on every path through Run.                      *)
THEOREM NothingLeft == Spec => []LeavesNothing
<1>1. IInv => LeavesNothing
  BY DEF IInv, Ended, DrainOK, MainOK, LeavesNothing
<1> QED
  BY <1>1, Inductive, PTL

(* When fin is past the last stream, each of them was finalized.            *)
LEMMA AllFinalized ==
  ASSUME fin = Len(Streams) + 1, NEW x \in StreamSet PROVE Finalized(x)
<1>1. PICK i \in 1 .. Len(Streams) : Streams[i] = x
  BY StreamsAt
<1>2. i \in 1 .. fin - 1
  BY <1>1, StreamsAt
<1> QED
  BY <1>1, <1>2 DEF Finalized

(* The size that emitAuditEntry reports is what the client received, and    *)
(* the hash covers as much, unless output was lost on the way.              *)
THEOREM AuditedBytes == Spec => []BytesAccounted
<1>1. ASSUME IInv, NEW x \in StreamSet, main \in {"audit", "report"}
      PROVE  /\ loss[x] \subseteq {"limit", "temp"} => acc[x] = Len(got[x])
             /\ loss[x] \subseteq {"limit"} => hashed[x] = acc[x]
  <2>1. Shape /\ Local(x) /\ Ended(x) /\ PastDrain /\ fin = Len(Streams) + 1
    BY <1>1, Shaped DEF IInv, MainOK, PastDrain
  <2>2. Finalized(x)
    BY <2>1, AllFinalized
  <2>3. loss[x] \subseteq {"limit", "temp"} => acc[x] = Len(got[x])
    BY <2>1, <2>2 DEF Ended, FinalOK
  <2>4. ASSUME loss[x] \subseteq {"limit"} PROVE hashed[x] = acc[x]
    <3>1. "cap" \notin loss[x]
      BY <2>4
    <3>2. pump[x] = "done"
      BY <2>1, <3>1 DEF Ended, DrainOK
    <3>3. Sending(x) = 0
      BY <3>2 DEF Sending
    <3>4. acc[x] \in Nat /\ hashed[x] = acc[x] + Sending(x)
      BY <2>1, <2>4, AtStream DEF Local, CountOK, Counted
    <3> QED
      BY <3>3, <3>4
  <2> QED
    BY <2>3, <2>4
<1>2. IInv => BytesAccounted
  BY <1>1 DEF BytesAccounted
<1> QED
  BY <1>2, Inductive, PTL

(* A run that is reported has its one audit entry, and the client has all   *)
(* that the tool wrote before it exited, unless that very stream met a      *)
(* failure: neither the drain deadline nor the other stream costs output.   *)
THEOREM AllDelivered == Spec => []Complete
<1>1. ASSUME IInv, NEW x \in StreamSet, term \in {"done", "timeout"}, loss[x] = {}
      PROVE  1 .. atExit[x] \subseteq ToSet(got[x])
  <2>1. Shape /\ ExitTypes /\ Local(x) /\ Ended(x) /\ PastDrain /\ fin = Len(Streams) + 1
    BY <1>1, Shaped, ExitTyped DEF IInv, MainOK, PastDrain
  <2>2. Finalized(x)
    BY <2>1, AllFinalized
  <2>3. pump[x] = "done"
    BY <1>1, <2>1 DEF Ended, DrainOK
  <2>4. hand[x] = <<>> /\ tail[x] = <<>> /\ ToSet(spill[x]) \subseteq ToSet(got[x])
    BY <1>1, <2>1, <2>2, <2>3 DEF Ended, FinalOK, Local, PumpOK
  <2>5. \A a \in ToSet(pipe[x]) : a > atExit[x]
    BY <1>1, <2>1, <2>3 DEF Ended, DrainOK
  <2>6. 1 .. made[x] \subseteq ToSet(got[x]) \union ToSet(pipe[x])
    BY <1>1, <2>1, <2>4, Empty DEF Local, CoverOK, Somewhere
  <2>7. atExit[x] \in Nat /\ made[x] \in Nat /\ atExit[x] <= made[x]
    BY <2>1 DEF ExitTypes, Shape
  <2> QED
    BY <2>5, <2>6, <2>7
<1>2. IInv => Complete
  BY <1>1 DEF Complete, IInv, MainOK
<1> QED
  BY <1>2, Inductive, PTL
=============================================================================
