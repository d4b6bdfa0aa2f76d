-------------------------- MODULE ReadinessProofs ---------------------------
(* What each step does to the bytes of a stream and to readiness: the      *)
(* invariants StreamInv and ReadyInv, and the steps that preserve them.    *)
(* ServiceProofs puts the steps together.                                  *)
EXTENDS WatcherProofs

-----------------------------------------------------------------------------
(* The bytes of the stream.                                                *)

\* What is appended to a sequence stands behind what the sequence had.
LEMMA AppendedAt ==
  ASSUME NEW S, NEW s \in Seq(S), NEW t \in Seq(S), NEW i \in 1 .. Len(t)
  PROVE  /\ s \o t \in Seq(S) /\ Len(s \o t) = Len(s) + Len(t)
         /\ Len(s) + i \in DOMAIN (s \o t) /\ (s \o t)[Len(s) + i] = t[i]
OBVIOUS

\* What is retried: the head of the queue of the side that is handled.
LEMMA RetryingFacts ==
  ASSUME TypeOK, Lists, QueuedIs, PlacesInv, NEW c \in Conn, NEW r, Retrying(c, r)
  PROVE  /\ r \in Req /\ r \in Queued /\ cb[r].conn = c /\ cb[r].op = loop.side
         /\ loop.side \in Op /\ r \in Elems(queue[<<c, loop.side>>]) /\ loop.conn = NoConn
<1>1. /\ loop.pc = "events" /\ loop.side \in Op /\ <<c, loop.side>> \in Conn \X Op
      /\ queue[<<c, loop.side>>] # <<>> /\ r = Head(queue[<<c, loop.side>>])
  BY DEF Retrying, AtEvent, TypeOK, LoopOK
<1>2. r \in Req /\ r \in Queued
  BY FirstQueued
<1>3. r \in Elems(queue[<<c, loop.side>>])
  <2>1. queue[<<c, loop.side>>] \in Seq(Nat)
    BY <1>1, Zenon DEF Lists
  <2>2. QED
    BY <1>1, <2>1, TailFacts
<1>4. cb[r].conn = c /\ cb[r].op = loop.side
  <2>1. PICK o \in Op : o = loop.side
    BY <1>1
  <2>2. r \in Elems(queue[<<c, o>>])
    BY <1>3, <2>1
  <2>3. QED
    BY <2>1, <2>2, Zenon DEF PlacesInv, Own
<1>5. loop.conn = NoConn
  BY <1>1 DEF PlacesInv, Control, Releasing
<1>6. QED
  BY <1>1, <1>2, <1>3, <1>4, <1>5

\* What request r counts for among the reads of c.
Share(c, r) == IF cb[r].conn = c /\ cb[r].op = "read" THEN cb[r].size ELSE 0

\* Running totals of the reads of c.
Totals(c, f) ==
  /\ f \in [0 .. Len(cb) -> Nat] /\ f[0] = 0
  /\ \A r \in Req : f[r] = f[r - 1] + Share(c, r)

StreamInv ==
  \A c \in Conn : \E f \in [0 .. Len(cb) -> Nat] :
    Totals(c, f) /\ sock[c].sent = sock[c].rcv + f[Len(cb)]

\* Without bytes and without an end of the stream there is nothing to read.
LEMMA NotReadable ==
  ASSUME NEW s, s.peer = "open", s.rcv = 0
  PROVE  "read" \notin Mask(s)
BY DEF Mask

\* A read takes from the socket what it returns.
LEMMA RawReadBytes ==
  ASSUME NEW s \in Sock, NEW n \in Nat
  PROVE  LET x == RawRead(s, n)
         IN  /\ x.n \in Nat /\ x.sock.sent = s.sent /\ s.rcv = x.sock.rcv + x.n
             /\ x.err = "EAGAIN" => x.n = 0
<1> DEFINE x == RawRead(s, n)
<1>1. /\ s.rcv \in Nat /\ s.peer \in {"open", "fin", "rst"}
      /\ DOMAIN s = {"fd", "rcv", "sent", "peer", "snd", "short", "ready"}
  BY MaxBytesAssumption DEF Sock
<1>2. CASE n = 0
  BY <1>1, <1>2 DEF RawRead
<1>3. CASE n > 0 /\ s.rcv > 0
  <2> DEFINE k == Smaller(n, s.rcv)
             t == [s EXCEPT !.rcv = s.rcv - k]
  <2>1. k \in Nat /\ k <= s.rcv
    BY <1>1, <1>3 DEF Smaller
  <2>2. x = [n |-> k, err |-> "nil", sock |-> t]
    BY <1>3 DEF RawRead
  <2>3. t.rcv = s.rcv - k /\ t.sent = s.sent
    BY <1>1
  <2> HIDE DEF t, k
  <2>4. QED
    BY <1>1, <2>1, <2>2, <2>3
<1>4. CASE n > 0 /\ s.rcv = 0
  BY <1>1, <1>4 DEF RawRead
<1>5. QED
  BY <1>1, <1>2, <1>3, <1>4

\* A write takes nothing from what was received.
LEMMA RawWriteBytes ==
  ASSUME NEW s \in Sock, NEW n \in Nat
  PROVE  RawWrite(s, n).sock.sent = s.sent /\ RawWrite(s, n).sock.rcv = s.rcv
<1> DEFINE k == Smaller(n, SndBuf - s.snd)
<1>1. /\ s.snd \in 0 .. SndBuf
      /\ DOMAIN s = {"fd", "rcv", "sent", "peer", "snd", "short", "ready"}
  BY DEF Sock
<1>2. k \in Nat
  BY <1>1, SndBufAssumption DEF Smaller
<1>3. CASE s.peer = "rst"
  BY <1>3 DEF RawWrite
<1>4. CASE s.peer # "rst" /\ k = 0
  <2>1. RawWrite(s, n).sock = [s EXCEPT !.short = TRUE]
    BY <1>4 DEF RawWrite
  <2>2. QED
    BY <1>1, <2>1
<1>5. CASE s.peer # "rst" /\ k > 0
  <2> DEFINE m == s.snd + k
             b == s.short \/ k < n
  <2>1. RawWrite(s, n).sock = [s EXCEPT !.snd = m, !.short = b]
    BY <1>2, <1>5 DEF RawWrite
  <2> HIDE DEF m, b
  <2>2. QED
    BY <1>1, <2>1
<1>6. QED
  BY <1>2, <1>3, <1>4, <1>5

\* An attempt gives the request what it takes from the socket.
LEMMA AttemptBytes ==
  ASSUME CbOK, SockOK, NEW r \in Req, cb[r].op \in Op, Attempt(r)
  PROVE  \E k \in Nat :
           /\ cb[r].op = "read" => cb'[r].size = cb[r].size + k
           /\ cb[r].op = "write" => k = 0
           /\ \A c \in Conn :
                /\ sock'[c].sent = sock[c].sent
                /\ sock[c].rcv = sock'[c].rcv + (IF c = cb[r].conn THEN k ELSE 0)
<1> DEFINE p == cb[r]
           d == cb[r].conn
           s == sock[d]
           n == p.len - p.size
<1>1. p \in Aiocb /\ DOMAIN cb = Req
  BY SeqElement, SeqLength DEF CbOK, Req
<1>2. d \in Conn /\ n \in Nat /\ p.size \in Nat
  BY <1>1 DEF Aiocb
<1>3. s \in Sock /\ DOMAIN sock = Conn /\ \A c \in Conn : sock[c].rcv \in Nat
  BY <1>2, MaxBytesAssumption DEF SockOK, Sock
<1>4. cb'[r] = Try(r).pcb /\ sock'[d] = Try(r).sock /\ \A c \in Conn : c # d => sock'[c] = sock[c]
  BY <1>1, <1>2, <1>3 DEF Attempt
<1>5. CASE p.op = "read"
  <2> DEFINE x == RawRead(s, n)
             err == IF x.err = "nil" /\ x.n = 0 THEN "EOF" ELSE x.err
             a == [p EXCEPT !.size = p.size + x.n, !.err = err]
  <2>1. /\ x.n \in Nat /\ x.sock.sent = s.sent /\ s.rcv = x.sock.rcv + x.n
        /\ x.err = "EAGAIN" => x.n = 0
    BY <1>2, <1>3, RawReadBytes, Zenon
  <2>2. Try(r) = TryRead(p, s)
    BY <1>5 DEF Try
  <2> HIDE DEF x, p, s, d
  <2>3. TryRead(p, s).sock = x.sock /\ TryRead(p, s).pcb = IF x.err = "EAGAIN" THEN p ELSE a
    BY DEF TryRead, x
  <2>4. a.size = p.size + x.n
    BY <1>1 DEF Aiocb
  <2>5. cb'[r].size = p.size + x.n
    BY <1>2, <1>4, <2>1, <2>2, <2>3, <2>4
  <2>6. sock'[d].sent = s.sent /\ s.rcv = sock'[d].rcv + x.n
    BY <1>4, <2>1, <2>2, <2>3
  <2>7. QED
    BY <1>3, <1>4, <1>5, <2>1, <2>5, <2>6 DEF p, s, d
<1>6. CASE p.op = "write"
  <2>1. Try(r).sock = RawWrite(s, n).sock
    BY <1>6 DEF Try, TryWrite
  <2>2. sock'[d].sent = s.sent /\ s.rcv = sock'[d].rcv
    BY <1>2, <1>3, <1>4, <2>1, RawWriteBytes
  <2>3. \A c \in Conn : sock'[c].sent = sock[c].sent /\ sock[c].rcv = sock'[c].rcv
    BY <1>4, <2>2, Zenon
  <2>4. \A c \in Conn : sock[c].rcv = sock'[c].rcv + (IF c = cb[r].conn THEN 0 ELSE 0)
    BY <1>3, <2>3
  <2>5. QED
    BY <1>6, <2>3, <2>4
<1>7. QED
  BY <1>5, <1>6 DEF Op

\* What a step leaves of the bytes when it attempts nothing.
BytesKept ==
  \A c \in Conn : sock'[c].sent + sock[c].rcv = sock[c].sent + sock'[c].rcv

\* Other fields of a connection's record do not matter.
LEMMA BytesSame ==
  ASSUME SockOK, \A c \in Conn : sock'[c].sent = sock[c].sent /\ sock'[c].rcv = sock[c].rcv
  PROVE  BytesKept
BY MaxBytesAssumption DEF BytesKept, SockOK, Sock

\* The peer's bytes are counted where they arrive.
LEMMA PeerBytes ==
  ASSUME SockOK, PeerStep
  PROVE  BytesKept
<1>1. PICK d \in Conn : PeerSends(d) \/ PeerCloses(d) \/ PeerResets(d) \/ PeerAcks(d)
  BY DEF PeerStep
<1>2. /\ DOMAIN sock = Conn /\ sock[d].sent \in Nat /\ sock[d].rcv \in Nat
      /\ DOMAIN sock[d] = {"fd", "rcv", "sent", "peer", "snd", "short", "ready"}
      /\ \A c \in Conn : sock[c].sent \in Nat /\ sock[c].rcv \in Nat
  BY MaxBytesAssumption DEF SockOK, Sock
<1>3. \A c \in Conn : c # d => sock'[c] = sock[c]
  BY <1>1, <1>2 DEF PeerSends, PeerCloses, PeerResets, PeerAcks, Edge
<1>4. ASSUME NEW s, Edge(d, s), DOMAIN s = DOMAIN sock[d]
      PROVE  sock'[d].sent = s.sent /\ sock'[d].rcv = s.rcv
  <2>1. sock'[d] = [s EXCEPT !.ready = (s.fd = "dup")]
    BY <1>2, <1>4 DEF Edge
  <2>2. QED
    BY <1>2, <1>4, <2>1
<1>5. CASE PeerSends(d)
  <2> DEFINE s == [sock[d] EXCEPT !.rcv = @ + 1, !.sent = @ + 1]
  <2>1. Edge(d, s)
    BY <1>5 DEF PeerSends
  <2>2. DOMAIN s = DOMAIN sock[d] /\ s.sent = sock[d].sent + 1 /\ s.rcv = sock[d].rcv + 1
    BY <1>2
  <2> HIDE DEF s
  <2>3. sock'[d].sent = sock[d].sent + 1 /\ sock'[d].rcv = sock[d].rcv + 1
    BY <1>4, <2>1, <2>2
  <2>4. QED
    BY <1>2, <1>3, <2>3 DEF BytesKept
<1>6. CASE PeerCloses(d)
  <2> DEFINE s == [sock[d] EXCEPT !.peer = "fin"]
  <2>1. Edge(d, s)
    BY <1>6 DEF PeerCloses
  <2>2. DOMAIN s = DOMAIN sock[d] /\ s.sent = sock[d].sent /\ s.rcv = sock[d].rcv
    BY <1>2
  <2> HIDE DEF s
  <2>3. QED
    BY <1>3, <1>4, <2>1, <2>2, BytesSame
<1>7. CASE PeerResets(d)
  <2> DEFINE s == [sock[d] EXCEPT !.peer = "rst"]
  <2>1. Edge(d, s)
    BY <1>7 DEF PeerResets
  <2>2. DOMAIN s = DOMAIN sock[d] /\ s.sent = sock[d].sent /\ s.rcv = sock[d].rcv
    BY <1>2
  <2> HIDE DEF s
  <2>3. QED
    BY <1>3, <1>4, <2>1, <2>2, BytesSame
<1>8. CASE PeerAcks(d)
  <2> DEFINE s == [sock[d] EXCEPT !.snd = 0, !.short = FALSE]
             t == [sock[d] EXCEPT !.snd = 0]
  <2>1. Edge(d, s) \/ sock' = [sock EXCEPT ![d] = t]
    BY <1>8 DEF PeerAcks
  <2>2. DOMAIN s = DOMAIN sock[d] /\ s.sent = sock[d].sent /\ s.rcv = sock[d].rcv
    BY <1>2
  <2>3. t.sent = sock[d].sent /\ t.rcv = sock[d].rcv
    BY <1>2
  <2> HIDE DEF s, t
  <2>4. sock'[d].sent = sock[d].sent /\ sock'[d].rcv = sock[d].rcv
    BY <1>2, <1>4, <2>1, <2>2, <2>3
  <2>5. QED
    BY <1>3, <2>4, BytesSame
<1>9. QED
  BY <1>1, <1>5, <1>6, <1>7, <1>8

\* A step attempts a request or leaves the bytes alone.
LEMMA BytesStep ==
  ASSUME TypeOK, Lists, QueuedIs, PlacesInv, [Next]_vars
  PROVE  BytesKept \/ \E r \in Req : cb[r].op \in Op /\ Attempt(r)
<1> DEFINE Tried == \E r \in Req : cb[r].op \in Op /\ Attempt(r)
<1>1. /\ SockOK /\ DOMAIN sock = Conn
      /\ \A c \in Conn : DOMAIN sock[c] = {"fd", "rcv", "sent", "peer", "snd", "short", "ready"}
  BY DEF TypeOK, SockOK, Sock
<1>2. UNCHANGED sock => BytesKept
  BY <1>1, BytesSame
<1>3. ASSUME NEW r, Handling(r) PROVE r \in Req /\ cb[r].conn \in Conn
  <2>1. r \in Req
    BY <1>3, TakeHead DEF Handling
  <2>2. QED
    BY <2>1, SeqElement DEF TypeOK, CbOK, Req, Aiocb
<1>4. ASSUME NEW d, NEW s, sock' = [sock EXCEPT ![d] = s],
             d \in Conn => s.sent = sock[d].sent /\ s.rcv = sock[d].rcv
      PROVE  BytesKept
  <2>1. \A c \in Conn : sock'[c] = IF c = d THEN s ELSE sock[c]
    BY <1>1, <1>4
  <2>2. QED
    BY <1>1, <1>4, <2>1, BytesSame
<1>5. CASE PeerStep
  BY <1>1, <1>5, PeerBytes
<1>6. CASE PollerStep
  <2>1. CASE PollerWait
    <3>1. \A c \in Conn : sock'[c] = [sock[c] EXCEPT !.ready = FALSE]
      BY <2>1 DEF PollerWait
    <3>2. QED
      BY <1>1, <3>1, BytesSame, Zenon
  <2>2. QED
    BY <1>2, <1>6, <2>1 DEF PollerStep, PollerTop, PollerSend, PollerAck, PollerDie
<1>7. CASE ReleaseEnd
  <2> DEFINE s == [sock[loop.conn] EXCEPT !.fd = "closed", !.ready = FALSE]
  <2>1. sock' = [sock EXCEPT ![loop.conn] = s]
    BY <1>1, <1>7, Zenon DEF ReleaseEnd
  <2>2. loop.conn \in Conn => s.sent = sock[loop.conn].sent /\ s.rcv = sock[loop.conn].rcv
    BY <1>1
  <2> HIDE DEF s
  <2>3. QED
    BY <1>4, <2>1, <2>2, Zenon
<1>8. ASSUME NEW r, PendingDup(r) \/ PendingWatchFails(r) \/ PendingWatch(r) PROVE BytesKept
  <2>1. cb[r].conn \in Conn
    BY <1>3, <1>8 DEF PendingDup, PendingWatchFails, PendingWatch
  <2>2. PICK d \in Conn : d = cb[r].conn
    BY <2>1
  <2>3. CASE PendingDup(r) \/ PendingWatchFails(r)
    <3>1. PICK fd \in {"both", "conn"} : sock' = [sock EXCEPT ![d] = [sock[d] EXCEPT !.fd = fd]]
      BY <2>2, <2>3 DEF PendingDup, PendingWatchFails
    <3> DEFINE s == [sock[d] EXCEPT !.fd = fd]
    <3>2. s.sent = sock[d].sent /\ s.rcv = sock[d].rcv
      BY <1>1
    <3> HIDE DEF s
    <3>3. QED
      BY <1>4, <3>1, <3>2, Zenon DEF s
  <2>4. CASE PendingWatch(r)
    <3>1. sock' = [sock EXCEPT ![d] = Watched(sock[d])]
      BY <2>2, <2>4 DEF PendingWatch
    <3>2. Watched(sock[d]).sent = sock[d].sent /\ Watched(sock[d]).rcv = sock[d].rcv
      BY <1>1 DEF Watched
    <3>3. QED
      BY <1>4, <3>1, <3>2, Zenon
  <2>5. QED
    BY <1>8, <2>3, <2>4
<1>9. ASSUME NEW r, StartDone(r) \/ StartQueued(r) PROVE BytesKept \/ Tried
  <2>1. r \in Req /\ cb[r].op \in Op
    BY <1>3, <1>9, Zenon DEF StartDone, StartQueued, Starting
  <2>2. Attempt(r) \/ UNCHANGED sock
    BY <1>9, Zenon DEF StartDone, StartQueued
  <2>3. QED
    BY <1>2, <2>1, <2>2
<1>10. ASSUME NEW c \in Conn, NEW r \in Id, EventDone(c, r) \/ EventBlocked(c, r) PROVE Tried
  <2>1. r \in Req /\ cb[r].op \in Op
    BY <1>10, RetryingFacts, Zenon DEF EventDone, EventBlocked
  <2>2. QED
    BY <1>10, <2>1 DEF EventDone, EventBlocked
<1>11. CASE \/ Send \/ SendDie \/ ReleaseNext \/ TimerStep \/ ExitStep
            \/ LoopNotified \/ LoopSwap \/ PendingEnd
            \/ LoopSignal \/ EventSkip \/ EventsEnd \/ EventsDie
  <2>1. UNCHANGED sock
    BY <1>11, Zenon DEF Send, SendDie, ReleaseNext, LoopNotified, LoopSwap, PendingEnd,
              LoopSignal, EventSkip, EventsEnd, EventsDie, TimerStep, LoopTick, TimerEnd, TimerExpire,
              TimerReset, TimerRest, ExitStep, LoopDie, ExitRelease, ExitDrain, ExitDone, ExitRest
  <2>2. QED
    BY <1>2, <2>1
<1>12. ASSUME NEW r, PendingFree(r) \/ PendingDupFails(r) \/ StartFree(r) PROVE UNCHANGED sock
  BY <1>12, Zenon DEF PendingFree, PendingDupFails, StartFree
<1>13. CASE LoopStep
  BY <1>2, <1>7, <1>8, <1>9, <1>10, <1>11, <1>12, <1>13, Zenon DEF LoopStep, EventStep, PendingStep
<1>14. CASE \/ \E c \in Conn, s \in Shapes : Submit(c, s)
            \/ NotifyStep \/ WaitStep \/ CloseDie \/ CloseStep \/ ClockTick \/ TimerFires
            \/ UNCHANGED vars
  <2>1. UNCHANGED sock
    BY <1>14, Zenon
       DEF Submit, NotifyStep, Notify, WaitStep, WaitCall, WaitReceive, WaitCheck, WaitClosed,
           WaitOnly, CloseDie, CloseStep, ClosePoller, CloseWake, CloseDone, CloseDieChannel,
           Wakeup, CloseRest, ClockTick, TimerFires, ClockRest, vars
  <2>2. QED
    BY <1>2, <2>1
<1>15. QED
  BY <1>5, <1>6, <1>13, <1>14, Zenon DEF Next

\* New records, with nothing read, leave the total as it is.
LEMMA TotalsSame ==
  ASSUME CbOK, CbOK', NEW c \in Conn, NEW f, Totals(c, f), Req \subseteq Req',
         \A r \in Req' : Share(c, r)' = IF r \in Req THEN Share(c, r) ELSE 0
  PROVE  \E g \in [0 .. Len(cb') -> Nat] : Totals(c, g)' /\ g[Len(cb')] = f[Len(cb)]
<1>1. PICK m \in Nat, n \in Nat : m = Len(cb) /\ n = Len(cb') /\ m <= n
  <2>1. Len(cb) \in Nat /\ Len(cb') \in Nat
    BY SeqLength DEF CbOK
  <2>2. Len(cb) = 0 \/ Len(cb) \in Req
    BY <2>1 DEF Req
  <2>3. Len(cb) <= Len(cb')
    BY <2>1, <2>2 DEF Req
  <2>4. QED
    BY <2>1, <2>3
<1> DEFINE g == [i \in 0 .. n |-> IF i <= m THEN f[i] ELSE f[m]]
<1>2. /\ Req = 1 .. m /\ Req' = 1 .. n
      /\ f \in [0 .. m -> Nat] /\ f[0] = 0 /\ \A r \in 1 .. m : f[r] = f[r - 1] + Share(c, r)
  BY <1>1 DEF Totals, Req
<1>3. g \in [0 .. n -> Nat] /\ g[0] = 0 /\ g[n] = f[m]
  BY <1>1, <1>2
<1>4. ASSUME NEW r \in 1 .. n PROVE g[r] = g[r - 1] + Share(c, r)'
  <2>1. CASE r <= m
    <3>1. g[r] = f[r] /\ g[r - 1] = f[r - 1] /\ Share(c, r)' = Share(c, r)
      BY <1>1, <1>2, <2>1
    <3>2. QED
      BY <1>2, <2>1, <3>1
  <2>2. CASE r > m
    <3>1. g[r] = f[m] /\ g[r - 1] = f[m] /\ Share(c, r)' = 0 /\ f[m] \in Nat
      BY <1>1, <1>2, <2>2
    <3>2. QED
      BY <3>1
  <2>3. QED
    BY <1>1, <2>1, <2>2
<1> HIDE DEF g
<1>5. Totals(c, g)'
  BY <1>1, <1>2, <1>3, <1>4 DEF Totals
<1>6. QED
  BY <1>1, <1>3, <1>5

\* What one request gets is added from its place on.
LEMMA TotalsMore ==
  ASSUME CbOK, NEW c \in Conn, NEW f, Totals(c, f), Len(cb') = Len(cb), NEW q \in Req, NEW k \in Nat,
         \A r \in Req : Share(c, r) \in Nat /\ Share(c, r)' = Share(c, r) + (IF r = q THEN k ELSE 0)
  PROVE  \E g \in [0 .. Len(cb') -> Nat] : Totals(c, g)' /\ g[Len(cb')] = f[Len(cb)] + k
<1>1. PICK m \in Nat : m = Len(cb)
  BY SeqLength DEF CbOK
<1> DEFINE g == [i \in 0 .. m |-> IF i >= q THEN f[i] + k ELSE f[i]]
<1>2. /\ Req = 1 .. m /\ Req' = 1 .. m /\ q \in 1 .. m
      /\ f \in [0 .. m -> Nat] /\ f[0] = 0 /\ \A r \in 1 .. m : f[r] = f[r - 1] + Share(c, r)
  BY <1>1 DEF Totals, Req
<1>3. g \in [0 .. m -> Nat] /\ g[0] = 0 /\ g[m] = f[m] + k
  BY <1>1, <1>2
<1>4. ASSUME NEW r \in 1 .. m PROVE g[r] = g[r - 1] + Share(c, r)'
  <2>1. /\ g[r] = IF r >= q THEN f[r] + k ELSE f[r]
        /\ g[r - 1] = IF r - 1 >= q THEN f[r - 1] + k ELSE f[r - 1]
    BY <1>1
  <2>2. f[r] = f[r - 1] + Share(c, r) /\ f[r - 1] \in Nat /\ Share(c, r) \in Nat
    <3>1. r \in Req /\ r - 1 \in 0 .. m
      BY <1>1, <1>2
    <3>2. QED
      BY <1>2, <3>1, Zenon
  <2> HIDE DEF g
  <2>3. Share(c, r)' = Share(c, r) + (IF r = q THEN k ELSE 0)
    BY <1>2
  <2>4. QED
    BY <1>2, <2>1, <2>2, <2>3
<1> HIDE DEF g
<1>5. Totals(c, g)'
  BY <1>1, <1>2, <1>3, <1>4 DEF Totals
<1>6. QED
  BY <1>1, <1>3, <1>5

\* Nothing is sent and nothing is read at the start.
LEMMA InitStream == Init => StreamInv
<1> SUFFICES ASSUME Init, NEW c \in Conn
             PROVE  \E f \in [0 .. Len(cb) -> Nat] :
                      Totals(c, f) /\ sock[c].sent = sock[c].rcv + f[Len(cb)]
  BY DEF StreamInv
<1> DEFINE f == [n \in 0 .. 0 |-> 0]
<1>1. Len(cb) = 0 /\ Req = {}
  BY DEF Init, Req
<1>2. sock[c].sent = 0 /\ sock[c].rcv = 0
  BY Zenon DEF Init, SockInit
<1>3. f \in [0 .. 0 -> Nat] /\ f[0] = 0
  OBVIOUS
<1> HIDE DEF f
<1>4. QED
  BY <1>1, <1>2, <1>3 DEF Totals

-----------------------------------------------------------------------------
(* What is owed to a waiting request.                                    *)

\* The request was given bytes, or told of the end of its stream.
Attempted(r) == cb[r].size > 0 \/ cb[r].err \in {"EOF", "reset"}

\* Requests are attempted in order, and a write that waits has bytes left.
InOrder ==
  \A r \in Req :
    /\ Attempted(r) => First(r)
    /\ r \in Outstanding /\ cb[r].op = "write" => cb[r].size < cb[r].len

\* The event and the side at which handleEvents is.
Cursor ==
  /\ loop.i > 0
  /\ ~ InEvents => loop.i = 1 /\ loop.side = "read"
  /\ InEvents /\ loop.side = "write" => loop.i <= Len(events)

\* An event for c is on its way to the loop, or the loop has yet to come to it.
Announced(c, o) ==
  \E k \in DOMAIN events :
    /\ events[k].ident = c /\ o \in events[k].ev
    /\ \/ poller = "send" \/ chSignal
       \/ InEvents /\ (k > loop.i \/ (k = loop.i /\ loop.side \in {"read", o}))

\* A queued request waits although its socket is ready for it.
Owed(c, o) == queue[<<c, o>>] # <<>> /\ o \in Mask(sock[c]) /\ ~ CutShort(c, o)

\* Then the kernel or an event will tell; and a write that waits for space has
\* asked for the edge.
Fine(c, o) ==
  /\ Owed(c, o) => sock[c].ready \/ Announced(c, o)
  /\ o = "write" /\ queue[<<c, o>>] # <<>> /\ o \notin Mask(sock[c]) =>
       sock[c].short \/ Announced(c, o)

ReadyInv ==
  /\ Cursor /\ InOrder
  /\ poller # "exit" => \A c \in Conn, o \in Op : Fine(c, o)

-----------------------------------------------------------------------------
(* The result of an attempt.                                               *)

\* A read(2) touches only the bytes received, and takes all of them if it returns
\* fewer than asked for.
LEMMA RawReadLeaves ==
  ASSUME NEW s \in Sock, NEW n \in Nat
  PROVE  LET x == RawRead(s, n)
         IN  /\ ("write" \in Mask(x.sock) <=> "write" \in Mask(s))
             /\ x.sock.peer = s.peer /\ x.sock.ready = s.ready /\ x.sock.short = s.short
             /\ x.err = "EAGAIN" => s.rcv = 0 /\ s.peer = "open" /\ x.sock = s
             /\ x.err = "nil" /\ 0 < x.n /\ x.n < n => x.sock.rcv = 0
<1> DEFINE x == RawRead(s, n)
<1>1. /\ s.rcv \in Nat /\ s.peer \in {"open", "fin", "rst"}
      /\ DOMAIN s = {"fd", "rcv", "sent", "peer", "snd", "short", "ready"}
  BY MaxBytesAssumption DEF Sock
<1>2. CASE n = 0
  BY <1>2 DEF RawRead
<1>3. CASE n > 0 /\ s.rcv > 0
  <2> DEFINE k == Smaller(n, s.rcv)
             t == [s EXCEPT !.rcv = s.rcv - k]
  <2>1. k \in Nat /\ k > 0 /\ k <= s.rcv /\ (k < n => k = s.rcv)
    BY <1>1, <1>3 DEF Smaller
  <2>2. x = [n |-> k, err |-> "nil", sock |-> t]
    BY <1>3 DEF RawRead
  <2>3. /\ t.rcv = s.rcv - k /\ t.peer = s.peer /\ t.ready = s.ready /\ t.short = s.short
        /\ t.snd = s.snd
    BY <1>1
  <2> HIDE DEF t, k
  <2>4. "write" \in Mask(t) <=> "write" \in Mask(s)
    BY <2>3 DEF Mask, Op
  <2>5. QED
    BY <1>1, <2>1, <2>2, <2>3, <2>4
<1>4. CASE n > 0 /\ s.rcv = 0
  BY <1>1, <1>4 DEF RawRead
<1>5. QED
  BY <1>1, <1>2, <1>3, <1>4

\* A write(2) touches only the send buffer, and fills it and asks for an edge if
\* it accepts less than offered.
LEMMA RawWriteLeaves ==
  ASSUME NEW s \in Sock, NEW n \in Nat
  PROVE  LET x == RawWrite(s, n)
         IN  /\ x.sock.rcv = s.rcv /\ x.sock.peer = s.peer /\ x.sock.ready = s.ready
             /\ x.n < n /\ x.err # "reset" =>
                  x.sock.short /\ "write" \notin Mask(x.sock)
<1> DEFINE x == RawWrite(s, n)
           k == Smaller(n, SndBuf - s.snd)
<1>1. /\ s.snd \in 0 .. SndBuf /\ s.peer \in {"open", "fin", "rst"} /\ s.short \in BOOLEAN
      /\ DOMAIN s = {"fd", "rcv", "sent", "peer", "snd", "short", "ready"}
  BY DEF Sock
<1>2. k \in Nat /\ k <= n /\ k <= SndBuf - s.snd /\ (k < n => k = SndBuf - s.snd)
  BY <1>1, SndBufAssumption DEF Smaller
<1>3. CASE s.peer = "rst"
  BY <1>3 DEF RawWrite
<1>4. CASE s.peer # "rst" /\ k = 0
  <2> DEFINE t == [s EXCEPT !.short = TRUE]
  <2>1. x = [n |-> 0, err |-> "EAGAIN", sock |-> t]
    BY <1>4 DEF RawWrite
  <2>2. t.rcv = s.rcv /\ t.peer = s.peer /\ t.ready = s.ready /\ t.short = TRUE /\ t.snd = s.snd
    BY <1>1
  <2> HIDE DEF t
  <2>3. 0 < n => "write" \notin Mask(t)
    BY <1>1, <1>2, <1>4, <2>2, SndBufAssumption DEF Mask
  <2>4. QED
    BY <2>1, <2>2, <2>3
<1>5. CASE s.peer # "rst" /\ k > 0
  <2> DEFINE m == s.snd + k
             b == s.short \/ k < n
             t == [s EXCEPT !.snd = m, !.short = b]
  <2>1. x = [n |-> k, err |-> "nil", sock |-> t]
    BY <1>2, <1>5 DEF RawWrite
  <2>2. (k < n => m = SndBuf) /\ (k < n => b)
    BY <1>1, <1>2, SndBufAssumption
  <2> HIDE DEF m, b, k
  <2>3. t.rcv = s.rcv /\ t.peer = s.peer /\ t.ready = s.ready /\ t.short = b /\ t.snd = m
    BY <1>1
  <2> HIDE DEF t
  <2>4. k < n => "write" \notin Mask(t)
    BY <1>5, <2>2, <2>3, SndBufAssumption DEF Mask
  <2>5. QED
    BY <2>1, <2>2, <2>3, <2>4
<1>6. QED
  BY <1>1, <1>2, <1>3, <1>4, <1>5

\* Of the socket of the request, an attempt changes only what its operation waits
\* for, and of the others nothing.
LEMMA AttemptLeaves ==
  ASSUME CbOK, SockOK, NEW r \in Req, cb[r].op \in Op, Attempt(r), NEW c \in Conn
  PROVE  /\ c # cb[r].conn => sock'[c] = sock[c]
         /\ sock'[c].peer = sock[c].peer /\ sock'[c].ready = sock[c].ready
         /\ cb[r].op = "read" =>
              /\ sock'[c].short = sock[c].short
              /\ "write" \in Mask(sock'[c]) <=> "write" \in Mask(sock[c])
         /\ cb[r].op = "write" =>
              /\ sock'[c].rcv = sock[c].rcv
              /\ "read" \in Mask(sock'[c]) <=> "read" \in Mask(sock[c])
<1> DEFINE d == cb[r].conn
           s == sock[d]
           n == cb[r].len - cb[r].size
<1>1. d \in Conn /\ n \in Nat
  BY SeqElement DEF CbOK, Req, Aiocb
<1>2. s \in Sock /\ DOMAIN sock = Conn
  BY <1>1 DEF SockOK
<1>3. sock' = [sock EXCEPT ![d] = Try(r).sock]
  BY DEF Attempt
<1>4. CASE c # d
  BY <1>2, <1>3, <1>4
<1>5. CASE c = d
  <2>1. sock'[c] = Try(r).sock /\ sock[c] = s
    BY <1>1, <1>2, <1>3, <1>5
  <2>2. CASE cb[r].op = "read"
    <3>1. Try(r).sock = RawRead(s, n).sock
      BY <2>2 DEF Try, TryRead
    <3> HIDE DEF s, n
    <3>2. QED
      BY <1>1, <1>2, <1>5, <2>1, <2>2, <3>1, RawReadLeaves
  <2>3. CASE cb[r].op = "write"
    <3>1. Try(r).sock = RawWrite(s, n).sock
      BY <2>3 DEF Try, TryWrite
    <3> HIDE DEF s, n
    <3>2. sock'[c].rcv = sock[c].rcv /\ sock'[c].peer = sock[c].peer /\ sock'[c].ready = sock[c].ready
      BY <1>1, <1>2, <2>1, <3>1, RawWriteLeaves
    <3>3. "read" \in Mask(sock'[c]) <=> "read" \in Mask(sock[c])
      BY <3>2 DEF Mask
    <3>4. QED
      BY <1>5, <2>3, <3>2, <3>3
  <2>4. QED
    BY <2>2, <2>3 DEF Op
<1>6. QED
  BY <1>4, <1>5

\* When an attempt does not complete, the socket is not ready any more, and a
\* write has asked for the edge; or a full read has got what was there, short of
\* its length.
LEMMA BlockedLeaves ==
  ASSUME CbOK, SockOK, NEW r \in Req, cb[r].op \in Op, Attempt(r), ~ Try(r).done,
         cb[r].op = "write" => cb[r].size < cb[r].len
  PROVE  LET s == sock'[cb[r].conn]
         IN  /\ cb[r].op = "read" =>
                  /\ s.rcv = 0
                  /\ \/ s.peer = "open"
                     \/ /\ cb[r].full /\ 0 < cb'[r].size /\ cb'[r].size < cb[r].len
                        /\ cb'[r].err = "nil"
             /\ cb[r].op = "write" =>
                  s.short /\ "write" \notin Mask(s) /\ cb'[r].size < cb[r].len
<1> DEFINE p == cb[r]
           s == sock[cb[r].conn]
           n == p.len - p.size
<1>1. p \in Aiocb /\ DOMAIN cb = Req
  BY SeqElement, SeqLength DEF CbOK, Req
<1>2. p.conn \in Conn /\ p.len \in Nat /\ p.size \in Nat /\ p.size <= p.len /\ p.full \in BOOLEAN
  BY <1>1 DEF Aiocb
<1>3. s \in Sock /\ n \in Nat /\ DOMAIN sock = Conn
  BY <1>2 DEF SockOK
<1>4. cb'[r] = Try(r).pcb /\ sock'[cb[r].conn] = Try(r).sock
  BY <1>1, <1>2, <1>3 DEF Attempt
<1>5. CASE p.op = "read"
  <2> DEFINE x == RawRead(s, n)
             err == IF x.err = "nil" /\ x.n = 0 THEN "EOF" ELSE x.err
             size == p.size + x.n
             a == [p EXCEPT !.size = size, !.err = err]
             d == ~ p.full \/ err # "nil" \/ size = p.len
  <2>1. /\ x.n \in Nat /\ x.n <= n /\ x.sock.peer = s.peer
        /\ x.err = "EAGAIN" => s.rcv = 0 /\ s.peer = "open" /\ x.sock = s
        /\ x.err = "nil" /\ 0 < x.n /\ x.n < n => x.sock.rcv = 0
    BY <1>3, RawReadType, RawReadLeaves, Zenon
  <2>2. Try(r) = TryRead(p, s)
    BY <1>5 DEF Try
  <2> HIDE DEF x, p, s
  <2>3. TryRead(p, s) = IF x.err = "EAGAIN"
                        THEN [done |-> FALSE, pcb |-> p, sock |-> x.sock]
                        ELSE [done |-> d, pcb |-> a, sock |-> x.sock]
    BY DEF TryRead, x
  <2>4. CASE x.err = "EAGAIN"
    <3>1. Try(r).sock = x.sock
      BY <2>2, <2>3, <2>4
    <3>2. QED
      BY <1>4, <1>5, <2>1, <2>4, <3>1 DEF p
  <2>5. CASE x.err # "EAGAIN"
    <3> HIDE DEF a, d, err, size, n
    <3>1. Try(r).sock = x.sock /\ Try(r).pcb = a /\ Try(r).done = d
      BY <2>2, <2>3, <2>5
    <3>2. p.full /\ err = "nil" /\ size # p.len
      BY <3>1, Zenon DEF d
    <3>3. a.err = err /\ a.size = size
      BY <1>1 DEF Aiocb, a
    <3>4. x.err = "nil" /\ 0 < x.n /\ x.n < n /\ 0 < size /\ size < p.len
      BY <1>2, <2>1, <3>2 DEF err, size, n
    <3>5. QED
      BY <1>4, <1>5, <2>1, <3>1, <3>2, <3>3, <3>4 DEF p
  <2>6. QED
    BY <2>4, <2>5
<1>6. CASE p.op = "write"
  <2> DEFINE x == RawWrite(s, n)
             size == p.size + x.n
             a == [p EXCEPT !.size = size, !.err = x.err]
             d == x.err # "EAGAIN" /\ (x.err # "nil" \/ size = p.len)
  <2>1. /\ x.n \in Nat /\ x.n <= n /\ x.err \in {"nil", "EAGAIN", "reset"}
        /\ x.n < n /\ x.err # "reset" => x.sock.short /\ "write" \notin Mask(x.sock)
        /\ x.err = "EAGAIN" => x.n = 0
    BY <1>3, RawWriteType, RawWriteLeaves, Zenon
  <2>2. Try(r) = TryWrite(p, s)
    BY <1>6 DEF Try
  <2> HIDE DEF x, p, s
  <2>3. TryWrite(p, s) = [done |-> d, pcb |-> a, sock |-> x.sock]
    BY DEF TryWrite, x
  <2> HIDE DEF a, d, size, n
  <2>4. Try(r).sock = x.sock /\ Try(r).pcb = a /\ Try(r).done = d
    BY <2>2, <2>3
  <2>5. x.err = "EAGAIN" \/ (x.err = "nil" /\ size # p.len)
    BY <2>4, Zenon DEF d
  <2>6. a.size = size
    BY <1>1 DEF Aiocb, a
  <2>7. x.n < n /\ size < p.len /\ x.err # "reset"
    BY <1>2, <1>6, <2>1, <2>5 DEF size, n, p
  <2>8. QED
    BY <1>4, <1>6, <2>1, <2>4, <2>6, <2>7 DEF p
<1>7. QED
  BY <1>5, <1>6 DEF Op

-----------------------------------------------------------------------------
(* Which step attempts a request.                                          *)

\* The first of the requests that wait for its operation is attempted.
Tries(r) ==
  /\ r \in Req /\ r \in Outstanding /\ cb[r].op \in Op /\ First(r)
  /\ Attempt(r) /\ (Try(r).done => r \in Hand')

\* Attempts are made by handlePending and handleEvents only.
LEMMA PendingTries ==
  ASSUME TypeOK, Lists, QueuedIs, PlacesInv, PendingStep
  PROVE  (\A q \in Req : Untold(q)) \/ \E r \in Req : Tries(r)
<1>1. CbOK
  BY DEF TypeOK
<1>2. UNCHANGED cb => \A q \in Req : Untold(q)
  BY DEF Untold
<1>3. ASSUME NEW r, Handling(r) PROVE r \in Req /\ r \in Outstanding
  BY <1>3, TakeHead DEF Handling, Outstanding
<1>4. CASE LoopNotified \/ LoopSwap \/ PendingEnd
  BY <1>2, <1>4 DEF LoopNotified, LoopSwap, PendingEnd
<1>5. ASSUME NEW r \in Id, PendingFree(r) \/ PendingDup(r) \/ PendingWatch(r) \/ StartFree(r)
      PROVE  \A q \in Req : Untold(q)
  BY <1>2, <1>5 DEF PendingFree, PendingDup, PendingWatch, StartFree
<1>6. ASSUME NEW r \in Id, PendingDupFails(r) \/ PendingWatchFails(r)
      PROVE  \A q \in Req : Untold(q)
  <2>1. r \in Req /\ (Fail(r, "dup") \/ Fail(r, "watch"))
    BY <1>3, <1>6 DEF PendingDupFails, PendingWatchFails
  <2>2. QED
    BY <1>1, <2>1, FailUntold
<1>7. ASSUME NEW r \in Id, StartDone(r) PROVE r \in Req /\ Tries(r)
  <2>1. /\ Starting(r) /\ cb[r].op \in Op /\ queue[<<cb[r].conn, cb[r].op>>] = <<>>
        /\ Attempt(r) /\ Deliver(r, "pending") /\ Handling(r)
    BY <1>7 DEF StartDone, Starting
  <2>2. r \in Req /\ r \in Outstanding
    BY <1>3, <2>1
  <2>3. First(r)
    BY <2>1, <2>2, FirstStart
  <2>4. r \in Hand'
    BY <2>1, LoopMoves, Zenon DEF TypeOK, LoopTo, Hand
  <2>5. QED
    BY <2>1, <2>2, <2>3, <2>4 DEF Tries
<1>8. ASSUME NEW r \in Id, StartQueued(r)
      PROVE  (\A q \in Req : Untold(q)) \/ (r \in Req /\ Tries(r))
  <2>1. /\ Starting(r) /\ cb[r].op \in Op /\ Handling(r)
        /\ \/ UNCHANGED cb
           \/ queue[<<cb[r].conn, cb[r].op>>] = <<>> /\ ~ Try(r).done /\ Attempt(r)
    BY <1>8 DEF StartQueued, Starting
  <2>2. r \in Req /\ r \in Outstanding
    BY <1>3, <2>1
  <2>3. queue[<<cb[r].conn, cb[r].op>>] = <<>> => First(r)
    BY <2>1, <2>2, FirstStart
  <2>4. QED
    BY <1>2, <2>1, <2>2, <2>3 DEF Tries
<1>9. QED
  BY <1>4, <1>5, <1>6, <1>7, <1>8, Zenon DEF PendingStep

\* Every step.
LEMMA StepTries ==
  ASSUME TypeOK, Lists, QueuedIs, PlacesInv, [Next]_vars
  PROVE  (\A q \in Req : Untold(q)) \/ \E r \in Req : Tries(r)
<1>1. CbOK
  BY DEF TypeOK
<1>2. UNCHANGED cb => \A q \in Req : Untold(q)
  BY DEF Untold
<1>3. CASE PendingStep
  BY <1>3, PendingTries
<1>4. CASE ReleaseNext
  <2>1. Head(loop.left) \in Req /\ Fail(Head(loop.left), "closed")
    BY <1>4, TailFacts DEF ReleaseNext, Lists
  <2>2. QED
    BY <1>1, <2>1, FailUntold
<1>5. CASE Send \/ SendDie \/ ReleaseEnd \/ ExitStep
  BY <1>2, <1>5, Zenon
     DEF Send, SendDie, ReleaseEnd, ExitStep, LoopDie, ExitRelease, ExitDrain, ExitDone, ExitRest
<1>6. CASE EventStep
  <2>1. CASE LoopSignal \/ EventSkip \/ EventsEnd \/ EventsDie
    BY <1>2, <2>1 DEF LoopSignal, EventSkip, EventsEnd, EventsDie
  <2>2. ASSUME NEW c \in Conn, NEW r \in Id, EventDone(c, r) \/ EventBlocked(c, r)
        PROVE  r \in Req /\ Tries(r)
    <3>1. /\ Retrying(c, r) /\ Attempt(r)
          /\ ~ Try(r).done \/ Deliver(r, "events")
      BY <2>2 DEF EventDone, EventBlocked
    <3>2. r \in Req /\ r \in Queued /\ cb[r].op \in Op /\ First(r)
      BY <3>1, FirstQueued
    <3>3. Deliver(r, "events") => r \in Hand'
      BY LoopMoves DEF TypeOK, LoopTo, Hand
    <3>4. QED
      BY <3>1, <3>2, <3>3 DEF Tries, Outstanding
  <2>3. QED
    BY <1>6, <2>1, <2>2, Zenon DEF EventStep
<1>7. CASE TimerStep
  <2>1. CASE LoopTick \/ TimerEnd \/ \E r \in Id : TimerReset(r)
    BY <1>2, <2>1 DEF LoopTick, TimerEnd, TimerReset
  <2>2. ASSUME NEW r \in Id, TimerExpire(r) PROVE \A q \in Req : Untold(q)
    <3>1. r \in timeouts /\ Fail(r, "deadline")
      BY <2>2 DEF TimerExpire, Earliest
    <3>2. r \in Req
      BY <3>1 DEF TypeOK, QueuesOK
    <3>3. QED
      BY <1>1, <3>1, <3>2, FailUntold
  <2>3. QED
    BY <1>7, <2>1, <2>2, Zenon DEF TimerStep
<1>8. CASE \E c \in Conn, s \in Shapes : Submit(c, s)
  <2>1. Writes({})
    BY <1>8, KeptSubmit
  <2>2. QED
    BY <2>1 DEF Writes, Untold
<1>9. CASE \/ NotifyStep \/ WaitStep \/ CloseDie \/ CloseStep \/ ClockTick \/ TimerFires
           \/ (PollerStep /\ Others) \/ (PeerStep /\ UNCHANGED pollVars /\ Others) \/ UNCHANGED vars
  <2>1. UNCHANGED cb
    BY <1>9, Zenon
       DEF NotifyStep, Notify, WaitStep, WaitCall, WaitReceive, WaitCheck, WaitClosed, WaitOnly,
           CloseDie, CloseStep, ClosePoller, CloseWake, CloseDone, CloseRest, ClockTick, TimerFires,
           ClockRest, Others, vars
  <2>2. QED
    BY <1>2, <2>1
<1>10. QED
  BY <1>3, <1>4, <1>5, <1>6, <1>7, <1>8, <1>9, Zenon DEF Next, LoopStep

-----------------------------------------------------------------------------
(* What a step leaves as it is.                                            *)

\* The loop stays where it is in the batch, or away from it.
LoopStays == loop'.i = loop.i /\ loop'.side = loop.side /\ (InEvents' <=> InEvents)

LEMMA CursorKept ==
  ASSUME Cursor, LoopStays, InEvents => events' = events
  PROVE  Cursor'
BY DEF Cursor, LoopStays

LEMMA AnnouncedKept ==
  ASSUME LoopStays, UNCHANGED <<poller, events, chSignal>>, NEW c, NEW o, Announced(c, o)
  PROVE  Announced(c, o)'
BY Zenon DEF Announced, LoopStays

\* The loop outside handleEvents, and deliver.
LEMMA LoopStaysStep ==
  ASSUME TypeOK,
         \/ Send \/ SendDie \/ ReleaseNext \/ ReleaseEnd \/ PendingStep \/ TimerStep \/ ExitStep
         \/ \E c \in Conn, r \in Id : EventDone(c, r)
  PROVE  LoopStays /\ UNCHANGED pollVars
<1> DEFINE Away == loop.pc \notin {"events", "send"}
<1>1. LoopOK
  BY DEF TypeOK
<1>2. ASSUME NEW pc \in {"swap", "pending", "watch", "start", "select", "exit", "done"}, Away, Goto(pc)
      PROVE  LoopStays
  BY <1>1, <1>2 DEF Goto, LoopOK, LoopStays, InEvents
<1>3. ASSUME NEW r, NEW ret \in {"pending", "timer"}, Away, Deliver(r, ret) PROVE LoopStays
  BY <1>1, <1>3 DEF Deliver, LoopOK, LoopStays, InEvents
<1>4. ASSUME NEW c, NEW back, Away, Release(c, back) PROVE LoopStays
  <2> DEFINE l == queue[<<c, "read">>] \o queue[<<c, "write">>]
  <2>1. loop' = [loop EXCEPT !.pc = "release", !.conn = c, !.back = back, !.left = l]
    BY <1>4 DEF Release
  <2> HIDE DEF l
  <2>2. QED
    BY <1>1, <1>4, <2>1 DEF LoopOK, LoopStays, InEvents
<1>5. CASE Send \/ SendDie
  <2>1. loop.pc = "send" /\ loop' = [loop EXCEPT !.pc = loop.ret, !.cur = 0, !.ret = "pending"]
        /\ UNCHANGED pollVars
    BY <1>5 DEF Send, SendDie
  <2>2. QED
    BY <1>1, <2>1 DEF LoopOK, LoopStays, InEvents
<1>6. CASE ReleaseNext
  BY <1>1, <1>6 DEF ReleaseNext, LoopOK, LoopStays, InEvents
<1>7. CASE ReleaseEnd
  BY <1>1, <1>7 DEF ReleaseEnd, LoopOK, LoopStays, InEvents
<1>8. CASE PendingStep
  <2>1. UNCHANGED pollVars
    BY <1>8, Zenon DEF PendingStep, LoopNotified, LoopSwap, PendingEnd, PendingFree, PendingDup,
                PendingDupFails, PendingWatch, PendingWatchFails, StartDone, StartQueued,
                StartFree, PendingRest
  <2>2. /\ Away
        /\ \/ \E pc \in {"swap", "pending", "watch", "start", "select"} : Goto(pc)
           \/ \E r \in Id : Deliver(r, "pending") \/ Release(cb[r].conn, "pending")
    BY <1>8, Zenon DEF PendingStep, LoopNotified, LoopSwap, PendingEnd, PendingFree, PendingDup,
                PendingDupFails, PendingWatch, PendingWatchFails, StartDone, StartQueued,
                StartFree, Starting
  <2>3. QED
    BY <1>2, <1>3, <1>4, <2>1, <2>2, Zenon
<1>9. CASE TimerStep
  <2>1. UNCHANGED pollVars
    BY <1>9, Zenon DEF TimerStep, LoopTick, TimerEnd, TimerExpire, TimerReset, TimerRest
  <2>2. ASSUME NEW r \in Id, TimerExpire(r) PROVE LoopStays
    BY <1>3, <2>2 DEF TimerExpire
  <2>3. CASE LoopTick
    BY <1>1, <2>1, <2>3 DEF LoopTick, LoopOK, LoopStays, InEvents
  <2>4. CASE TimerEnd \/ \E r \in Id : TimerReset(r)
    <3>1. loop.pc = "timer" /\ loop' = [loop EXCEPT !.pc = "select", !.now = 0]
      BY <2>4 DEF TimerEnd, TimerReset
    <3>2. QED
      BY <1>1, <2>1, <3>1 DEF LoopOK, LoopStays, InEvents
  <2>5. QED
    BY <1>9, <2>1, <2>2, <2>3, <2>4, Zenon DEF TimerStep
<1>10. CASE ExitStep
  <2>1. UNCHANGED pollVars
    BY <1>10 DEF ExitStep, LoopDie, ExitRelease, ExitDrain, ExitDone, ExitRest
  <2>2. CASE LoopDie \/ ExitDone
    BY <1>2, <2>1, <2>2 DEF LoopDie, ExitDone
  <2>3. ASSUME NEW c \in Conn, ExitRelease(c) PROVE LoopStays
    BY <1>4, <2>3 DEF ExitRelease
  <2>4. CASE ExitDrain
    BY <2>1, <2>4, Zenon DEF ExitDrain, LoopStays, InEvents
  <2>5. QED
    BY <1>10, <2>1, <2>2, <2>3, <2>4, Zenon DEF ExitStep
<1>11. ASSUME NEW c \in Conn, NEW r \in Id, EventDone(c, r) PROVE LoopStays /\ UNCHANGED pollVars
  <2>1. loop.pc = "events" /\ loop' = [loop EXCEPT !.pc = "send", !.cur = r, !.ret = "events"]
        /\ UNCHANGED pollVars
    BY <1>11, Zenon DEF EventDone, Retrying, AtEvent, Deliver, EventRest
  <2>2. QED
    BY <1>1, <2>1 DEF LoopOK, LoopStays, InEvents
<1>12. QED
  BY <1>5, <1>6, <1>7, <1>8, <1>9, <1>10, <1>11, Zenon

\* The stream stays cut short while no read of the connection is attempted.
LEMMA CutKept ==
  ASSUME Kept, NEW c \in Conn, NEW o \in Op,
         sock'[c].peer # "open", sock'[c].rcv = sock[c].rcv,
         \A q \in Req : cb[q].conn = c /\ cb[q].op = "read" => Untold(q),
         \A q \in Req' : q \notin Req => cb'[q].size = 0 /\ cb'[q].err = "nil",
         CutShort(c, o)
  PROVE  CutShort(c, o)'
<1>1. PICK r \in Req : cb[r].conn = c /\ Partial(r)
  BY Zenon DEF CutShort
<1>2. /\ r \in Req' /\ cb'[r].conn = c /\ cb'[r].op = "read" /\ cb'[r].full = cb[r].full
      /\ cb'[r].len = cb[r].len /\ cb'[r].size = cb[r].size
  BY <1>1, Zenon DEF Kept, SameAsk, Partial, Untold
<1>3. ASSUME NEW q \in Req', q >= r, cb'[q].conn = cb'[r].conn, cb'[q].op = "read"
      PROVE  cb'[q].err \notin {"EOF", "reset"} /\ (q # r => cb'[q].size = 0)
  <2>1. CASE q \notin Req
    BY <2>1, Zenon
  <2>2. CASE q \in Req
    <3>1. cb[q].conn = c /\ cb[q].op = "read" /\ Untold(q)
      BY <1>2, <1>3, <2>2, Zenon DEF Kept, SameAsk
    <3>2. cb[q].err \notin {"EOF", "reset"} /\ (q # r => cb[q].size = 0)
      BY <1>1, <1>3, <2>2, <3>1, Zenon DEF Partial
    <3>3. QED
      BY <3>1, <3>2, Zenon DEF Untold
  <2>3. QED
    BY <2>1, <2>2, Zenon
<1>4. Partial(r)'
  BY <1>1, <1>2, <1>3 DEF Partial
<1>5. QED
  BY <1>2, <1>4, Zenon DEF CutShort

\* A queue of c is as well served as before if its socket is as it was.
LEMMA FineKept ==
  ASSUME NEW c \in Conn, NEW o \in Op, Fine(c, o),
         queue'[<<c, o>>] # <<>> => queue[<<c, o>>] # <<>>,
         sock'[c].ready = sock[c].ready, sock'[c].short = sock[c].short \/ o = "read",
         o \in Mask(sock'[c]) <=> o \in Mask(sock[c]),
         CutShort(c, o) => CutShort(c, o)',
         Announced(c, o) => Announced(c, o)'
  PROVE  Fine(c, o)'
BY Zenon DEF Fine, Owed

AllFine == \A c \in Conn, o \in Op : Fine(c, o)

\* Nobody is told anything, nothing is announced or taken, and only the sockets of
\* connections for which nothing is queued change.
LEMMA QuietFine ==
  ASSUME Kept, AllFine,
         \A c \in Conn, o \in Op : Announced(c, o) => Announced(c, o)',
         \A q \in Req : Untold(q),
         \A q \in Req' : q \notin Req => cb'[q].size = 0 /\ cb'[q].err = "nil",
         \A c \in Conn, o \in Op : queue'[<<c, o>>] # <<>> =>
           queue[<<c, o>>] # <<>> /\ sock'[c] = sock[c]
  PROVE  AllFine'
<1> SUFFICES ASSUME NEW c \in Conn, NEW o \in Op, queue'[<<c, o>>] # <<>> PROVE Fine(c, o)'
  BY Zenon DEF AllFine, Fine, Owed
<1>1. Fine(c, o) /\ queue[<<c, o>>] # <<>> /\ sock'[c] = sock[c]
  BY Zenon DEF AllFine
<1>2. CutShort(c, o) => CutShort(c, o)'
  <2>1. CutShort(c, o) => sock[c].peer # "open"
    BY Zenon DEF CutShort
  <2>2. QED
    BY <1>1, <2>1, CutKept, Zenon
<1>3. QED
  BY <1>1, <1>2, FineKept, Zenon

\* An attempt serves its own queue and leaves the others alone.
LEMMA TriesFine ==
  ASSUME TypeOK, Kept, AllFine, NEW r \in Req, Tries(r), Req' = Req,
         NEW d \in Conn, NEW p \in Op, d = cb[r].conn, p = cb[r].op, Fine(d, p)',
         \A c \in Conn, o \in Op : c # d \/ o # p =>
           /\ queue'[<<c, o>>] # <<>> => queue[<<c, o>>] # <<>>
           /\ queue[<<c, o>>] # <<>> /\ Announced(c, o) => Announced(c, o)'
  PROVE  AllFine'
<1>1. CbOK /\ SockOK /\ Attempt(r)
  BY Zenon DEF TypeOK, Tries
<1>2. Writes({r})
  BY <1>1, KeptAttempt, Zenon
<1> SUFFICES ASSUME NEW c \in Conn, NEW o \in Op, c # d \/ o # p, queue'[<<c, o>>] # <<>>
             PROVE  Fine(c, o)'
  BY Zenon DEF AllFine, Fine, Owed
<1>3. Fine(c, o) /\ queue[<<c, o>>] # <<>> /\ (Announced(c, o) => Announced(c, o)')
  BY Zenon DEF AllFine
<1>4. /\ c # d => sock'[c] = sock[c]
      /\ sock'[c].peer = sock[c].peer /\ sock'[c].ready = sock[c].ready
      /\ p = "read" => /\ sock'[c].short = sock[c].short
                       /\ "write" \in Mask(sock'[c]) <=> "write" \in Mask(sock[c])
      /\ p = "write" => /\ sock'[c].rcv = sock[c].rcv
                        /\ "read" \in Mask(sock'[c]) <=> "read" \in Mask(sock[c])
  BY <1>1, AttemptLeaves, Zenon
<1>5. o \in Mask(sock'[c]) <=> o \in Mask(sock[c])
  BY <1>1, <1>4, Zenon DEF Op
<1>6. sock'[c].short = sock[c].short \/ o = "read"
  BY <1>1, <1>4, Zenon DEF Op
<1>7. CutShort(c, o) => CutShort(c, o)'
  <2> SUFFICES ASSUME CutShort(c, o) PROVE CutShort(c, o)'
    BY Zenon
  <2>1. o = "read" /\ sock[c].peer # "open"
    BY Zenon DEF CutShort
  <2>2. c # d \/ p = "write"
    BY <1>1, <2>1, Zenon DEF Op
  <2>3. sock'[c].rcv = sock[c].rcv /\ sock'[c].peer # "open"
    BY <1>4, <2>1, <2>2, Zenon
  <2>4. ASSUME NEW q \in Req, cb[q].conn = c, cb[q].op = "read" PROVE Untold(q)
    <3>1. q # r
      BY <2>2, <2>4
    <3>2. QED
      BY <1>2, <3>1, Zenon DEF Writes, Untold
  <2>5. QED
    BY <2>3, <2>4, CutKept, Zenon
<1>8. QED
  BY <1>3, <1>4, <1>5, <1>6, <1>7, FineKept, Zenon

\* After an attempt that has to wait, the socket is not ready, or the stream is cut
\* short.
LEMMA BlockedFine ==
  ASSUME TypeOK, TypeOK', Kept, InOrder, InOrder', NEW r \in Req, Tries(r), ~ Try(r).done,
         r \in Outstanding', NEW d \in Conn, NEW p \in Op, d = cb[r].conn, p = cb[r].op
  PROVE  Fine(d, p)'
<1> DEFINE s == sock'[d]
<1>1. CbOK /\ SockOK /\ Attempt(r) /\ (p = "write" => cb[r].size < cb[r].len)
  BY Zenon DEF TypeOK, Tries, InOrder
<1>2. /\ p = "read" => /\ s.rcv = 0
                       /\ \/ s.peer = "open"
                          \/ /\ cb[r].full /\ 0 < cb'[r].size /\ cb'[r].size < cb[r].len
                             /\ cb'[r].err = "nil"
      /\ p = "write" => s.short /\ "write" \notin Mask(s)
  BY <1>1, BlockedLeaves, Zenon
<1>3. /\ r \in Req' /\ cb'[r].conn = d /\ cb'[r].op = p /\ cb'[r].full = cb[r].full
      /\ cb'[r].len = cb[r].len
  BY DEF Kept, SameAsk
<1>4. ASSUME p = "read", s.peer # "open" PROVE CutShort(d, p)'
  <2>1. ASSUME NEW q \in Req', q >= r, cb'[q].conn = d, cb'[q].op = "read"
        PROVE  cb'[q].err \notin {"EOF", "reset"} /\ (q # r => cb'[q].size = 0)
    <3>1. CASE q = r
      BY <1>2, <1>4, <3>1
    <3>2. CASE q # r
      <4>1. r < q
        BY <1>3, <2>1, <3>2 DEF Req
      <4>2. ~ First(q)'
        BY <1>3, <1>4, <2>1, <4>1 DEF First
      <4>3. ~ Attempted(q)'
        BY <4>2, Zenon DEF InOrder
      <4>4. cb'[q].size \in Nat
        BY SeqElement DEF TypeOK, CbOK, Req, Aiocb
      <4>5. QED
        BY <4>3, <4>4 DEF Attempted
    <3>3. QED
      BY <3>1, <3>2
  <2>2. Partial(r)'
    BY <1>2, <1>3, <1>4, <2>1 DEF Partial
  <2>3. QED
    BY <1>2, <1>3, <1>4, <2>2, Zenon DEF CutShort
<1>5. CASE p = "read"
  <2>1. s.peer = "open" => "read" \notin Mask(s)
    BY <1>2, <1>5, NotReadable, Zenon
  <2>2. QED
    BY <1>4, <1>5, <2>1, Zenon DEF Fine, Owed
<1>6. CASE p = "write"
  BY <1>2, <1>6, Zenon DEF Fine, Owed
<1>7. QED
  BY <1>1, <1>5, <1>6 DEF Op

-----------------------------------------------------------------------------
(* handleEvents.                                                           *)

\* Moving on loses no announcement but that of the side that was handled.
LEMMA NextSideKept ==
  ASSUME TypeOK, AtEvent, NextSide, UNCHANGED <<poller, events, chSignal>>,
         NEW c \in Conn, NEW o \in Op,
         ~ (c = events[loop.i].ident /\ o = loop.side /\ o \in events[loop.i].ev),
         Announced(c, o)
  PROVE  Announced(c, o)'
<1>1. /\ loop.pc = "events" /\ loop.i \in Nat /\ loop.side \in Op /\ InEvents
      /\ DOMAIN events \subseteq Nat
  BY SeqLength DEF AtEvent, TypeOK, LoopOK, InEvents, PollOK
<1>2. InEvents'
  BY <1>1, LoopMoves, Zenon DEF TypeOK, LoopTo, InEvents
<1>3. PICK k \in DOMAIN events :
        /\ events[k].ident = c /\ o \in events[k].ev
        /\ \/ poller = "send" \/ chSignal
           \/ k > loop.i \/ (k = loop.i /\ loop.side \in {"read", o})
  BY DEF Announced
<1>4. CASE poller = "send" \/ chSignal
  BY <1>3, <1>4 DEF Announced
<1>5. CASE k > loop.i \/ (k = loop.i /\ loop.side \in {"read", o})
  <2>1. CASE loop.side = "read"
    <3>1. loop'.side = "write" /\ loop'.i = loop.i
      BY <2>1 DEF NextSide, TypeOK, LoopOK
    <3>2. k = loop.i => o = "write"
      BY <1>3, <2>1 DEF Op
    <3>3. k > loop'.i \/ (k = loop'.i /\ loop'.side \in {"read", o})
      BY <1>5, <3>1, <3>2
    <3>4. QED
      BY <1>2, <1>3, <3>3 DEF Announced
  <2>2. CASE loop.side = "write"
    <3>1. loop'.side = "read" /\ loop'.i = loop.i + 1
      BY <2>2 DEF NextSide, TypeOK, LoopOK
    <3>2. k > loop.i
      BY <1>3, <1>5, <2>2
    <3>3. k > loop'.i \/ (k = loop'.i /\ loop'.side \in {"read", o})
      BY <1>1, <3>1, <3>2
    <3>4. QED
      BY <1>2, <1>3, <3>3 DEF Announced
  <2>3. QED
    BY <1>1, <2>1, <2>2 DEF Op
<1>6. QED
  BY <1>3, <1>4, <1>5

\* Outside the batch nothing in it is announced, unless it is on its way.
LEMMA NotAnnounced ==
  ASSUME TypeOK, Handshake, poller # "send", ~ chSignal,
         ~ InEvents \/ loop.i > Len(events), NEW c \in Conn, NEW o \in Op
  PROVE  ~ Announced(c, o)
<1>1. Len(events) \in Nat /\ DOMAIN events = 1 .. Len(events) /\ loop.i \in Nat
  BY SeqLength DEF TypeOK, PollOK, LoopOK
<1>2. ASSUME NEW k \in DOMAIN events, k > loop.i \/ k = loop.i, loop.i > Len(events) PROVE FALSE
  BY <1>1, <1>2
<1>3. QED
  BY <1>2 DEF Announced

\* handleEvents gets the batch, and comes to its end.
LEMMA BatchFine ==
  ASSUME TypeOK, Handshake, Cursor, AllFine, LoopSignal \/ EventsEnd \/ EventsDie
  PROVE  AllFine'
<1>1. /\ UNCHANGED <<cb, sock, queue, poller, events>> /\ Req' = Req /\ LoopOK
      /\ Len(events) \in Nat /\ DOMAIN events = 1 .. Len(events) /\ loop.i \in Nat
  BY SeqLength, KeptSame DEF LoopSignal, EventsEnd, EventsDie, EventRest, pollVars, TypeOK, PollOK,
                             LoopOK
<1>2. CASE LoopSignal
  <2>1. loop' = [loop EXCEPT !.pc = "events"] /\ loop.pc = "select" /\ chSignal
    BY <1>2 DEF LoopSignal, Goto
  <2>2. InEvents' /\ ~ InEvents /\ loop'.i = loop.i /\ loop'.side = loop.side
    BY <1>1, <2>1 DEF LoopOK, InEvents
  <2>3. loop.i = 1 /\ loop.side = "read"
    BY <2>2 DEF Cursor
  <2>4. ASSUME NEW c \in Conn, NEW o \in Op, Announced(c, o) PROVE Announced(c, o)'
    <3>1. PICK k \in DOMAIN events : events[k].ident = c /\ o \in events[k].ev
      BY <2>4 DEF Announced
    <3>2. k > loop'.i \/ (k = loop'.i /\ loop'.side \in {"read", o})
      BY <1>1, <2>2, <2>3
    <3>3. QED
      BY <1>1, <2>2, <3>1, <3>2 DEF Announced
  <2>5. QED
    BY <1>1, <2>4, QuietFine, KeptSame DEF Untold
<1>3. CASE EventsEnd \/ EventsDie
  <2>1. /\ loop.pc = "events" /\ loop.i > Len(events)
        /\ \E pc \in {"select", "exit"} : loop' = [loop EXCEPT !.pc = pc, !.i = 1]
    BY <1>3 DEF EventsEnd, EventsDie
  <2>2. InEvents /\ ~ InEvents' /\ loop'.i = 1 /\ loop'.side = loop.side
    BY <1>1, <2>1 DEF LoopOK, InEvents
  <2>3. poller # "send" /\ ~ chSignal
    BY <2>2 DEF Handshake
  <2>4. \A c \in Conn, o \in Op : ~ Announced(c, o)
    BY <2>1, <2>3, NotAnnounced
  <2>5. QED
    BY <1>1, <2>4, QuietFine, KeptSame DEF Untold
<1>4. QED
  BY <1>2, <1>3

\* A side is passed over only if nothing is queued on it or it is not reported.
LEMMA SkipFine ==
  ASSUME TypeOK, Lists, PlacesInv, AllFine, EventSkip
  PROVE  AllFine'
<1>1. /\ AtEvent /\ NextSide /\ UNCHANGED <<cb, sock, queue, poller, events, chSignal>>
      /\ Req' = Req
  BY KeptSame DEF EventSkip, EventRest, pollVars
<1>2. ASSUME NEW c \in Conn, NEW o \in Op, queue[<<c, o>>] # <<>>, c = events[loop.i].ident,
             o = loop.side, o \in events[loop.i].ev
      PROVE  FALSE
  <2>1. c \in registered
    BY <1>2 DEF PlacesInv, Control
  <2>2. Head(queue[<<c, o>>]) \in Req
    BY <1>2, TailFacts DEF Lists
  <2>3. Req \subseteq Id
    BY MaxReqAssumption, SeqLength DEF TypeOK, CbOK, Req, Id
  <2>4. Retrying(c, Head(queue[<<c, o>>]))
    BY <1>1, <1>2, <2>1 DEF Retrying
  <2>5. QED
    BY <2>2, <2>3, <2>4 DEF EventSkip
<1>3. ASSUME NEW c \in Conn, NEW o \in Op, queue[<<c, o>>] # <<>> PROVE Fine(c, o)'
  <2>1. Announced(c, o) => Announced(c, o)'
    BY <1>1, <1>2, <1>3, NextSideKept
  <2>2. CutShort(c, o) => CutShort(c, o)'
    <3>1. CutShort(c, o) => sock'[c].peer # "open"
      BY <1>1 DEF CutShort
    <3>2. Kept /\ \A q \in Req : Untold(q)
      BY <1>1, KeptSame DEF Untold
    <3>3. QED
      BY <1>1, <3>1, <3>2, CutKept
  <2>3. QED
    BY <1>1, <1>3, <2>1, <2>2, FineKept, Zenon DEF AllFine
<1>4. QED
  BY <1>1, <1>3, Zenon DEF AllFine, Fine, Owed

\* A retried request completes: the loop stays at the event for those behind it.
LEMMA DoneFine ==
  ASSUME TypeOK, Lists, QueuedIs, PlacesInv, Kept, Cursor, AllFine, NEW c \in Conn,
         NEW r \in Id, EventDone(c, r)
  PROVE  AllFine'
<1> DEFINE o == loop.side
<1>1. /\ Retrying(c, r) /\ Try(r).done /\ Attempt(r) /\ Deliver(r, "events")
      /\ queue' = [queue EXCEPT ![<<c, o>>] = Tail(@)] /\ UNCHANGED <<poller, events, chSignal>>
  BY DEF EventDone, EventRest, pollVars
<1>2. r \in Req /\ r \in Queued /\ cb[r].conn = c /\ cb[r].op = o /\ o \in Op
  BY <1>1, RetryingFacts, Zenon
<1>3. Tries(r) /\ Req' = Req
  <2>1. First(r)
    BY <1>1, FirstQueued
  <2>2. r \in Hand'
    BY <1>1, LoopMoves, Zenon DEF TypeOK, LoopTo, Hand
  <2>3. Req' = Req
    BY <1>1, <1>2, KeptAttempt, Zenon DEF TypeOK
  <2>4. QED
    BY <1>1, <1>2, <2>1, <2>2, <2>3, Zenon DEF Tries, Outstanding
<1>4. /\ loop.pc = "events" /\ loop.i \in DOMAIN events
      /\ events[loop.i].ident = c /\ o \in events[loop.i].ev
      /\ loop'.pc = "send" /\ loop'.ret = "events" /\ loop'.i = loop.i /\ loop'.side = o
  <2>1. loop.pc = "events" /\ loop.i <= Len(events) /\ events[loop.i].ident = c
        /\ o \in events[loop.i].ev
    BY <1>1, Zenon DEF Retrying, AtEvent
  <2>2. loop' = [loop EXCEPT !.pc = "send", !.cur = r, !.ret = "events"]
    BY <1>1 DEF Deliver
  <2>3. loop'.pc = "send" /\ loop'.ret = "events" /\ loop'.i = loop.i /\ loop'.side = o
    BY <2>2 DEF TypeOK, LoopOK
  <2>4. loop.i \in DOMAIN events
    <3>1. loop.i \in Nat /\ Len(events) \in Nat /\ DOMAIN events = 1 .. Len(events)
      BY SeqLength DEF TypeOK, PollOK, LoopOK
    <3>2. QED
      BY <2>1, <3>1 DEF Cursor
  <2>5. QED
    BY <2>1, <2>3, <2>4
<1>5. Announced(c, o)'
  BY <1>1, <1>4, Zenon DEF Announced, InEvents
<1>6. PICK p \in Op : p = o
  BY <1>2
<1>7. Fine(c, p)'
  <2>1. Announced(c, p)'
    BY <1>4, <1>5, <1>6 DEF Announced
  <2>2. QED
    BY <2>1 DEF Fine
<1>8. ASSUME NEW d \in Conn, NEW q \in Op, d # c \/ q # p
      PROVE  queue'[<<d, q>>] = queue[<<d, q>>] /\ (Announced(d, q) => Announced(d, q)')
  <2>1. <<d, q>> # <<c, o>> /\ <<d, q>> \in Conn \X Op /\ DOMAIN queue = Conn \X Op
    BY <1>6, <1>8 DEF TypeOK, QueuesOK
  <2>2. LoopStays
    BY LoopStaysStep, <1>2 DEF TypeOK
  <2>3. QED
    BY <1>1, <2>1, <2>2, AnnouncedKept
<1>9. QED
  <2>1. \A d \in Conn, q \in Op : d # c \/ q # p =>
          /\ queue'[<<d, q>>] # <<>> => queue[<<d, q>>] # <<>>
          /\ queue[<<d, q>>] # <<>> /\ Announced(d, q) => Announced(d, q)'
    BY <1>8, Zenon
  <2>2. c = cb[r].conn /\ p = cb[r].op
    BY <1>2, <1>6, Zenon
  <2>3. QED
    BY <1>2, <1>3, <1>7, <2>1, <2>2, TriesFine, Zenon

\* A retried request blocks: the loop moves on, and the socket is not ready.
LEMMA BlockedEventFine ==
  ASSUME TypeOK, TypeOK', Lists, QueuedIs, QueuedIs', PlacesInv, Kept, InOrder, InOrder',
         AllFine, NEW c \in Conn, NEW r \in Id, EventBlocked(c, r)
  PROVE  AllFine'
<1>1. /\ Retrying(c, r) /\ ~ Try(r).done /\ Attempt(r) /\ NextSide /\ AtEvent
      /\ UNCHANGED <<queue, poller, events, chSignal>>
      /\ c = events[loop.i].ident /\ loop.side \in events[loop.i].ev
  BY Zenon DEF EventBlocked, EventRest, pollVars, Retrying
<1>2. /\ r \in Req /\ r \in Queued /\ cb[r].conn = c /\ cb[r].op = loop.side
      /\ loop.side \in Op /\ r \in Elems(queue[<<c, loop.side>>]) /\ loop.conn = NoConn
  BY <1>1, RetryingFacts, Zenon
<1>3. Tries(r) /\ Req' = Req
  <2>1. First(r)
    BY <1>1, FirstQueued, Zenon
  <2>2. Req' = Req
    BY <1>1, <1>2, KeptAttempt, Zenon DEF TypeOK
  <2>3. QED
    BY <1>1, <1>2, <2>1, <2>2, Zenon DEF Tries, Outstanding
<1>4. PICK p \in Op : p = loop.side
  BY <1>2
<1>5. r \in Outstanding'
  <2>1. loop'.conn = NoConn
    BY <1>1, <1>2, LoopMoves, Zenon DEF TypeOK, LoopTo
  <2>2. r \in Elems(queue'[<<c, p>>])
    BY <1>1, <1>2, <1>4, Zenon
  <2>3. r \in Queued'
    BY <2>1, <2>2, Zenon DEF QueuedIs
  <2>4. QED
    BY <2>3 DEF Outstanding
<1>6. Fine(c, p)'
  BY <1>1, <1>2, <1>3, <1>4, <1>5, BlockedFine, Zenon
<1>7. ASSUME NEW d \in Conn, NEW q \in Op, d # c \/ q # p
      PROVE  queue'[<<d, q>>] = queue[<<d, q>>] /\ (Announced(d, q) => Announced(d, q)')
  <2>1. ~ (d = events[loop.i].ident /\ q = loop.side /\ q \in events[loop.i].ev)
    BY <1>1, <1>4, <1>7, Zenon
  <2>2. QED
    BY <1>1, <2>1, NextSideKept, Zenon
<1>8. QED
  <2>1. \A d \in Conn, q \in Op : d # c \/ q # p =>
          /\ queue'[<<d, q>>] # <<>> => queue[<<d, q>>] # <<>>
          /\ queue[<<d, q>>] # <<>> /\ Announced(d, q) => Announced(d, q)'
    BY <1>7, Zenon
  <2>2. c = cb[r].conn /\ p = cb[r].op
    BY <1>2, <1>4, Zenon
  <2>3. QED
    BY <1>2, <1>3, <1>6, <2>1, <2>2, TriesFine, Zenon

-----------------------------------------------------------------------------
(* handlePending.                                                          *)

\* A request is attempted as it arrives only if nothing is queued before it.
LEMMA StartFine ==
  ASSUME TypeOK, TypeOK', Lists, QueuedIs, QueuedIs', PlacesInv, Kept, InOrder, InOrder', AllFine,
         NEW r \in Id, StartDone(r) \/ StartQueued(r)
  PROVE  AllFine'
<1>1. PICK c \in Conn, o \in Op : c = cb[r].conn /\ o = cb[r].op /\ r \in Req /\ r \in Outstanding
  <2>1. Handling(r) /\ cb[r].op \in Op
    BY Zenon DEF StartDone, StartQueued, Starting
  <2>2. r \in Req /\ r \in Outstanding
    BY <2>1, TakeHead DEF Handling, Outstanding
  <2>3. cb[r].conn \in Conn
    BY <2>2, SeqElement DEF TypeOK, CbOK, Req, Aiocb
  <2>4. QED
    BY <2>1, <2>2, <2>3
<1>2. LoopStays /\ UNCHANGED <<poller, events, chSignal>>
  BY LoopStaysStep DEF PendingStep, pollVars
<1>3. \A d \in Conn, q \in Op : Announced(d, q) => Announced(d, q)'
  BY <1>2, AnnouncedKept
<1>4. Starting(r) /\ loop.conn = NoConn
  BY StartingFacts, Zenon DEF StartDone, StartQueued, PlacesInv, Control, Releasing
<1>5. CASE StartDone(r)
  <2>1. /\ queue[<<c, o>>] = <<>> /\ Try(r).done /\ Attempt(r) /\ Deliver(r, "pending")
        /\ UNCHANGED queue
    BY <1>1, <1>5, Zenon DEF StartDone
  <2>2. First(r)
    BY <1>1, <1>4, <2>1, FirstStart, Zenon
  <2>3. r \in Hand' /\ Req' = Req
    BY <1>1, <2>1, LoopMoves, KeptAttempt, Zenon DEF TypeOK, LoopTo, Hand
  <2>4. Tries(r)
    BY <1>1, <2>1, <2>2, <2>3, Zenon DEF Tries
  <2>5. Fine(c, o)'
    BY <2>1 DEF Fine, Owed
  <2>6. QED
    BY <1>1, <1>3, <2>1, <2>3, <2>4, <2>5, TriesFine, Zenon
<1>6. ASSUME StartQueued(r)
      PROVE  /\ queue' = [queue EXCEPT ![<<c, o>>] = Append(queue[<<c, o>>], r)]
             /\ \A d \in Conn, q \in Op : d # c \/ q # o => queue'[<<d, q>>] = queue[<<d, q>>]
             /\ r \in Outstanding' /\ Goto("pending")
  <2>1. queue' = [queue EXCEPT ![<<c, o>>] = Append(queue[<<c, o>>], r)] /\ Goto("pending")
    BY <1>1, <1>6, Zenon DEF StartQueued
  <2>2. /\ DOMAIN queue = Conn \X Op /\ <<c, o>> \in Conn \X Op /\ queue[<<c, o>>] \in Seq(Nat)
        /\ r \in Nat
    BY <1>1, Zenon DEF TypeOK, QueuesOK, Lists
  <2>3. ASSUME NEW d \in Conn, NEW q \in Op, d # c \/ q # o PROVE queue'[<<d, q>>] = queue[<<d, q>>]
    BY <2>1, <2>2, <2>3
  <2>4. r \in Elems(queue'[<<c, o>>])
    BY <2>1, <2>2, AppendFacts
  <2>5. loop'.conn = NoConn
    BY <1>4, <2>1, LoopMoves, Zenon DEF TypeOK, LoopTo
  <2>6. r \in Queued'
    BY <2>4, <2>5, Zenon DEF QueuedIs
  <2>7. QED
    BY <2>1, <2>3, <2>6 DEF Outstanding
<1>7. CASE StartQueued(r) /\ queue[<<c, o>>] = <<>>
  <2>1. ~ Try(r).done /\ Attempt(r)
    BY <1>1, <1>7, Zenon DEF StartQueued
  <2>2. First(r)
    BY <1>1, <1>4, <1>7, FirstStart, Zenon
  <2>3. Tries(r) /\ Req' = Req
    BY <1>1, <2>1, <2>2, KeptAttempt, Zenon DEF Tries, TypeOK
  <2>4. Fine(c, o)'
    BY <1>1, <1>6, <1>7, <2>1, <2>3, BlockedFine
  <2>5. QED
    BY <1>1, <1>3, <1>6, <1>7, <2>3, <2>4, TriesFine
<1>8. CASE StartQueued(r) /\ queue[<<c, o>>] # <<>>
  <2>1. UNCHANGED <<cb, sock>> /\ Req' = Req
    BY <1>1, <1>8, KeptSame, Zenon DEF StartQueued
  <2>2. \A d \in Conn, q \in Op : queue'[<<d, q>>] # <<>> => queue[<<d, q>>] # <<>>
    BY <1>6, <1>8
  <2>3. QED
    BY <1>3, <2>1, <2>2, QuietFine, Zenon DEF Untold
<1>9. QED
  BY <1>5, <1>7, <1>8, Zenon

\* The steps of the loop that attempt nothing.
LEMMA QuietLoopFine ==
  ASSUME TypeOK, Lists, PlacesInv, Kept, AllFine,
         \/ Send \/ SendDie \/ ReleaseNext \/ ReleaseEnd \/ TimerStep \/ ExitStep
         \/ LoopNotified \/ LoopSwap \/ PendingEnd
         \/ \E r \in Id : \/ PendingFree(r) \/ PendingDup(r) \/ PendingDupFails(r)
                          \/ PendingWatch(r) \/ PendingWatchFails(r) \/ StartFree(r)
  PROVE  AllFine'
<1> DEFINE Calm == \A c \in Conn, o \in Op : queue'[<<c, o>>] # <<>> =>
                     queue[<<c, o>>] # <<>> /\ sock'[c] = sock[c]
           Silent == Req' = Req /\ \A q \in Req : Untold(q)
<1>1. \A c \in Conn, o \in Op : Announced(c, o) => Announced(c, o)'
  <2>1. LoopStays /\ UNCHANGED pollVars
    BY LoopStaysStep, Zenon DEF PendingStep
  <2>2. UNCHANGED <<poller, events, chSignal>>
    BY <2>1 DEF pollVars
  <2>3. QED
    BY <2>1, <2>2, AnnouncedKept
<1>2. UNCHANGED cb => Silent
  BY KeptSame DEF Untold
<1>3. ASSUME NEW r \in Req, NEW e \in {"dup", "watch", "closed", "deadline"}, Fail(r, e) PROVE Silent
  <2>1. e \in Error
    BY DEF Error
  <2>2. QED
    BY <1>3, <2>1, FailUntold, KeptFail, Zenon DEF TypeOK
<1>4. UNCHANGED <<sock, queue>> => Calm
  OBVIOUS
<1>5. ASSUME NEW c \in Conn, c \notin registered, UNCHANGED queue,
             \A d \in Conn : d # c => sock'[d] = sock[d]
      PROVE  Calm
  BY <1>5, Zenon DEF PlacesInv, Control
<1>6. ASSUME NEW r, Handling(r) PROVE r \in Req /\ cb[r].conn \in Conn
  <2>1. r \in Req
    BY <1>6, TakeHead DEF Handling
  <2>2. QED
    BY <2>1, SeqElement DEF TypeOK, CbOK, Req, Aiocb
<1>7. DOMAIN sock = Conn /\ DOMAIN queue = Conn \X Op
  BY DEF TypeOK, SockOK, QueuesOK
<1> HIDE DEF Silent, Calm
<1>8. CASE Send \/ SendDie \/ ExitStep \/ LoopNotified \/ LoopSwap \/ PendingEnd
  <2>1. UNCHANGED <<cb, sock, queue>>
    BY <1>8, Zenon DEF Send, SendDie, ExitStep, LoopDie, ExitRelease, ExitDrain, ExitDone, ExitRest,
                       LoopNotified, LoopSwap, PendingEnd
  <2>2. QED
    BY <1>1, <1>2, <1>4, <2>1, QuietFine, Zenon DEF Silent, Calm
<1>9. CASE ReleaseNext
  <2>1. Head(loop.left) \in Req /\ Fail(Head(loop.left), "closed") /\ UNCHANGED <<sock, queue>>
    BY <1>9, TailFacts DEF ReleaseNext, Lists
  <2>2. Silent /\ Calm
    BY <1>3, <1>4, <2>1
  <2>3. QED
    BY <1>1, <2>2, QuietFine DEF Silent, Calm
<1>10. CASE ReleaseEnd
  <2>1. /\ queue' = [x \in Conn \X Op |-> IF x[1] = loop.conn THEN <<>> ELSE queue[x]]
        /\ sock' = [sock EXCEPT ![loop.conn] =
                      [[sock[loop.conn] EXCEPT !.fd = "closed"] EXCEPT !.ready = FALSE]]
        /\ UNCHANGED cb
    BY <1>10, Zenon DEF ReleaseEnd
  <2>2. ASSUME NEW c \in Conn, NEW o \in Op, queue'[<<c, o>>] # <<>>
        PROVE  c # loop.conn /\ queue[<<c, o>>] # <<>> /\ sock'[c] = sock[c]
    BY <1>7, <2>1, <2>2
  <2>3. Silent /\ Calm
    BY <1>2, <2>1, <2>2 DEF Calm
  <2>4. QED
    BY <1>1, <2>3, QuietFine DEF Silent, Calm
<1>11. CASE TimerStep
  <2>1. UNCHANGED sock
    BY <1>11, Zenon DEF TimerStep, LoopTick, TimerEnd, TimerExpire, TimerReset, TimerRest
  <2>2. CASE LoopTick \/ TimerEnd \/ \E r \in Id : TimerReset(r)
    <3>1. UNCHANGED <<cb, queue>>
      BY <2>2 DEF LoopTick, TimerEnd, TimerReset
    <3>2. Silent /\ Calm
      BY <1>2, <1>4, <2>1, <3>1
    <3>3. QED
      BY <1>1, <3>2, QuietFine DEF Silent, Calm
  <2>3. ASSUME NEW r \in Id, TimerExpire(r) PROVE Silent /\ Calm
    <3>1. /\ r \in Req /\ Fail(r, "deadline")
          /\ queue' = [queue EXCEPT ![<<cb[r].conn, cb[r].op>>] =
                         ListRemove(queue[<<cb[r].conn, cb[r].op>>], r)]
      BY <2>3, Zenon DEF TimerExpire, Earliest, TypeOK, QueuesOK
    <3>2. ListRemove(<<>>, r) = <<>>
      BY DEF ListRemove, Elems
    <3>3. \A x \in Conn \X Op : queue[x] = <<>> => queue'[x] = <<>>
      BY <1>7, <3>1, <3>2, Zenon
    <3>4. Calm
      BY <2>1, <3>3, Zenon DEF Calm
    <3>5. QED
      BY <1>3, <3>1, <3>4
  <2>4. QED
    <3>1. TimerStep /\ ~ (LoopTick \/ TimerEnd \/ \E r \in Id : TimerReset(r)) => Silent /\ Calm
      BY <2>3, Zenon DEF TimerStep
    <3>2. QED
      BY <1>1, <1>11, <2>2, <3>1, QuietFine, Zenon DEF Silent, Calm
<1>12. ASSUME NEW r \in Id, PendingFree(r) \/ StartFree(r) \/ PendingDupFails(r)
       PROVE  Silent /\ Calm
  <2>1. Handling(r) /\ UNCHANGED <<sock, queue>> /\ (UNCHANGED cb \/ Fail(r, "dup"))
    BY <1>12, Zenon DEF PendingFree, StartFree, PendingDupFails, Starting
  <2>2. QED
    BY <1>2, <1>3, <1>4, <1>6, <2>1
<1>13. ASSUME NEW r \in Id, PendingDup(r) \/ PendingWatch(r) \/ PendingWatchFails(r)
       PROVE  Silent /\ Calm
  <2>1. /\ Handling(r) /\ UNCHANGED queue /\ (UNCHANGED cb \/ Fail(r, "watch"))
        /\ loop.pc = "watch" \/ cb[r].conn \notin registered
        /\ \E s : sock' = [sock EXCEPT ![cb[r].conn] = s]
    BY <1>13, Zenon DEF PendingDup, PendingWatch, PendingWatchFails
  <2>2. r \in Req /\ cb[r].conn \in Conn
    BY <1>6, <2>1
  <2>3. cb[r].conn \notin registered
    BY <2>1, <2>2 DEF Handling, PlacesInv, Descriptors
  <2>4. Silent
    BY <1>2, <1>3, <2>1, <2>2
  <2>5. Calm
    BY <1>5, <1>7, <2>1, <2>2, <2>3, Zenon
  <2>6. QED
    BY <2>4, <2>5
<1>14. QED
  <2>1. (\E r \in Id : \/ PendingFree(r) \/ PendingDup(r) \/ PendingDupFails(r)
                       \/ PendingWatch(r) \/ PendingWatchFails(r) \/ StartFree(r)) => Silent /\ Calm
    BY <1>12, <1>13, Zenon
  <2>2. Silent /\ Calm => AllFine'
    BY <1>1, QuietFine DEF Silent, Calm
  <2>3. QED
    BY <1>8, <1>9, <1>10, <1>11, <2>1, <2>2

-----------------------------------------------------------------------------
(* The users, the poller and the peers.                                    *)

\* The users and the clock.
LEMMA UserFine ==
  ASSUME TypeOK, Kept, AllFine, \A q \in Req : Untold(q),
         \A q \in Req' : q \notin Req => cb'[q].size = 0 /\ cb'[q].err = "nil",
         \/ \E c \in Conn, s \in Shapes : Submit(c, s)
         \/ NotifyStep \/ WaitStep \/ CloseDie \/ CloseStep \/ ClockTick \/ TimerFires
         \/ UNCHANGED vars
  PROVE  LoopStays /\ AllFine'
<1>1. UNCHANGED <<sock, queue, poller, events, chSignal, loop>>
  BY Zenon DEF Submit, NotifyStep, Notify, WaitStep, WaitCall, WaitReceive, WaitCheck, WaitClosed,
               WaitOnly, CloseDie, CloseStep, ClosePoller, CloseWake, CloseDone, CloseRest,
               CloseDieChannel, Wakeup, ClockTick, TimerFires, ClockRest, pollVars, vars
<1>2. LoopStays
  BY <1>1 DEF LoopStays, InEvents
<1>3. \A c \in Conn, o \in Op : Announced(c, o) => Announced(c, o)'
  BY <1>1, <1>2, AnnouncedKept
<1>4. AllFine'
  BY <1>1, <1>3, QuietFine
<1>5. QED
  BY <1>2, <1>4

\* The poller announces what is ready before it clears the ready list.
LEMMA PollerFine ==
  ASSUME TypeOK, Handshake, Kept, AllFine, PollerStep /\ Others, poller' # "exit"
  PROVE  LoopStays /\ AllFine'
<1>1. UNCHANGED <<cb, queue, loop>> /\ Req' = Req
  BY KeptSame DEF Others
<1>2. LoopStays /\ \A q \in Req : Untold(q)
  BY <1>1 DEF LoopStays, InEvents, Untold
<1>3. CASE PollerTop \/ PollerAck
  <2>1. UNCHANGED sock /\ (poller = "top" \/ (poller = "ack" /\ done))
    BY <1>3 DEF PollerTop, PollerAck
  <2>2. poller # "send" /\ ~ chSignal /\ ~ InEvents
    BY <2>1 DEF Handshake
  <2>3. \A c \in Conn, o \in Op : ~ Announced(c, o)
    BY <2>2, NotAnnounced
  <2>4. QED
    BY <1>1, <1>2, <2>1, <2>3, QuietFine
<1>4. CASE PollerSend
  <2>1. UNCHANGED <<sock, events>> /\ chSignal'
    BY <1>4 DEF PollerSend
  <2>2. \A c \in Conn, o \in Op : Announced(c, o) => Announced(c, o)'
    BY <2>1 DEF Announced
  <2>3. QED
    BY <1>1, <1>2, <2>1, <2>2, QuietFine, Zenon
<1>5. CASE PollerWait
  <2> DEFINE S == {c \in Ready : Mask(sock[c]) # {}}
  <2>1. PICK list \in Listings(S) :
          /\ events' = events \o
               [i \in DOMAIN list |-> [ident |-> list[i], ev |-> Mask(sock[list[i]])]]
          /\ poller' = IF wake \/ list # <<>> THEN "send" ELSE "wait"
    BY <1>5, Zenon DEF PollerWait
  <2> DEFINE new == [i \in DOMAIN list |-> [ident |-> list[i], ev |-> Mask(sock[list[i]])]]
  <2>2. PICK k \in 0 .. Cardinality(S) : list \in [1 .. k -> S]
    BY Zenon DEF Listings
  <2> k \in Nat
    OBVIOUS
  <2>3. new \in [1 .. k -> Event]
    <3>1. \A i \in DOMAIN list : list[i] \in Conn
      BY <2>2, Zenon DEF Ready
    <3>2. \A x : Mask(x) \in SUBSET Op
      BY DEF Mask
    <3>3. QED
      BY <2>2, <3>1, <3>2, Zenon DEF Event
  <2>4. new \in Seq(Event) /\ Len(new) = k
    BY <2>2, <2>3, SeqFunction
  <2>5. ASSUME NEW c \in S
        PROVE  /\ poller' = "send"
               /\ \E j \in DOMAIN events' : events'[j].ident = c /\ events'[j].ev = Mask(sock[c])
    <3>1. PICK i \in DOMAIN list : list[i] = c
      BY DEF Listings
    <3>2. i \in 1 .. k /\ new[i] = [ident |-> c, ev |-> Mask(sock[c])]
      BY <2>2, <3>1
    <3>3. list # <<>>
      BY <2>2, <3>2
    <3> HIDE DEF new
    <3>4. events \in Seq(Event) /\ Len(events) \in Nat /\ events' = events \o new
      BY <2>1, SeqLength DEF TypeOK, PollOK, new
    <3>5. /\ events' \in Seq(Event) /\ Len(events') = Len(events) + k
          /\ Len(events) + i \in DOMAIN events' /\ events'[Len(events) + i] = new[i]
      <4>1. i \in 1 .. Len(new)
        BY <2>4, <3>2, Zenon
      <4>2. /\ events \o new \in Seq(Event) /\ Len(events \o new) = Len(events) + Len(new)
            /\ Len(events) + i \in DOMAIN (events \o new)
            /\ (events \o new)[Len(events) + i] = new[i]
        BY <2>4, <3>4, <4>1, AppendedAt, Zenon
      <4>3. QED
        BY <2>4, <3>4, <4>2, Zenon
    <3>6. Len(events) + i \in DOMAIN events'
      BY <3>5, Zenon
    <3>7. events'[Len(events) + i].ident = c /\ events'[Len(events) + i].ev = Mask(sock[c])
      BY <3>2, <3>5
    <3>8. poller' = "send"
      BY <2>1, <3>3
    <3>9. QED
      BY <3>6, <3>7, <3>8, Zenon
  <2>6. ASSUME NEW c \in Conn
        PROVE  /\ sock'[c].short = sock[c].short /\ sock'[c].peer = sock[c].peer
               /\ sock'[c].rcv = sock[c].rcv /\ Mask(sock'[c]) = Mask(sock[c])
    <3>1. sock'[c] = [sock[c] EXCEPT !.ready = FALSE] /\ sock[c] \in Sock
      BY <1>5 DEF PollerWait, TypeOK, SockOK
    <3>2. /\ sock'[c].short = sock[c].short /\ sock'[c].peer = sock[c].peer
          /\ sock'[c].rcv = sock[c].rcv /\ sock'[c].snd = sock[c].snd
      BY <3>1 DEF Sock
    <3>3. QED
      BY <3>2 DEF Mask
  <2>7. ASSUME NEW c \in Conn, NEW o \in Op PROVE Fine(c, o)'
    <3>1. Fine(c, o) /\ ~ Announced(c, o)
      <4>1. poller # "send" /\ ~ chSignal /\ ~ InEvents
        BY <1>5 DEF PollerWait, Handshake
      <4>2. QED
        BY <4>1, NotAnnounced DEF AllFine
    <3>2. CutShort(c, o) => CutShort(c, o)'
      <4>1. CutShort(c, o) => sock'[c].peer # "open"
        BY <2>6, Zenon DEF CutShort
      <4>2. QED
        BY <1>1, <1>2, <2>6, <4>1, CutKept, Zenon
    <3>3. Owed(c, o)' => Announced(c, o)'
      <4> SUFFICES ASSUME Owed(c, o)' PROVE Announced(c, o)'
        OBVIOUS
      <4>1. Owed(c, o) /\ o \in Mask(sock[c])
        BY <1>1, <2>6, <3>2, Zenon DEF Owed
      <4>2. c \in S
        BY <3>1, <4>1, Zenon DEF Fine, Ready
      <4>3. QED
        BY <2>5, <4>1, <4>2, Zenon DEF Announced
    <3>4. QED
      BY <1>1, <2>6, <3>1, <3>3, Zenon DEF Fine
  <2>8. QED
    BY <1>2, <2>7 DEF AllFine
<1>6. CASE PollerDie
  BY <1>6 DEF PollerDie
<1>7. QED
  BY <1>3, <1>4, <1>5, <1>6 DEF PollerStep

\* Whatever the peer does to a socket for which something is queued, the kernel
\* reports it, or nothing new is ready.
LEMMA PeerFine ==
  ASSUME TypeOK, PlacesInv, Kept, AllFine, PeerStep, UNCHANGED pollVars, Others
  PROVE  LoopStays /\ AllFine'
<1>1. UNCHANGED <<cb, queue, loop, poller, events, chSignal>> /\ Req' = Req
  BY KeptSame DEF Others, pollVars
<1>2. LoopStays /\ \A q \in Req : Untold(q)
  BY <1>1 DEF LoopStays, InEvents, Untold
<1>3. \A c \in Conn, o \in Op : Announced(c, o) => Announced(c, o)'
  BY <1>1, <1>2, AnnouncedKept
<1>4. PICK d \in Conn : PeerSends(d) \/ PeerCloses(d) \/ PeerResets(d) \/ PeerAcks(d)
  BY DEF PeerStep
<1>5. /\ DOMAIN sock = Conn /\ sock[d] \in Sock
      /\ DOMAIN sock[d] = {"fd", "rcv", "sent", "peer", "snd", "short", "ready"}
  BY DEF TypeOK, SockOK, Sock
<1> SUFFICES ASSUME NEW c \in Conn, NEW o \in Op, queue[<<c, o>>] # <<>> PROVE Fine(c, o)'
  BY <1>1, <1>2, Zenon DEF AllFine, Fine, Owed
<1>6. Fine(c, o) /\ sock[c].fd = "dup"
  BY DEF AllFine, PlacesInv, Control, Descriptors
<1>7. ASSUME sock'[c].peer = sock[c].peer, sock'[c].rcv = sock[c].rcv PROVE CutShort(c, o) => CutShort(c, o)'
  <2>1. CutShort(c, o) => sock'[c].peer # "open"
    BY <1>7 DEF CutShort
  <2>2. QED
    BY <1>1, <1>2, <1>7, <2>1, CutKept
<1>8. CASE c # d
  <2>1. sock'[c] = sock[c]
    BY <1>4, <1>5, <1>8 DEF PeerSends, PeerCloses, PeerResets, PeerAcks, Edge
  <2>2. QED
    BY <1>1, <1>3, <1>6, <1>7, <2>1, FineKept, Zenon
<1>9. ASSUME c = d, NEW s, Edge(d, s), s.fd = "dup", DOMAIN s = DOMAIN sock[d],
             \/ "write" \in Mask(s)
             \/ s.short = sock[d].short /\ ("write" \in Mask(sock[d]) => "write" \in Mask(s))
      PROVE  Fine(c, o)'
  <2>1. sock'[c] = [s EXCEPT !.ready = TRUE]
    BY <1>5, <1>9, Zenon DEF Edge
  <2>2. /\ sock'[c].ready /\ sock'[c].short = s.short /\ sock'[c].peer = s.peer
        /\ sock'[c].rcv = s.rcv /\ sock'[c].snd = s.snd
    BY <1>5, <1>9, <2>1
  <2>3. Mask(sock'[c]) = Mask(s)
    BY <2>2 DEF Mask
  <2>4. QED
    BY <1>1, <1>3, <1>6, <1>9, <2>2, <2>3, Zenon DEF Fine
<1>10. CASE c = d /\ PeerSends(d)
  <2> DEFINE s == [sock[d] EXCEPT !.rcv = @ + 1, !.sent = @ + 1]
  <2>1. Edge(d, s)
    BY <1>10 DEF PeerSends
  <2>2. /\ s.fd = sock[d].fd /\ DOMAIN s = DOMAIN sock[d] /\ s.short = sock[d].short
        /\ s.snd = sock[d].snd /\ s.peer = sock[d].peer
    BY <1>5
  <2> HIDE DEF s
  <2>3. "write" \in Mask(sock[d]) => "write" \in Mask(s)
    BY <2>2 DEF Mask
  <2>4. QED
    BY <1>6, <1>9, <1>10, <2>1, <2>2, <2>3, Zenon
<1>11. CASE c = d /\ PeerCloses(d)
  <2> DEFINE s == [sock[d] EXCEPT !.peer = "fin"]
  <2>1. Edge(d, s) /\ sock[d].peer = "open"
    BY <1>11 DEF PeerCloses
  <2>2. /\ s.fd = sock[d].fd /\ DOMAIN s = DOMAIN sock[d] /\ s.short = sock[d].short
        /\ s.snd = sock[d].snd
    BY <1>5
  <2> HIDE DEF s
  <2>3. "write" \in Mask(sock[d]) => "write" \in Mask(s)
    BY <2>1, <2>2 DEF Mask
  <2>4. QED
    BY <1>6, <1>9, <1>11, <2>1, <2>2, <2>3, Zenon
<1>12. CASE c = d /\ PeerResets(d)
  <2> DEFINE s == [sock[d] EXCEPT !.peer = "rst"]
  <2>1. Edge(d, s)
    BY <1>12 DEF PeerResets
  <2>2. s.fd = sock[d].fd /\ DOMAIN s = DOMAIN sock[d] /\ s.peer = "rst"
    BY <1>5
  <2> HIDE DEF s
  <2>3. "write" \in Mask(s)
    BY <2>2 DEF Mask, Op
  <2>4. QED
    BY <1>6, <1>9, <1>12, <2>1, <2>2, <2>3, Zenon
<1>13. CASE c = d /\ PeerAcks(d) /\ sock[d].short
  <2> DEFINE s == [sock[d] EXCEPT !.snd = 0, !.short = FALSE]
  <2>1. Edge(d, s)
    BY <1>13 DEF PeerAcks
  <2>2. s.fd = sock[d].fd /\ DOMAIN s = DOMAIN sock[d] /\ s.snd = 0
    BY <1>5
  <2> HIDE DEF s
  <2>3. "write" \in Mask(s)
    BY <2>2, SndBufAssumption DEF Mask, Op
  <2>4. QED
    BY <1>6, <1>9, <1>13, <2>1, <2>2, <2>3, Zenon
<1>14. CASE c = d /\ PeerAcks(d) /\ ~ sock[d].short
  <2>1. sock'[c] = [sock[c] EXCEPT !.snd = 0]
    BY <1>5, <1>14 DEF PeerAcks
  <2>2. /\ sock'[c].ready = sock[c].ready /\ sock'[c].short = sock[c].short
        /\ sock'[c].peer = sock[c].peer /\ sock'[c].rcv = sock[c].rcv /\ sock'[c].snd = 0
    BY <1>5, <1>14, <2>1
  <2>3. CASE o = "read"
    <3>1. o \in Mask(sock'[c]) <=> o \in Mask(sock[c])
      BY <2>2, <2>3 DEF Mask
    <3>2. QED
      BY <1>1, <1>3, <1>6, <1>7, <2>2, <2>3, <3>1, FineKept, Zenon
  <2>4. CASE o = "write"
    <3>1. "write" \in Mask(sock'[c])
      BY <2>2, SndBufAssumption DEF Mask, Op
    <3>2. ~ CutShort(c, o)
      BY <2>4 DEF CutShort
    <3>3. sock[c].ready \/ Announced(c, o)
      BY <1>6, <1>14, <2>4, <3>2 DEF Fine, Owed
    <3>4. QED
      BY <1>3, <2>2, <2>4, <3>1, <3>3 DEF Fine
  <2>5. QED
    BY <2>3, <2>4 DEF Op
<1>15. QED
  BY <1>4, <1>8, <1>10, <1>11, <1>12, <1>13, <1>14, Zenon

-----------------------------------------------------------------------------
(* Every step.                                                             *)

\* The loop.
LEMMA LoopFine ==
  ASSUME TypeOK, TypeOK', Lists, QueuedIs, QueuedIs', PlacesInv, Handshake, Kept, InOrder, InOrder',
         Cursor, AllFine, LoopStep
  PROVE  AllFine'
<1>1. CASE LoopSignal \/ EventsEnd \/ EventsDie
  BY <1>1, BatchFine
<1>2. CASE EventSkip
  BY <1>2, SkipFine
<1>3. ASSUME NEW c \in Conn, NEW r \in Id, EventDone(c, r) PROVE AllFine'
  BY <1>3, DoneFine
<1>4. ASSUME NEW c \in Conn, NEW r \in Id, EventBlocked(c, r) PROVE AllFine'
  BY <1>4, BlockedEventFine
<1>5. ASSUME NEW r \in Id, StartDone(r) \/ StartQueued(r) PROVE AllFine'
  BY <1>5, StartFine
<1>6. CASE \/ Send \/ SendDie \/ ReleaseNext \/ ReleaseEnd \/ TimerStep \/ ExitStep
           \/ LoopNotified \/ LoopSwap \/ PendingEnd
           \/ \E r \in Id : \/ PendingFree(r) \/ PendingDup(r) \/ PendingDupFails(r)
                            \/ PendingWatch(r) \/ PendingWatchFails(r) \/ StartFree(r)
  BY <1>6, QuietLoopFine
<1>7. QED
  BY <1>1, <1>2, <1>3, <1>4, <1>5, <1>6, Zenon DEF LoopStep, EventStep, PendingStep

\* Moving on keeps the cursor in the batch.
LEMMA NextSideCursor ==
  ASSUME TypeOK, Cursor, AtEvent, NextSide, UNCHANGED events
  PROVE  Cursor'
<1>1. InEvents'
  BY LoopMoves, Zenon DEF AtEvent, TypeOK, LoopTo, InEvents
<1>2. (loop'.side = "write" => loop'.i = loop.i) /\ loop'.i > 0
  <2> loop.i \in Nat /\ loop.i > 0
    BY DEF TypeOK, LoopOK, Cursor
  <2>1. CASE loop.side = "read"
    BY <2>1 DEF NextSide, TypeOK, LoopOK
  <2>2. CASE loop.side # "read"
    BY <2>2 DEF NextSide, TypeOK, LoopOK
  <2>3. QED
    BY <2>1, <2>2
<1>3. QED
  BY <1>1, <1>2 DEF Cursor, AtEvent

\* Getting a batch and coming to its end.
LEMMA BatchCursor ==
  ASSUME TypeOK, Cursor, LoopSignal \/ EventsEnd \/ EventsDie
  PROVE  Cursor'
<1>1. Len(events) \in Nat /\ LoopOK /\ loop.i \in Nat
  BY SeqLength, Zenon DEF TypeOK, PollOK, LoopOK
<1>2. CASE LoopSignal
  <2>1. loop' = [loop EXCEPT !.pc = "events"] /\ loop.pc = "select"
    BY <1>2 DEF LoopSignal, Goto
  <2>2. ~ InEvents /\ loop'.i = loop.i /\ loop'.side = loop.side /\ InEvents'
    BY <1>1, <2>1 DEF LoopOK, InEvents
  <2>3. QED
    BY <2>2 DEF Cursor
<1>3. CASE EventsEnd \/ EventsDie
  <2>1. /\ loop.pc = "events" /\ loop.i > Len(events)
        /\ \E pc \in {"select", "exit"} : loop' = [loop EXCEPT !.pc = pc, !.i = 1]
    BY <1>3 DEF EventsEnd, EventsDie
  <2>2. InEvents /\ ~ InEvents' /\ loop'.i = 1 /\ loop'.side = loop.side
    BY <1>1, <2>1 DEF LoopOK, InEvents
  <2>3. loop.side = "read"
    BY <1>1, <2>1, <2>2 DEF Cursor, LoopOK, Op
  <2>4. QED
    BY <2>2, <2>3 DEF Cursor
<1>4. QED
  BY <1>2, <1>3

\* The cursor moves in handleEvents only, whatever has become of the poller.
LEMMA CursorStep ==
  ASSUME TypeOK, Handshake, Cursor, [Next]_vars
  PROVE  Cursor'
<1>1. CASE LoopSignal \/ EventsEnd \/ EventsDie
  BY <1>1, BatchCursor
<1>2. CASE EventSkip \/ \E c \in Conn, r \in Id : EventBlocked(c, r)
  <2>1. AtEvent /\ NextSide /\ UNCHANGED events
    BY <1>2, Zenon DEF EventSkip, EventBlocked, Retrying, EventRest, pollVars
  <2>2. QED
    BY <2>1, NextSideCursor
<1>3. CASE \/ Send \/ SendDie \/ ReleaseNext \/ ReleaseEnd \/ PendingStep \/ TimerStep \/ ExitStep
           \/ \E c \in Conn, r \in Id : EventDone(c, r)
  BY <1>3, LoopStaysStep, CursorKept DEF pollVars
<1>4. CASE UNCHANGED loop
  <2>1. LoopStays
    BY <1>4 DEF LoopStays, InEvents
  <2>2. QED
    BY <2>1, EventsKept, CursorKept
<1>5. CASE \/ \E c \in Conn, s \in Shapes : Submit(c, s)
           \/ NotifyStep \/ WaitStep \/ CloseDie \/ CloseStep \/ ClockTick \/ TimerFires
           \/ (PollerStep /\ Others) \/ (PeerStep /\ UNCHANGED pollVars /\ Others) \/ UNCHANGED vars
  <2>1. UNCHANGED loop
    BY <1>5, Zenon
       DEF Submit, NotifyStep, Notify, WaitStep, WaitCall, WaitReceive, WaitCheck, WaitClosed, WaitOnly,
           CloseDie, CloseStep, ClosePoller, CloseWake, CloseDone, CloseRest, ClockTick, TimerFires,
           ClockRest, Others, vars
  <2>2. QED
    BY <1>4, <2>1
<1>6. QED
  BY <1>1, <1>2, <1>3, <1>5, Zenon DEF Next, LoopStep, EventStep

\* The poller does not come back.
LEMMA PollerGone ==
  ASSUME poller = "exit", [Next]_vars
  PROVE  poller' = "exit"
<1>1. CASE PollerStep /\ Others
  BY <1>1 DEF PollerStep, PollerTop, PollerWait, PollerSend, PollerAck, PollerDie
<1>2. CASE LoopStep
  BY <1>2, Zenon DEF LoopStep, Send, SendDie, ReleaseNext, ReleaseEnd,
              PendingStep, LoopNotified, LoopSwap, PendingEnd, PendingFree, PendingDup,
              PendingDupFails, PendingWatch, PendingWatchFails, StartDone, StartQueued,
              StartFree, PendingRest,
              EventStep, LoopSignal, EventDone, EventBlocked, EventSkip, EventsEnd,
              EventsDie, EventRest,
              TimerStep, LoopTick, TimerEnd, TimerExpire, TimerReset, TimerRest,
              ExitStep, LoopDie, ExitRelease, ExitDrain, ExitDone, ExitRest, pollVars
<1>3. CASE \E c \in Conn, s \in Shapes : Submit(c, s)
  BY <1>3, Zenon DEF Submit, pollVars
<1>4. CASE NotifyStep \/ WaitStep \/ CloseDie \/ CloseStep \/ ClockTick \/ TimerFires
  BY <1>4, Zenon DEF NotifyStep, Notify, WaitStep, WaitCall, WaitReceive, WaitCheck, WaitClosed,
              WaitOnly, CloseDie, CloseStep, ClosePoller, CloseWake, CloseDone,
              CloseDieChannel, Wakeup, ClockTick, TimerFires, ClockRest, pollVars
<1>5. CASE UNCHANGED pollVars \/ UNCHANGED vars
  BY <1>5 DEF pollVars, vars
<1>6. QED
  BY <1>1, <1>2, <1>3, <1>4, <1>5, Zenon DEF Next

\* Nothing is queued at the start.
LEMMA InitReady == Init => ReadyInv
<1> SUFFICES ASSUME Init PROVE ReadyInv
  OBVIOUS
<1>1. Cursor
  BY DEF Init, Cursor, InEvents
<1>2. Req = {}
  BY DEF Init, Req
<1>3. InOrder
  BY <1>2 DEF InOrder
<1>4. \A c \in Conn, o \in Op : Fine(c, o)
  BY DEF Init, Fine, Owed
<1>5. QED
  BY <1>1, <1>3, <1>4 DEF ReadyInv
=============================================================================
