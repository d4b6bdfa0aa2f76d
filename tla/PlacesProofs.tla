---------------------------- MODULE PlacesProofs ----------------------------
(* Where every request is, for any connections, requests and bounds: in    *)
(* one place at a time, delivered once and then left alone.  At the end,   *)
(* what a step means to the users of the watcher.                          *)
EXTENDS WatcherProofs

-----------------------------------------------------------------------------
(* Steps that move no request.                                             *)

\* The queued requests, the lists and deliver's request are the same.
Still ==
  /\ Kept /\ Req' = Req
  /\ UNCHANGED <<create, processing, queue, timeouts, chResults, returned>>
  /\ loop'.conn = loop.conn /\ loop'.left = loop.left
  /\ Hand' = Hand /\ (die => die')

\* Then so is where every request is.
LEMMA StillPlaces ==
  ASSUME Lists, QueuedIs, PlacesInv, Still
  PROVE  Own' /\ Sorted' /\ Where' /\ DeadlinesTracked' /\ Queued' = Queued
<1>1. \A r \in Req : cb'[r].conn = cb[r].conn /\ cb'[r].op = cb[r].op
                     /\ cb'[r].deadline = cb[r].deadline
  BY Zenon DEF Still, Kept, SameAsk
<1>2. Own'
  BY OwnStep, Zenon DEF Still, PlacesInv
<1>3. Sorted'
  BY Zenon DEF Still, Sorted, PlacesInv
<1>4. Queued' = Queued
  BY Zenon DEF Still, Queued, Remaining
<1>5. Where'
  BY <1>1, <1>4, Zenon DEF Still, Where, PlacesInv
<1>6. DeadlinesTracked'
  BY <1>1, <1>4 DEF Still, QueuedIs, DeadlinesTracked, PlacesInv
<1>7. QED
  BY <1>2, <1>3, <1>4, <1>5, <1>6

\* Nothing the invariants speak of changes, but that die may be closed.
LEMMA QuietInv ==
  ASSUME Lists, QueuedIs, PlacesInv,
         UNCHANGED <<cb, create, processing, registered, queue, timeouts, chResults,
                     returned, loop>>,
         \A c \in Conn : sock'[c].fd = sock[c].fd, die => die'
  PROVE  PlacesInv' /\ Still
<1>1. Kept /\ Req' = Req
  BY KeptSame
<1>2. Still
  BY <1>1, Zenon DEF Still, Hand
<1>3. Own' /\ Sorted' /\ Where' /\ DeadlinesTracked'
  BY <1>2, StillPlaces
<1>4. Control'
  BY Zenon DEF PlacesInv, Control, Releasing, InPending
<1>5. Descriptors'
  BY DEF PlacesInv, Descriptors
<1>6. Swept'
  BY DEF PlacesInv, Swept
<1>7. QED
  BY <1>2, <1>3, <1>4, <1>5, <1>6 DEF PlacesInv

\* The peer opens and closes no descriptor of ours.
LEMMA PeerFd ==
  ASSUME SockOK, PeerStep
  PROVE  \A c \in Conn : sock'[c].fd = sock[c].fd
<1>1. PICK d \in Conn : PeerSends(d) \/ PeerCloses(d) \/ PeerResets(d) \/ PeerAcks(d)
  BY DEF PeerStep
<1>2. sock[d] \in Sock /\ DOMAIN sock = Conn
  BY DEF SockOK
<1>3. sock' = [sock EXCEPT ![d] = sock'[d]] /\ sock'[d].fd = sock[d].fd
  <2>1. CASE PeerSends(d)
    BY <1>2, <2>1 DEF PeerSends, Edge, Sock
  <2>2. CASE PeerCloses(d)
    BY <1>2, <2>2 DEF PeerCloses, Edge, Sock
  <2>3. CASE PeerResets(d)
    BY <1>2, <2>3 DEF PeerResets, Edge, Sock
  <2>4. CASE PeerAcks(d)
    <3>1. CASE sock[d].short
      <4> DEFINE t == [sock[d] EXCEPT !.snd = 0, !.short = FALSE]
      <4>1. t \in Sock /\ t.fd = sock[d].fd
        <5>1. 0 \in 0 .. SndBuf
          BY SndBufAssumption
        <5>2. QED
          BY <1>2, <5>1, SetSending, Zenon DEF Sock
      <4>2. sock' = [sock EXCEPT ![d] = [t EXCEPT !.ready = (t.fd = "dup")]]
        BY <2>4, <3>1 DEF PeerAcks, Edge
      <4> HIDE DEF t
      <4>3. QED
        BY <1>2, <4>1, <4>2 DEF Sock
    <3>2. CASE ~ sock[d].short
      BY <1>2, <2>4, <3>2 DEF PeerAcks, Sock
    <3>3. QED
      BY <3>1, <3>2
  <2>5. QED
    BY <1>1, <2>1, <2>2, <2>3, <2>4
<1>4. QED
  BY <1>2, <1>3

\* Neither does the poller goroutine.
LEMMA PollerFd ==
  ASSUME SockOK, PollerStep
  PROVE  \A c \in Conn : sock'[c].fd = sock[c].fd
<1>1. CASE UNCHANGED sock
  BY <1>1
<1>2. CASE PollerWait
  <2>1. ASSUME NEW s \in Sock PROVE [s EXCEPT !.ready = FALSE].fd = s.fd
    BY DEF Sock
  <2>2. \A c \in Conn : sock[c] \in Sock /\ sock'[c] = [sock[c] EXCEPT !.ready = FALSE]
    BY <1>2, Zenon DEF PollerWait, SockOK
  <2>3. QED
    BY <2>1, <2>2, Zenon
<1>3. QED
  BY <1>1, <1>2 DEF PollerStep, PollerTop, PollerSend, PollerAck, PollerDie

\* The submitter's notification, WaitIO without a receive, Close, the clock, the
\* timer, the poller and the peer.
LEMMA OthersInv ==
  ASSUME TypeOK, Lists, QueuedIs, PlacesInv,
         \/ NotifyStep \/ WaitCall \/ WaitCheck \/ WaitClosed \/ CloseDie \/ CloseStep
         \/ ClockTick \/ TimerFires \/ (PollerStep /\ Others)
         \/ (PeerStep /\ UNCHANGED pollVars /\ Others) \/ UNCHANGED vars
  PROVE  PlacesInv' /\ Still
<1>1. CASE (PollerStep /\ Others) \/ (PeerStep /\ UNCHANGED pollVars /\ Others)
  <2>1. \A c \in Conn : sock'[c].fd = sock[c].fd
    BY <1>1, PollerFd, PeerFd DEF TypeOK
  <2>2. QED
    BY <1>1, <2>1, QuietInv, Zenon DEF Others, submitVars, waitVars, die
<1>2. CASE UNCHANGED vars
  BY <1>2, QuietInv, Zenon DEF vars, submitVars, waitVars, die
<1>3. CASE NotifyStep \/ ClockTick \/ TimerFires
  BY <1>3, QuietInv, Zenon DEF NotifyStep, Notify, ClockTick, TimerFires, ClockRest,
                               submitVars, waitVars, die
<1>4. CASE WaitCall \/ WaitCheck \/ WaitClosed
  BY <1>4, QuietInv, Zenon DEF WaitCall, WaitCheck, WaitClosed, WaitOnly, submitVars, die
<1>5. CASE CloseDie \/ CloseStep
  BY <1>5, QuietInv, Zenon
     DEF CloseDie, CloseStep, ClosePoller, CloseWake, CloseDone, CloseRest,
         CloseDieChannel, Wakeup, submitVars, waitVars, die
<1>6. QED
  BY <1>1, <1>2, <1>3, <1>4, <1>5, Zenon

\* The loop moves on outside deliver and releaseConn; what the place it reaches
\* demands is a hypothesis.
LEMMA MoveInv ==
  ASSUME Lists, QueuedIs, PlacesInv, Kept, Req' = Req,
         UNCHANGED <<create, processing, queue, timeouts, chResults, returned, closer>>,
         NEW pc, LoopTo(pc, loop.cur, loop.ret, loop.conn, loop.left, loop.back),
         loop.pc \notin {"send", "release"}, pc \notin {"send", "release", "done"},
         registered \subseteq registered',
         processing # <<>> => pc \in {"pending", "watch", "start"},
         pc \in {"watch", "start"} => processing # <<>>,
         pc = "start" => cb[Head(processing)].conn \in registered',
         pc = "exit" => die,
         Descriptors'
  PROVE  PlacesInv' /\ Still
<1>1. /\ loop'.pc = pc /\ loop'.conn = loop.conn /\ loop'.left = loop.left
  BY DEF LoopTo
<1>2. ~ Releasing /\ ~ Releasing' /\ Hand = {} /\ Hand' = {} /\ die' = die
  BY <1>1 DEF Releasing, Hand, die
<1>3. Still /\ Own' /\ Sorted' /\ Where' /\ DeadlinesTracked'
  BY <1>1, <1>2, StillPlaces DEF Still
<1>4. Control'
  <2>1. processing # <<>> => Head(processing) \in Req
    BY TailFacts DEF Lists
  <2>2. processing # <<>> => cb'[Head(processing)].conn = cb[Head(processing)].conn
    BY <2>1, Zenon DEF Kept, SameAsk
  <2>3. processing # <<>> => InPending'
    BY <1>1, Zenon DEF InPending
  <2>4. \A c \in Conn, o \in Op : queue[<<c, o>>] # <<>> => c \in registered'
    BY DEF PlacesInv, Control
  <2>5. loop.conn = NoConn /\ loop.left = <<>>
    BY <1>2, Zenon DEF PlacesInv, Control
  <2>6. QED
    BY <1>1, <1>2, <2>2, <2>3, <2>4, <2>5, Zenon DEF Control
<1>5. Swept'
  BY <1>1 DEF Swept
<1>6. QED
  BY <1>3, <1>4, <1>5, Zenon DEF PlacesInv

\* Outside the step from dupconn to Watch no descriptor is in between.
LEMMA SameDescriptors ==
  ASSUME PlacesInv, UNCHANGED registered, \A c \in Conn : sock'[c].fd = sock[c].fd,
         loop.pc # "watch", loop'.pc # "watch"
  PROVE  Descriptors'
BY DEF PlacesInv, Descriptors

\* An attempt opens and closes no descriptor.
LEMMA AttemptFd ==
  ASSUME CbOK, SockOK, NEW r \in Req, Attempt(r)
  PROVE  \A c \in Conn : sock'[c].fd = sock[c].fd
<1> DEFINE d == cb[r].conn
           s == sock[d]
           n == cb[r].len - cb[r].size
<1>1. d \in Conn
  BY SeqElement DEF CbOK, Req, Aiocb
<1>2. s \in Sock /\ DOMAIN sock = Conn
  BY <1>1 DEF SockOK
<1>3. sock' = [sock EXCEPT ![d] = Try(r).sock]
  BY DEF Attempt
<1>4. Try(r).sock \in {RawRead(s, n).sock, RawWrite(s, n).sock}
  BY DEF Try, TryRead, TryWrite
<1> HIDE DEF s, n
<1>5. n \in Nat
  BY SeqElement DEF CbOK, Req, Aiocb, n
<1>6. RawRead(s, n).sock.fd = s.fd
  BY <1>2, <1>5 DEF RawRead, Sock
<1>7. RawWrite(s, n).sock.fd = s.fd
  <2> DEFINE k == Smaller(n, SndBuf - s.snd)
             more == s.short \/ k < n
  <2>1. k \in Nat
    BY <1>2, <1>5, SndBufAssumption DEF Sock, Smaller
  <2> HIDE DEF k
  <2>2. CASE s.peer = "rst" \/ k = 0
    BY <1>2, <2>2 DEF RawWrite, Sock, k
  <2>3. CASE s.peer # "rst" /\ k > 0
    <3>1. RawWrite(s, n).sock = [s EXCEPT !.snd = @ + k, !.short = more]
      BY <1>2, <2>1, <2>3 DEF RawWrite, Sock, k
    <3> HIDE DEF more
    <3>2. QED
      BY <1>2, <3>1 DEF Sock
  <2>4. QED
    BY <2>1, <2>2, <2>3
<1>8. Try(r).sock.fd = s.fd
  BY <1>4, <1>6, <1>7
<1>9. QED
  BY <1>1, <1>2, <1>3, <1>8 DEF s

\* The select of the loop, the ends of its cases, and a retried request that
\* would still block.
LEMMA LoopMoveInv ==
  ASSUME TypeOK, Lists, QueuedIs, PlacesInv,
         \/ LoopNotified \/ PendingEnd \/ LoopSignal \/ EventSkip \/ EventsEnd \/ EventsDie
         \/ LoopTick \/ TimerEnd \/ LoopDie
         \/ \E r \in Id : TimerReset(r)
         \/ \E c \in Conn, r \in Id : EventBlocked(c, r)
  PROVE  PlacesInv' /\ Still
<1>1. processing # <<>> => InPending
  BY DEF PlacesInv, Control
<1>2. ASSUME UNCHANGED <<cb, create, processing, queue, timeouts, chResults, returned,
                         closer, registered, sock>>,
             NEW pc \in {"select", "swap", "events", "timer", "exit"},
             LoopTo(pc, loop.cur, loop.ret, loop.conn, loop.left, loop.back),
             loop.pc \in {"select", "events", "timer"} \/ processing = <<>>,
             loop.pc \in {"select", "events", "timer", "pending"},
             pc = "exit" => die
      PROVE  PlacesInv' /\ Still
  <2>1. Kept /\ Req' = Req
    BY <1>2, KeptSame
  <2>2. Descriptors'
    BY <1>2, SameDescriptors DEF LoopTo
  <2>3. processing = <<>>
    BY <1>1, <1>2 DEF InPending, Releasing
  <2>4. QED
    BY <1>2, <2>1, <2>2, <2>3, MoveInv
<1>3. LoopOK
  BY DEF TypeOK
<1>4. CASE LoopNotified \/ PendingEnd \/ LoopSignal \/ LoopDie
  <2>1. \E pc \in {"select", "swap", "events", "exit"} : Goto(pc) /\ (pc = "exit" => die)
    BY <1>4, Zenon DEF LoopNotified, PendingEnd, LoopSignal, LoopDie
  <2>2. PICK pc \in {"select", "swap", "events", "exit"} :
          /\ LoopTo(pc, loop.cur, loop.ret, loop.conn, loop.left, loop.back)
          /\ pc = "exit" => die
    BY <1>3, <2>1, LoopMoves, Zenon
  <2>3. UNCHANGED <<cb, create, processing, queue, timeouts, chResults, returned,
                    closer, registered, sock>>
    BY <1>4, Zenon DEF LoopNotified, PendingEnd, PendingRest, LoopSignal, LoopDie, ExitRest,
                submitVars, waitVars
  <2>4. /\ loop.pc \in {"select", "events", "timer"} \/ processing = <<>>
        /\ loop.pc \in {"select", "events", "timer", "pending"}
    BY <1>4, Zenon DEF LoopNotified, PendingEnd, LoopSignal, LoopDie
  <2>5. QED
    BY <1>2, <2>2, <2>3, <2>4
<1>5. CASE EventSkip \/ EventsEnd \/ EventsDie
  <2>1. \E pc \in {"select", "events", "exit"} :
          /\ LoopTo(pc, loop.cur, loop.ret, loop.conn, loop.left, loop.back)
          /\ pc = "exit" => die
    <3>1. CASE EventSkip
      BY <1>3, <3>1, LoopMoves DEF EventSkip, AtEvent
    <3>2. CASE EventsEnd
      BY <1>3, <3>2 DEF EventsEnd, LoopTo, LoopOK
    <3>3. CASE EventsDie
      BY <1>3, <3>3 DEF EventsDie, LoopTo, LoopOK
    <3>4. QED
      BY <1>5, <3>1, <3>2, <3>3
  <2>2. UNCHANGED <<cb, create, processing, queue, timeouts, chResults, returned,
                    closer, registered, sock>>
    BY <1>5, Zenon DEF EventSkip, EventsEnd, EventsDie, EventRest, submitVars, waitVars
  <2>3. loop.pc = "events"
    BY <1>5 DEF EventSkip, EventsEnd, EventsDie, AtEvent
  <2>4. QED
    BY <1>2, <2>1, <2>2, <2>3
<1>6. CASE LoopTick \/ TimerEnd \/ \E r \in Id : TimerReset(r)
  <2>1. \E pc \in {"select", "timer"} :
          LoopTo(pc, loop.cur, loop.ret, loop.conn, loop.left, loop.back)
    <3>1. CASE LoopTick
      BY <1>3, <3>1 DEF LoopTick, LoopTo, LoopOK
    <3>2. CASE TimerEnd \/ \E r \in Id : TimerReset(r)
      <4>1. loop' = [loop EXCEPT !.pc = "select", !.now = 0]
        BY <3>2, Zenon DEF TimerEnd, TimerReset
      <4>2. LoopTo("select", loop.cur, loop.ret, loop.conn, loop.left, loop.back)
        BY <1>3, <4>1 DEF LoopTo, LoopOK
      <4>3. QED
        BY <4>2
    <3>3. QED
      BY <1>6, <3>1, <3>2
  <2>2. UNCHANGED <<cb, create, processing, queue, timeouts, chResults, returned,
                    closer, registered, sock>>
    BY <1>6, Zenon DEF LoopTick, TimerEnd, TimerReset, TimerRest, submitVars, waitVars
  <2>3. loop.pc \in {"select", "timer"}
    BY <1>6 DEF LoopTick, TimerEnd, TimerReset
  <2>4. QED
    BY <1>2, <2>1, <2>2, <2>3
<1>7. ASSUME NEW c \in Conn, NEW r \in Id, EventBlocked(c, r)
      PROVE  PlacesInv' /\ Still
  <2>1. r \in Req
    <3>1. queue[<<c, loop.side>>] \in Seq(Req)
      BY DEF TypeOK, QueuesOK, LoopOK
    <3>2. QED
      BY <1>7, <3>1, TailType DEF EventBlocked, Retrying
  <2>2. Kept /\ Req' = Req
    BY <1>7, <2>1, KeptAttempt, Zenon DEF EventBlocked, TypeOK
  <2>3. loop.pc = "events" /\ processing = <<>>
    BY <1>1, <1>7 DEF EventBlocked, Retrying, AtEvent, InPending, Releasing
  <2>4. LoopTo("events", loop.cur, loop.ret, loop.conn, loop.left, loop.back)
    BY <1>3, <1>7, <2>3, LoopMoves, Zenon DEF EventBlocked
  <2>5. Descriptors'
    <3>1. \A d \in Conn : sock'[d].fd = sock[d].fd
      BY <1>7, <2>1, AttemptFd DEF EventBlocked, TypeOK
    <3>2. QED
      BY <1>7, <2>3, <2>4, <3>1, SameDescriptors DEF EventBlocked, EventRest, LoopTo
  <2>6. UNCHANGED <<create, processing, queue, timeouts, chResults, returned, closer, registered>>
    BY <1>7, Zenon DEF EventBlocked, EventRest, submitVars, waitVars
  <2>7. QED
    BY <2>2, <2>3, <2>4, <2>5, <2>6, MoveInv
<1>8. QED
  BY <1>4, <1>5, <1>6, <1>7, Zenon

\* dupconn and Watch: the connection of the request at the head is registered
\* together with its descriptor.
LEMMA RegisterInv ==
  ASSUME TypeOK, Lists, QueuedIs, PlacesInv, NEW r \in Id, PendingDup(r) \/ PendingWatch(r)
  PROVE  PlacesInv' /\ Still
<1> DEFINE d == cb[r].conn
<1>1. /\ r = Head(processing) /\ processing # <<>>
      /\ UNCHANGED <<cb, create, processing, queue, timeouts, chResults, returned, closer>>
  BY Zenon DEF PendingDup, PendingWatch, Handling, PendingRest, submitVars, waitVars
<1>2. Kept /\ Req' = Req
  BY <1>1, KeptSame
<1>3. d \in Conn /\ sock[d] \in Sock /\ DOMAIN sock = Conn
  <2>1. r \in Req
    BY <1>1, TailType DEF TypeOK, QueuesOK
  <2>2. QED
    BY <2>1, SeqElement DEF TypeOK, CbOK, Req, Aiocb, SockOK
<1> HIDE DEF d
<1>4. CASE PendingDup(r)
  <2>1. LoopTo("watch", loop.cur, loop.ret, loop.conn, loop.left, loop.back)
    BY <1>4, LoopMoves, Zenon DEF PendingDup, TypeOK
  <2>2. loop.pc = "pending" /\ d \notin registered /\ registered' = registered
    BY <1>4 DEF PendingDup, d
  <2>3. sock'[d].fd = "both" /\ \A c \in Conn : c # d => sock'[c] = sock[c]
    BY <1>3, <1>4 DEF PendingDup, d, Sock
  <2>4. Descriptors'
    BY <1>1, <2>1, <2>2, <2>3 DEF PlacesInv, Descriptors, LoopTo, d
  <2>5. QED
    BY <1>1, <1>2, <2>1, <2>2, <2>4, MoveInv
<1>5. CASE PendingWatch(r)
  <2>1. LoopTo("start", loop.cur, loop.ret, loop.conn, loop.left, loop.back)
    BY <1>5, LoopMoves, Zenon DEF PendingWatch, TypeOK
  <2>2. loop.pc = "watch" /\ registered' = registered \cup {d}
    BY <1>5 DEF PendingWatch, d
  <2>3. sock'[d].fd = "dup" /\ \A c \in Conn : c # d => sock'[c] = sock[c]
    <3>1. ASSUME NEW b PROVE [sock[d] EXCEPT !.fd = "dup", !.ready = b].fd = "dup"
      BY <1>3 DEF Sock
    <3>2. Watched(sock[d]).fd = "dup"
      BY <3>1, Zenon DEF Watched
    <3>3. sock' = [sock EXCEPT ![d] = Watched(sock[d])]
      BY <1>5 DEF PendingWatch, d
    <3>4. QED
      BY <1>3, <3>2, <3>3
  <2>4. Descriptors'
    BY <1>1, <2>1, <2>2, <2>3 DEF PlacesInv, Descriptors, LoopTo, d
  <2>5. QED
    BY <1>1, <1>2, <2>1, <2>2, <2>4, MoveInv DEF d
<1>6. QED
  BY <1>4, <1>5

-----------------------------------------------------------------------------
(* Steps that move a request.                                              *)

\* The loop stands still.
LEMMA LoopSame ==
  ASSUME Lists, PlacesInv, Kept, UNCHANGED <<sock, processing, registered, queue, loop, closer>>
  PROVE  Control' /\ Descriptors' /\ Queued' = Queued /\ Hand' = Hand /\ die' = die
<1>1. processing # <<>> => cb'[Head(processing)].conn = cb[Head(processing)].conn
  <2>1. processing # <<>> => Head(processing) \in Req
    BY TailFacts, SMTT(30) DEF Lists
  <2>2. QED
    BY <2>1, Zenon DEF Kept, SameAsk
<1>2. Control'
  BY <1>1, Zenon DEF PlacesInv, Control, Releasing, InPending, die
<1>3. Descriptors'
  BY <1>1, Zenon DEF PlacesInv, Control, Descriptors
<1>4. QED
  BY <1>2, <1>3, Zenon DEF Queued, Remaining, Hand, die

\* The request in the hands of deliver is one that was submitted.
LEMMA HandType ==
  ASSUME TypeOK
  PROVE  Hand \subseteq Req /\ returned \subseteq Req /\ timeouts \subseteq Req
BY DEF TypeOK, LoopOK, WaitOK, QueuesOK, Hand

\* aioCreate: the new request is the last in pendingCreate and nowhere else.
LEMMA SubmitInv ==
  ASSUME TypeOK, Lists, QueuedIs, PlacesInv, NEW c \in Conn, NEW s \in Shapes, Submit(c, s)
  PROVE  PlacesInv'
<1> DEFINE r == Len(cb) + 1
<1>1. /\ Kept /\ Req' = Req \cup {r} /\ r \in Nat /\ \A q \in Req : q < r
  BY KeptSubmit
<1>2. create' = Append(create, r)
  BY DEF Submit
<1>3. /\ UNCHANGED <<sock, processing, registered, queue, loop, closer>>
      /\ UNCHANGED <<timeouts, chResults, returned>>
  BY DEF Submit, waitVars
<1> HIDE DEF r
<1>4. /\ Elems(create') = Elems(create) \cup {r} /\ create' # <<>>
      /\ Increasing(create) => Increasing(create')
  <2>1. create \in Seq(Nat) /\ \A q \in Elems(create) : q < r
    BY <1>1, Zenon DEF Lists
  <2>2. QED
    BY <1>1, <1>2, <2>1, AppendFacts, Zenon
<1>5. r \notin Req
  BY <1>1 DEF Lists
<1>6. Control' /\ Descriptors' /\ Queued' = Queued /\ Hand' = Hand /\ die' = die
  BY <1>1, <1>3, LoopSame
<1>7. Own'
  BY <1>1, <1>3, OwnStep DEF PlacesInv
<1>8. Sorted'
  <2>1. \A q \in Elems(processing) : q < r
    BY <1>1, Zenon DEF Lists
  <2>2. \A x \in Conn \X Op : \A q \in Elems(queue[x]) : q < r
    BY <1>1, Zenon DEF Lists
  <2>3. QED
    BY <1>3, <1>4, <2>1, <2>2 DEF PlacesInv, Sorted
<1>9. \A q \in Req : cb'[q].op = cb[q].op /\ cb'[q].deadline = cb[q].deadline
  BY <1>1, Zenon DEF Kept, SameAsk
<1>10. Where'
  <2>1. r \notin Elems(processing) \cup Queued \cup Hand \cup Elems(chResults) \cup returned
    BY <1>5, HandType, Zenon DEF Lists, QueuedIs
  <2>2. QED
    BY <1>1, <1>3, <1>4, <1>5, <1>6, <1>9, <2>1 DEF PlacesInv, Where
<1>11. DeadlinesTracked'
  BY <1>3, <1>6, <1>9 DEF PlacesInv, DeadlinesTracked, QueuedIs
<1>12. Swept'
  <2>1. loop.pc # "done"
    BY DEF Submit, PlacesInv, Control
  <2>2. QED
    BY <1>3, <2>1 DEF Swept
<1>13. QED
  BY <1>6, <1>7, <1>8, <1>10, <1>11, <1>12 DEF PlacesInv

\* The receive in WaitIO, and the one in the loop's cleanup, which drops the
\* result.
LEMMA ReceiveInv ==
  ASSUME TypeOK, Lists, QueuedIs, PlacesInv, WaitReceive \/ ExitDrain
  PROVE  PlacesInv'
<1> DEFINE r == Head(chResults)
<1>1. /\ chResults # <<>> /\ chResults' = Tail(chResults)
      /\ UNCHANGED <<cb, sock, create, processing, registered, queue, loop, closer, timeouts>>
      /\ returned' = returned \cup {r} \/ (returned' = returned /\ die)
  BY DEF WaitReceive, WaitOnly, ExitDrain, ExitRest, submitVars, waitVars, PlacesInv, Control
<1>2. Kept /\ Req' = Req
  BY <1>1, KeptSame
<1>3. /\ Elems(chResults) = Elems(chResults') \cup {r} /\ r \in Req
      /\ Distinct(chResults) => Distinct(chResults') /\ r \notin Elems(chResults')
  BY <1>1, TailFacts, SMTT(30) DEF Lists
<1> HIDE DEF r
<1>4. Control' /\ Descriptors' /\ Queued' = Queued /\ Hand' = Hand /\ die' = die
  BY <1>1, <1>2, LoopSame
<1>5. Own'
  BY <1>1, <1>2, OwnStep DEF PlacesInv
<1>6. Sorted'
  BY <1>1, <1>3 DEF PlacesInv, Sorted
<1>7. Where'
  BY <1>1, <1>2, <1>3, <1>4 DEF PlacesInv, Where, Sorted
<1>8. DeadlinesTracked'
  BY <1>1, <1>4 DEF PlacesInv, DeadlinesTracked
<1>9. Swept'
  BY <1>1 DEF PlacesInv, Swept
<1>10. QED
  BY <1>4, <1>5, <1>6, <1>7, <1>8, <1>9 DEF PlacesInv

\* deliver's send: the request is in chResults, or dropped because die is closed.
LEMMA SendInv ==
  ASSUME TypeOK, Lists, QueuedIs, PlacesInv, Send \/ SendDie
  PROVE  PlacesInv'
<1> DEFINE r == loop.cur
<1>1. /\ loop.pc = "send" /\ r \in Req
      /\ LoopTo(loop.ret, 0, "pending", loop.conn, loop.left, loop.back)
      /\ loop.ret \in {"pending", "events", "timer", "release"}
      /\ loop.back \in {"pending", "exit"}
  <2>1. loop.pc = "send" /\ loop' = [loop EXCEPT !.pc = loop.ret, !.cur = 0, !.ret = "pending"]
    BY DEF Send, SendDie
  <2>2. LoopTo(loop.ret, 0, "pending", loop.conn, loop.left, loop.back)
    BY <2>1 DEF TypeOK, LoopOK, LoopTo
  <2>3. r \in Req
    BY <2>1, HandType DEF Hand
  <2>4. QED
    BY <2>1, <2>2, <2>3 DEF TypeOK, LoopOK
<1>2. /\ UNCHANGED <<cb, sock, create, processing, registered, queue, closer, timeouts, returned>>
      /\ chResults' = Append(chResults, r) \/ (chResults' = chResults /\ die)
  BY DEF Send, SendDie, submitVars, waitVars
<1>3. Kept /\ Req' = Req
  BY <1>2, KeptSame
<1>4. Hand = {r} /\ Hand' = {} /\ die' = die
  BY <1>1, <1>2 DEF Hand, LoopTo, die
<1> HIDE DEF r
<1>5. Queued' = Queued
  BY <1>1, <1>2, Zenon DEF LoopTo, Queued, Remaining
<1>6. Own'
  BY <1>1, <1>2, <1>3, OwnStep DEF PlacesInv, LoopTo
<1>7. r \notin Elems(chResults)
  BY <1>1, <1>4 DEF PlacesInv, Where
<1>8. Sorted' /\ Elems(chResults') \subseteq Elems(chResults) \cup {r}
      /\ (~ die => Elems(chResults') = Elems(chResults) \cup {r})
      /\ Elems(chResults) \subseteq Elems(chResults')
  <2>1. chResults \in Seq(Nat) /\ r \in Nat
    BY <1>1 DEF Lists
  <2>2. CASE chResults' = Append(chResults, r)
    <3>1. Distinct(chResults') /\ Elems(chResults') = Elems(chResults) \cup {r}
      BY <1>7, <2>1, <2>2, AppendFacts, Zenon DEF PlacesInv, Sorted
    <3>2. Sorted'
      BY <1>1, <1>2, <3>1, Zenon DEF PlacesInv, Sorted, LoopTo
    <3>3. QED
      BY <3>1, <3>2
  <2>3. CASE chResults' = chResults /\ die
    <3>1. Sorted'
      BY <1>1, <1>2, <2>3, Zenon DEF PlacesInv, Sorted, LoopTo
    <3>2. QED
      BY <2>3, <3>1
  <2>4. QED
    BY <1>2, <2>2, <2>3
<1>9. Control'
  <2>1. Releasing' <=> Releasing
    BY <1>1 DEF Releasing, LoopTo
  <2>2. InPending => InPending'
    BY <1>1, <2>1 DEF InPending, LoopTo
  <2>3. loop'.pc \notin {"watch", "start", "exit", "done"} /\ loop'.conn = loop.conn
        /\ loop'.left = loop.left /\ loop'.back = loop.back
    BY <1>1 DEF LoopTo
  <2>4. QED
    BY <1>2, <1>4, <2>1, <2>2, <2>3 DEF PlacesInv, Control
<1>10. Descriptors'
  BY <1>1, <1>2, SameDescriptors DEF LoopTo
<1>11. Where'
  BY <1>2, <1>3, <1>4, <1>5, <1>8 DEF PlacesInv, Where
<1>12. DeadlinesTracked'
  BY <1>2, <1>5 DEF PlacesInv, DeadlinesTracked
<1>13. Swept'
  BY <1>1 DEF Swept, LoopTo
<1>14. QED
  BY <1>6, <1>8, <1>9, <1>10, <1>11, <1>12, <1>13 DEF PlacesInv

\* releaseConn fails the first request on its list.
LEMMA ReleaseNextInv ==
  ASSUME TypeOK, Lists, QueuedIs, QueuedIs', PlacesInv, ReleaseNext
  PROVE  PlacesInv' /\ \A q : q \in Queued' <=> q \in Queued /\ q # Head(loop.left)
<1> DEFINE r == Head(loop.left)
<1>1. /\ loop.pc = "release" /\ loop.left # <<>>
      /\ LoopTo("send", r, "release", loop.conn, Tail(loop.left), loop.back)
      /\ timeouts' = timeouts \ {r}
      /\ UNCHANGED <<sock, create, processing, registered, queue, closer, chResults, returned>>
  BY DEF ReleaseNext, TypeOK, LoopOK, LoopTo, submitVars, waitVars
<1>2. /\ r \in Req /\ Elems(loop.left) = Elems(loop'.left) \cup {r}
      /\ Distinct(loop'.left) /\ r \notin Elems(loop'.left)
  <2>1. /\ loop.left \in Seq(Nat) /\ Elems(loop.left) \subseteq Req /\ Distinct(loop.left)
        /\ loop'.left = Tail(loop.left)
    BY <1>1, Zenon DEF Lists, LoopTo, PlacesInv, Sorted
  <2>2. QED
    BY <1>1, <2>1, TailFacts, Zenon
<1>3. Kept /\ Req' = Req
  <2>1. "closed" \in Error /\ Fail(r, "closed") /\ CbOK
    BY DEF ReleaseNext, Error, TypeOK
  <2>2. QED
    BY <1>2, <2>1, KeptFail, Zenon
<1> HIDE DEF r
<1>4. Hand = {} /\ Hand' = {r} /\ die' = die
  BY <1>1 DEF Hand, LoopTo, die
<1>5. loop.conn # NoConn /\ loop'.conn = loop.conn
  BY <1>1 DEF PlacesInv, Control, Releasing, LoopTo
<1>6. \A q : q \in Queued' <=> q \in Queued /\ q # r
  <2>1. ASSUME NEW c \in Conn, NEW o \in Op, c # loop.conn PROVE r \notin Elems(queue[<<c, o>>])
    BY <1>2, <2>1 DEF PlacesInv, Own
  <2>2. QED
    BY <1>1, <1>2, <1>5, <2>1, Zenon DEF QueuedIs
<1>7. Own'
  BY <1>1, <1>2, <1>3, <1>5, OwnStep, Zenon DEF PlacesInv
<1>8. Sorted'
  BY <1>1, <1>2, Zenon DEF PlacesInv, Sorted
<1>9. Control'
  <2>1. Releasing /\ Releasing'
    BY <1>1 DEF Releasing, LoopTo
  <2>2. InPending => InPending'
    BY <1>1, <2>1 DEF InPending, LoopTo
  <2>3. loop'.pc \notin {"watch", "start", "exit", "done"} /\ loop'.back = loop.back
    BY <1>1 DEF LoopTo
  <2>4. QED
    BY <1>1, <1>4, <1>5, <2>1, <2>2, <2>3, Zenon DEF PlacesInv, Control
<1>10. Descriptors'
  BY <1>1, SameDescriptors DEF LoopTo
<1>11. \A q \in Req : cb'[q].op = cb[q].op /\ cb'[q].deadline = cb[q].deadline
  BY <1>3, Zenon DEF Kept, SameAsk
<1>12. Where'
  <2>1. r \in Queued
    BY <1>2, <1>5, Zenon DEF QueuedIs
  <2>2. r \notin Elems(create) \cup Elems(processing) \cup Elems(chResults) \cup returned
    BY <1>2, <2>1 DEF PlacesInv, Where
  <2>3. \A q : q \in Hand' <=> q = r
    BY <1>4
  <2>4. \A q \in Req : cb[q].op \in Op /\ ~ die =>
          q \in Elems(create) \cup Elems(processing) \cup Queued
                \cup Elems(chResults) \cup returned
    BY <1>4 DEF PlacesInv, Where
  <2>5. \A q \in Req : cb[q].op \in Op /\ ~ die =>
          q \in Elems(create) \cup Elems(processing) \cup Queued' \cup Hand'
                \cup Elems(chResults) \cup returned
    BY <1>6, <2>3, <2>4
  <2>6. \A q \in Req :
          /\ q \in Elems(create) =>
               q \notin Elems(processing) \cup Queued' \cup Hand' \cup Elems(chResults) \cup returned
          /\ q \in Elems(processing) =>
               q \notin Queued' \cup Hand' \cup Elems(chResults) \cup returned
          /\ q \in Queued' => q \notin Hand' \cup Elems(chResults) \cup returned
          /\ q \in Hand' => q \notin Elems(chResults) \cup returned
          /\ q \in Elems(chResults) => q \notin returned
    BY <1>6, <2>2, <2>3 DEF PlacesInv, Where
  <2>7. QED
    BY <1>1, <1>3, <1>4, <1>11, <2>5, <2>6, Zenon DEF Where
<1>13. DeadlinesTracked'
  BY <1>1, <1>6, <1>11 DEF PlacesInv, DeadlinesTracked, QueuedIs
<1>14. Swept'
  BY <1>1 DEF Swept, LoopTo
<1>15. QED
  BY <1>6, <1>7, <1>8, <1>9, <1>10, <1>12, <1>13, <1>14, Zenon DEF PlacesInv, r

\* The end of releaseConn: its list is empty, so that the queues it throws away
\* hold nothing that is still to be served.
LEMMA ReleaseEndInv ==
  ASSUME TypeOK, Lists, QueuedIs, QueuedIs', PlacesInv, ReleaseEnd
  PROVE  PlacesInv' /\ Queued' = Queued
<1> DEFINE c == loop.conn
<1>1. /\ loop.pc = "release" /\ loop.left = <<>> /\ loop.back \in {"pending", "exit"}
      /\ LoopTo(loop.back, loop.cur, loop.ret, NoConn, loop.left, "pending")
      /\ registered' = registered \ {c}
      /\ queue' = [x \in Conn \X Op |-> IF x[1] = c THEN <<>> ELSE queue[x]]
      /\ UNCHANGED <<cb, create, processing, closer, chResults, returned, timeouts>>
  BY DEF ReleaseEnd, TypeOK, LoopOK, LoopTo, submitVars, waitVars
<1>2. c \in registered /\ c \in Conn /\ c # NoConn
  BY <1>1, NoConnAssumption DEF PlacesInv, Control, Releasing, TypeOK, QueuesOK
<1>3. \A d \in Conn, o \in Op :
        queue'[<<d, o>>] = IF d = c THEN <<>> ELSE queue[<<d, o>>]
  BY <1>1
<1>4. Kept /\ Req' = Req
  BY <1>1, KeptSame
<1>5. Hand = {} /\ Hand' = {} /\ die' = die
  BY <1>1 DEF Hand, LoopTo, die
<1>6. /\ Elems(<<>>) = {}
      /\ \A d \in Conn, o \in Op :
           /\ d = c => Elems(queue'[<<d, o>>]) = {}
           /\ d # c => Elems(queue'[<<d, o>>]) = Elems(queue[<<d, o>>])
  <2>1. Elems(<<>>) = {}
    BY DEF Elems
  <2>2. ASSUME NEW d \in Conn, NEW o \in Op
        PROVE  /\ d = c => Elems(queue'[<<d, o>>]) = {}
               /\ d # c => Elems(queue'[<<d, o>>]) = Elems(queue[<<d, o>>])
    <3>1. CASE d = c
      BY <1>3, <2>1, <3>1
    <3>2. CASE d # c
      BY <1>3, <3>2
    <3>3. QED
      BY <3>1, <3>2
  <2>3. QED
    BY <2>1, <2>2
<1>7. Queued' = Queued
  <2>1. loop'.conn = NoConn /\ Elems(loop.left) = {}
    BY <1>1, <1>6 DEF LoopTo
  <2>2. \A r : r \in Queued' <=> \E d \in Conn, o \in Op : r \in Elems(queue'[<<d, o>>])
    BY <2>1, Zenon DEF QueuedIs
  <2>3. \A r : r \in Queued <=> \E d \in Conn, o \in Op : d # c /\ r \in Elems(queue[<<d, o>>])
    BY <1>2, <2>1, Zenon DEF QueuedIs
  <2>4. QED
    <3>1. \A r : r \in Queued' <=> r \in Queued
      BY <1>6, <2>2, <2>3, Zenon
    <3>2. QED
      BY <3>1
<1>8. Own'
  <2>1. \A d \in Conn, o \in Op : Elems(queue'[<<d, o>>]) \subseteq Elems(queue[<<d, o>>])
    BY <1>6, Zenon
  <2>2. Elems(loop'.left) = {}
    BY <1>1, <1>6 DEF LoopTo
  <2>3. QED
    BY <1>4, <2>1, <2>2, OwnStep, Zenon DEF PlacesInv
<1>9. Sorted'
  <2>1. ASSUME NEW x \in Conn \X Op
        PROVE  Increasing(queue'[x]) /\ Elems(queue'[x]) \subseteq Elems(queue[x])
    <3>1. queue'[x] = IF x[1] = c THEN <<>> ELSE queue[x]
      BY <1>1
    <3>2. Increasing(<<>>)
      BY DEF Increasing
    <3>3. QED
      BY <1>6, <3>1, <3>2 DEF PlacesInv, Sorted
  <2>2. loop'.left = loop.left
    BY <1>1 DEF LoopTo
  <2>3. QED
    BY <1>1, <2>1, <2>2 DEF PlacesInv, Sorted
<1>10. Control'
  <2>1. Releasing /\ ~ Releasing'
    BY <1>1 DEF Releasing, LoopTo
  <2>2. InPending => InPending' /\ loop.back = "pending"
    BY <1>1, <2>1 DEF InPending, LoopTo
  <2>3. /\ loop'.pc \notin {"watch", "start", "done"} /\ loop'.left = <<>>
        /\ loop'.conn = NoConn /\ (loop'.pc = "exit" => loop.back = "exit")
    BY <1>1, Zenon DEF LoopTo
  <2>4. \A d \in Conn, o \in Op : queue'[<<d, o>>] # <<>> => d \in registered'
    BY <1>1, <1>3 DEF PlacesInv, Control
  <2>5. QED
    BY <1>1, <1>5, <2>1, <2>2, <2>3, <2>4 DEF PlacesInv, Control
<1>11. Descriptors'
  <2>1. \A d \in Conn : sock'[d].fd = IF d = c THEN "closed" ELSE sock[d].fd
    <3>1. /\ sock' = [sock EXCEPT ![c].fd = "closed", ![c].ready = FALSE]
          /\ sock \in [Conn -> Sock] /\ sock[c] \in Sock
      BY <1>2 DEF ReleaseEnd, TypeOK, SockOK
    <3> HIDE DEF c
    <3>2. QED
      BY <3>1 DEF Sock
  <2>2. loop.pc # "watch" /\ loop'.pc # "watch"
    BY <1>1 DEF LoopTo
  <2>3. QED
    BY <1>1, <2>1, <2>2 DEF PlacesInv, Descriptors
<1>12. Where'
  BY <1>1, <1>4, <1>5, <1>7, Zenon DEF PlacesInv, Where
<1>13. DeadlinesTracked'
  BY <1>1, <1>7, Zenon DEF PlacesInv, DeadlinesTracked
<1>14. Swept'
  BY <1>1, Zenon DEF Swept, LoopTo
<1>15. QED
  BY <1>7, <1>8, <1>9, <1>10, <1>11, <1>12, <1>13, <1>14 DEF PlacesInv

\* The swap: processing was empty.
LEMMA SwapInv ==
  ASSUME TypeOK, Lists, QueuedIs, PlacesInv, LoopSwap
  PROVE  PlacesInv'
<1>1. /\ loop.pc = "swap" /\ processing' = create /\ create' = <<>>
      /\ UNCHANGED <<cb, sock, registered, queue, closer, timeouts, chResults, returned>>
  BY DEF LoopSwap, waitVars
<1>2. LoopTo("pending", loop.cur, loop.ret, loop.conn, loop.left, loop.back)
  BY LoopMoves, Zenon DEF LoopSwap, TypeOK
<1>3. Kept /\ Req' = Req
  BY <1>1, KeptSame
<1>4. Hand = {} /\ Hand' = {} /\ die' = die /\ ~ Releasing /\ ~ Releasing' /\ ~ InPending /\ InPending'
  BY <1>1, <1>2 DEF Hand, LoopTo, die, Releasing, InPending
<1>5. processing = <<>>
  BY <1>4 DEF PlacesInv, Control
<1>6. Elems(<<>>) = {} /\ Increasing(<<>>)
  BY DEF Elems, Increasing
<1>7. Queued' = Queued
  BY <1>1, <1>2, Zenon DEF LoopTo, Queued, Remaining
<1>8. Own'
  BY <1>1, <1>2, <1>3, OwnStep DEF PlacesInv, LoopTo
<1>9. Sorted'
  BY <1>1, <1>2, <1>6 DEF PlacesInv, Sorted, LoopTo
<1>10. Control'
  BY <1>1, <1>2, <1>4 DEF PlacesInv, Control, LoopTo
<1>11. Descriptors'
  BY <1>1, <1>2, SameDescriptors DEF LoopTo
<1>12. Where'
  BY <1>1, <1>3, <1>4, <1>5, <1>6, <1>7 DEF PlacesInv, Where
<1>13. DeadlinesTracked'
  BY <1>1, <1>7 DEF PlacesInv, DeadlinesTracked
<1>14. Swept'
  BY <1>2 DEF Swept, LoopTo
<1>15. QED
  BY <1>8, <1>9, <1>10, <1>11, <1>12, <1>13, <1>14 DEF PlacesInv

\* The start of releaseConn: its list has the two queues of the connection.
LEMMA ReleaseStarts ==
  ASSUME TypeOK, Lists, QueuedIs, QueuedIs', PlacesInv, ~ Releasing,
         NEW d \in Conn, NEW back, Release(d, back), UNCHANGED <<cb, queue>>
  PROVE  Own' /\ Distinct(loop'.left) /\ Queued' = Queued
<1> DEFINE s == queue[<<d, "read">>]
           t == queue[<<d, "write">>]
<1>1. LoopTo("release", loop.cur, loop.ret, d, s \o t, back)
  BY LoopMoves, Zenon DEF TypeOK
<1>2. <<d, "read">> \in Conn \X Op /\ <<d, "write">> \in Conn \X Op /\ Op = {"read", "write"}
  BY DEF Op
<1>3. s \in Seq(Nat) /\ t \in Seq(Nat) /\ Increasing(s) /\ Increasing(t)
  BY <1>2, Zenon DEF Lists, PlacesInv, Sorted
<1>4. (\A r \in Elems(s) : cb[r].conn = d /\ cb[r].op = "read")
      /\ \A r \in Elems(t) : cb[r].conn = d /\ cb[r].op = "write"
  BY <1>2, Zenon DEF PlacesInv, Own
<1>5. loop'.conn = d /\ loop'.left = s \o t /\ d # NoConn /\ loop.conn = NoConn
  BY <1>1, NoConnAssumption, Zenon DEF LoopTo, PlacesInv, Control
<1>6. \A r : r \in Queued <=> \E c \in Conn, o \in Op : r \in Elems(queue[<<c, o>>])
  BY <1>5, Zenon DEF QueuedIs
<1>7. \A r : r \in Queued' <=> \/ r \in Elems(loop'.left)
                               \/ \E c \in Conn, o \in Op : c # d /\ r \in Elems(queue[<<c, o>>])
  BY <1>5, Zenon DEF QueuedIs
<1>8. \A o \in Op : queue[<<d, o>>] \in {s, t}
  BY <1>2
<1> HIDE DEF s, t
<1>9. Distinct(s) /\ Distinct(t) /\ Elems(s) \cap Elems(t) = {}
  BY <1>3, <1>4, IncreasingDistinct, Zenon
<1>10. Distinct(loop'.left) /\ Elems(loop'.left) = Elems(s) \cup Elems(t)
  BY <1>3, <1>5, <1>9, ConcatFacts, Zenon
<1>11. Own'
  BY <1>2, <1>4, <1>5, <1>10, Zenon DEF PlacesInv, Own
<1>12. Queued' = Queued
  <2>1. ASSUME NEW r \in Queued PROVE r \in Queued'
    <3>1. PICK c \in Conn, o \in Op : r \in Elems(queue[<<c, o>>])
      BY <1>6, <2>1, Zenon
    <3>2. CASE c = d
      BY <1>7, <1>8, <1>10, <3>1, <3>2, Zenon
    <3>3. CASE c # d
      BY <1>7, <3>1, <3>3
    <3>4. QED
      BY <3>2, <3>3
  <2>2. ASSUME NEW r \in Queued' PROVE r \in Queued
    <3>1. CASE r \in Elems(loop'.left)
      BY <1>2, <1>6, <1>10, <3>1 DEF s, t
    <3>2. CASE r \notin Elems(loop'.left)
      BY <1>6, <1>7, <2>2, <3>2, Zenon
    <3>3. QED
      BY <3>1, <3>2
  <2>3. QED
    BY <2>1, <2>2
<1>13. QED
  BY <1>10, <1>11, <1>12

\* handlePending takes a Free request, or the loop's exit a connection.
LEMMA StartReleaseInv ==
  ASSUME TypeOK, Lists, QueuedIs, QueuedIs', PlacesInv,
         (\E r \in Req : PendingFree(r)) \/ \E c \in Conn : ExitRelease(c)
  PROVE  PlacesInv' /\ Queued' = Queued
<1>1. \E d \in Conn, back \in {"pending", "exit"} :
        /\ Release(d, back) /\ d \in registered
        /\ \/ /\ loop.pc = "pending" /\ back = "pending"
              /\ processing # <<>> /\ processing' = Tail(processing)
              /\ cb[Head(processing)].op = "delete"
           \/ loop.pc = "exit" /\ back = "exit" /\ processing' = processing
  BY DEF PendingFree, ExitRelease, TypeOK, QueuesOK, Handling
<1>2. PICK d \in Conn, back \in {"pending", "exit"} :
        /\ Release(d, back) /\ d \in registered
        /\ \/ /\ loop.pc = "pending" /\ back = "pending"
              /\ processing # <<>> /\ processing' = Tail(processing)
              /\ cb[Head(processing)].op = "delete"
           \/ loop.pc = "exit" /\ back = "exit" /\ processing' = processing
  BY <1>1
<1>3. UNCHANGED <<sock, cb, create, registered, queue, timeouts, chResults, returned, closer>>
  BY DEF PendingFree, ExitRelease, ExitRest, PendingRest, submitVars, waitVars
<1>4. LoopTo("release", loop.cur, loop.ret, d, queue[<<d, "read">>] \o queue[<<d, "write">>], back)
  BY <1>2, LoopMoves, Zenon DEF TypeOK
<1>5. /\ Hand = {} /\ Hand' = {} /\ die' = die /\ ~ Releasing /\ Releasing'
      /\ (InPending => InPending') /\ d # NoConn /\ loop'.conn = d /\ loop'.back = back
      /\ loop'.pc = "release"
  BY <1>2, <1>3, <1>4, NoConnAssumption, Zenon DEF Hand, LoopTo, die, Releasing, InPending
<1>6. Own' /\ Distinct(loop'.left) /\ Queued' = Queued
  BY <1>2, <1>3, <1>5, ReleaseStarts, Zenon
<1>7. Kept /\ Req' = Req
  BY <1>3, KeptSame
<1>8. /\ processing \in Seq(Nat) /\ Increasing(processing)
      /\ Elems(processing') \subseteq Elems(processing) /\ Increasing(processing')
      /\ (processing' # <<>> => processing # <<>>)
      /\ \A r \in Elems(processing) : r \in Elems(processing') \/ cb[r].op = "delete"
  <2>1. processing \in Seq(Nat) /\ Increasing(processing)
    BY DEF Lists, PlacesInv, Sorted
  <2>2. CASE processing' = processing
    BY <2>1, <2>2, Zenon
  <2>3. CASE processing # <<>> /\ processing' = Tail(processing)
                             /\ cb[Head(processing)].op = "delete"
    <3>1. /\ Elems(processing) = Elems(Tail(processing)) \cup {Head(processing)}
          /\ Increasing(Tail(processing))
      BY <2>1, <2>3, TailFacts
    <3>2. QED
      BY <2>1, <2>3, <3>1, Zenon
  <2>4. QED
    BY <1>2, <2>2, <2>3
<1>9. Sorted'
  BY <1>3, <1>6, <1>8 DEF PlacesInv, Sorted
<1>10. Control'
  BY <1>2, <1>3, <1>5, <1>8, Zenon DEF PlacesInv, Control
<1>11. Descriptors'
  BY <1>2, <1>3, <1>5, SameDescriptors, Zenon
<1>12. Where'
  <2>1. "delete" \notin Op
    BY DEF Op
  <2>2. QED
    BY <1>3, <1>5, <1>6, <1>7, <1>8, <2>1, Zenon DEF PlacesInv, Where
<1>13. DeadlinesTracked'
  BY <1>3, <1>6, Zenon DEF PlacesInv, DeadlinesTracked
<1>14. Swept'
  BY <1>5 DEF Swept
<1>15. QED
  BY <1>6, <1>9, <1>10, <1>11, <1>12, <1>13, <1>14 DEF PlacesInv

\* handlePending delivers the request it has just taken.
LEMMA DeliverHead ==
  ASSUME TypeOK, Lists, QueuedIs, PlacesInv, Kept, Req' = Req,
         processing # <<>>, loop.pc \in {"pending", "watch", "start"},
         processing' = Tail(processing), Deliver(Head(processing), "pending"), Descriptors',
         UNCHANGED <<create, registered, queue, chResults, returned, closer>>
  PROVE  PlacesInv'
<1> DEFINE r == Head(processing)
<1>1. LoopTo("send", r, "pending", loop.conn, loop.left, loop.back)
  BY LoopMoves, Zenon DEF TypeOK
<1>2. /\ r \in Req /\ r \notin Elems(processing') /\ Increasing(processing')
      /\ Elems(processing) = Elems(processing') \cup {r}
  BY TakeHead
<1>3. timeouts' = timeouts \ {r}
  BY DEF Deliver
<1> HIDE DEF r
<1>4. Hand = {} /\ Hand' = {r} /\ die' = die
  BY <1>1 DEF Hand, LoopTo, die
<1>5. Queued' = Queued
  BY <1>1, Zenon DEF LoopTo, Queued, Remaining
<1>6. Own'
  BY <1>1, OwnStep DEF PlacesInv, LoopTo
<1>7. Sorted'
  BY <1>1, <1>2, Zenon DEF PlacesInv, Sorted, LoopTo
<1>8. Control'
  BY <1>1, <1>4, Zenon DEF PlacesInv, Control, LoopTo, InPending, Releasing
<1>9. \A q \in Req : cb'[q].op = cb[q].op /\ cb'[q].deadline = cb[q].deadline
  BY Zenon DEF Kept, SameAsk
<1>10. Where'
  BY <1>2, <1>4, <1>5, <1>9, Zenon DEF PlacesInv, Where
<1>11. DeadlinesTracked'
  <2>1. r \notin Queued
    BY <1>2, Zenon DEF PlacesInv, Where
  <2>2. QED
    BY <1>3, <1>5, <1>9, <2>1, Zenon DEF PlacesInv, DeadlinesTracked, QueuedIs
<1>12. Swept'
  BY <1>1, Zenon DEF Swept, LoopTo
<1>13. QED
  BY <1>6, <1>7, <1>8, <1>10, <1>11, <1>12 DEF PlacesInv

\* dupconn or Watch fails, or the first attempt completes the request.
LEMMA PendingDeliverInv ==
  ASSUME TypeOK, Lists, QueuedIs, PlacesInv, NEW r \in Req,
         PendingDupFails(r) \/ PendingWatchFails(r) \/ StartDone(r)
  PROVE  PlacesInv'
<1>1. /\ processing # <<>> /\ r = Head(processing) /\ loop.pc \in {"pending", "watch", "start"}
      /\ processing' = Tail(processing) /\ Deliver(r, "pending")
      /\ UNCHANGED <<create, registered, queue, chResults, returned, closer>>
  BY DEF PendingDupFails, PendingWatchFails, StartDone, Starting, Handling, PendingRest,
         submitVars, waitVars
<1>2. Kept /\ Req' = Req
  <2>1. "dup" \in Error /\ "watch" \in Error /\ CbOK /\ SockOK
    BY DEF Error, TypeOK
  <2>2. Fail(r, "dup") \/ Fail(r, "watch") \/ Attempt(r)
    BY DEF PendingDupFails, PendingWatchFails, StartDone
  <2>3. QED
    BY <2>1, <2>2, KeptFail, KeptAttempt, Zenon
<1>3. LoopTo("send", r, "pending", loop.conn, loop.left, loop.back)
  BY <1>1, LoopMoves, Zenon DEF TypeOK
<1>4. loop'.pc = "send"
  BY <1>3 DEF LoopTo
<1>5. Descriptors'
  <2>1. CASE PendingDupFails(r)
    BY <1>1, <1>4, <2>1, SameDescriptors, Zenon DEF PendingDupFails
  <2>2. CASE StartDone(r)
    <3>1. \A c \in Conn : sock'[c].fd = sock[c].fd
      BY <2>2, AttemptFd, Zenon DEF StartDone, TypeOK
    <3>2. loop.pc # "watch"
      BY <2>2, Zenon DEF StartDone, Starting
    <3>3. QED
      BY <1>1, <1>4, <3>1, <3>2, SameDescriptors, Zenon
  <2>3. CASE PendingWatchFails(r)
    <3> DEFINE d == cb[r].conn
    <3>1. loop.pc = "watch" /\ sock' = [sock EXCEPT ![d].fd = "conn"] /\ d = cb[Head(processing)].conn
      BY <1>1, <2>3 DEF PendingWatchFails
    <3>2. sock \in [Conn -> Sock]
      BY DEF TypeOK, SockOK
    <3>3. d \in Conn
      BY SeqElement DEF TypeOK, CbOK, Req, Aiocb
    <3> HIDE DEF d
    <3>4. \A c \in Conn : sock'[c].fd = IF c = d THEN "conn" ELSE sock[c].fd
      BY <3>1, <3>2, <3>3 DEF Sock
    <3>5. \A c \in Conn : (sock[c].fd = "both" <=> c = d) /\ (c \in registered <=> sock[c].fd = "dup")
      BY <3>1 DEF PlacesInv, Descriptors
    <3>6. QED
      BY <1>1, <1>4, <3>4, <3>5, Zenon DEF Descriptors
  <2>4. QED
    BY <2>1, <2>2, <2>3
<1>6. QED
  BY <1>1, <1>2, <1>5, DeliverHead

\* The request of Free that handlePending has no case for is dropped.
LEMMA StartFreeInv ==
  ASSUME TypeOK, Lists, QueuedIs, PlacesInv, NEW r \in Req, StartFree(r)
  PROVE  PlacesInv'
<1>1. /\ processing # <<>> /\ r = Head(processing) /\ loop.pc \in {"pending", "start"}
      /\ processing' = Tail(processing) /\ cb[r].op = "delete"
      /\ UNCHANGED <<cb, sock, create, registered, queue, timeouts, chResults, returned, closer>>
  BY StartingFacts, Zenon DEF StartFree, PendingRest, submitVars, waitVars
<1>2. LoopTo("pending", loop.cur, loop.ret, loop.conn, loop.left, loop.back)
  BY LoopMoves, Zenon DEF TypeOK, StartFree
<1>3. Kept /\ Req' = Req
  BY <1>1, KeptSame, Zenon
<1>4. Hand = {} /\ Hand' = {} /\ die' = die
  BY <1>1, <1>2 DEF Hand, LoopTo, die
<1>5. Increasing(processing') /\ Elems(processing) = Elems(processing') \cup {r}
  BY <1>1, TakeHead
<1>6. Queued' = Queued
  BY <1>1, <1>2, Zenon DEF LoopTo, Queued, Remaining
<1>7. Own'
  BY <1>1, <1>2, <1>3, OwnStep DEF PlacesInv, LoopTo
<1>8. Sorted'
  BY <1>1, <1>2, <1>5, Zenon DEF PlacesInv, Sorted, LoopTo
<1>9. Control'
  BY <1>1, <1>2, <1>4, Zenon DEF PlacesInv, Control, LoopTo, InPending, Releasing
<1>10. Descriptors'
  BY <1>1, <1>2, SameDescriptors, Zenon DEF LoopTo
<1>11. Where'
  <2>1. "delete" \notin Op
    BY DEF Op
  <2>2. QED
    BY <1>1, <1>3, <1>4, <1>5, <1>6, <2>1, Zenon DEF PlacesInv, Where
<1>12. DeadlinesTracked'
  BY <1>1, <1>6, Zenon DEF PlacesInv, DeadlinesTracked
<1>13. Swept'
  BY <1>2 DEF Swept, LoopTo
<1>14. QED
  BY <1>7, <1>8, <1>9, <1>10, <1>11, <1>12, <1>13 DEF PlacesInv

\* handlePending queues the request it has just taken.
LEMMA StartQueuedInv ==
  ASSUME TypeOK, Lists, QueuedIs, QueuedIs', PlacesInv, NEW r \in Req, StartQueued(r)
  PROVE  PlacesInv' /\ \A q : q \in Queued' <=> q \in Queued \/ q = r
<1> DEFINE d == cb[r].conn
           o == cb[r].op
           x == <<d, o>>
<1>1. /\ processing # <<>> /\ r = Head(processing) /\ d \in registered
      /\ loop.pc \in {"pending", "start"} /\ o \in Op
      /\ processing' = Tail(processing)
      /\ queue' = [queue EXCEPT ![x] = Append(@, r)]
      /\ timeouts' = IF cb[r].deadline # 0 THEN timeouts \cup {r} ELSE timeouts
      /\ UNCHANGED <<create, registered, chResults, returned, closer>>
  BY StartingFacts, Zenon DEF StartQueued, PendingRest, submitVars, waitVars
<1>2. LoopTo("pending", loop.cur, loop.ret, loop.conn, loop.left, loop.back)
  BY LoopMoves, Zenon DEF TypeOK, StartQueued
<1>3. Attempt(r) \/ UNCHANGED <<cb, sock>>
  BY DEF StartQueued
<1>4. Kept /\ Req' = Req
  <2>1. CASE Attempt(r)
    BY <2>1, KeptAttempt, Zenon DEF TypeOK
  <2>2. CASE UNCHANGED cb
    BY <2>2, KeptSame
  <2>3. QED
    BY <1>3, <2>1, <2>2
<1>5. \A c \in Conn : sock'[c].fd = sock[c].fd
  <2>1. CASE Attempt(r)
    BY <2>1, AttemptFd, Zenon DEF TypeOK
  <2>2. CASE UNCHANGED sock
    BY <2>2
  <2>3. QED
    BY <1>3, <2>1, <2>2
<1>6. /\ r \notin Elems(processing') /\ Increasing(processing')
      /\ Elems(processing) = Elems(processing') \cup {r}
      /\ \A q \in Elems(processing') : r < q
  BY <1>1, TakeHead, Zenon
<1>7. d \in Conn /\ x \in Conn \X Op /\ DOMAIN queue = Conn \X Op /\ r \in Nat
  BY <1>1, Zenon DEF TypeOK, QueuesOK, Lists
<1>8. Hand = {} /\ Hand' = {} /\ die' = die /\ loop.conn = NoConn /\ loop'.conn = NoConn
  BY <1>1, <1>2, Zenon DEF Hand, LoopTo, die, PlacesInv, Control, Releasing
<1>9. queue'[x] = Append(queue[x], r) /\ \A y \in Conn \X Op : y # x => queue'[y] = queue[y]
  BY <1>1, <1>7, Zenon
<1>10. queue[x] \in Seq(Nat) /\ Increasing(queue[x]) /\ \A q \in Elems(queue[x]) : q < r
  <2>1. r \in Elems(processing)
    BY <1>6
  <2>2. QED
    BY <1>7, <2>1, Zenon DEF Lists, PlacesInv, Sorted
<1>11. Increasing(queue'[x]) /\ Elems(queue'[x]) = Elems(queue[x]) \cup {r}
  <2>1. Increasing(Append(queue[x], r)) /\ Elems(Append(queue[x], r)) = Elems(queue[x]) \cup {r}
    BY <1>7, <1>10, AppendFacts, Zenon
  <2>2. QED
    BY <1>9, <2>1, Zenon
<1>12. \A c \in Conn, p \in Op :
         /\ <<c, p>> # x => Elems(queue'[<<c, p>>]) = Elems(queue[<<c, p>>])
         /\ <<c, p>> = x => c = d /\ p = o /\ Elems(queue'[<<c, p>>]) = Elems(queue[<<c, p>>]) \cup {r}
  <2>1. ASSUME NEW c \in Conn, NEW p \in Op
        PROVE  /\ <<c, p>> # x => queue'[<<c, p>>] = queue[<<c, p>>]
               /\ <<c, p>> = x => c = d /\ p = o
    BY <1>9, Zenon
  <2>2. QED
    BY <1>11, <2>1, Zenon
<1>13. \A q \in Req : /\ cb'[q].conn = cb[q].conn /\ cb'[q].op = cb[q].op
                      /\ cb'[q].deadline = cb[q].deadline
  BY <1>4, Zenon DEF Kept, SameAsk
<1> HIDE DEF x, d, o
<1>14. \A q : q \in Queued' <=> q \in Queued \/ q = r
  <2>1. \A q : q \in Queued' <=> \E c \in Conn, p \in Op : q \in Elems(queue'[<<c, p>>])
    BY <1>8, Zenon DEF QueuedIs
  <2>2. \A q : q \in Queued <=> \E c \in Conn, p \in Op : q \in Elems(queue[<<c, p>>])
    BY <1>8, Zenon DEF QueuedIs
  <2>3. ASSUME NEW q \in Queued' PROVE q \in Queued \/ q = r
    <3>1. PICK c \in Conn, p \in Op : q \in Elems(queue'[<<c, p>>])
      BY <2>1, <2>3, Zenon
    <3>2. q \in Elems(queue[<<c, p>>]) \/ q = r
      BY <1>12, <3>1
    <3>3. QED
      BY <2>2, <3>2, Zenon
  <2>4. ASSUME NEW q \in Queued PROVE q \in Queued'
    <3>1. PICK c \in Conn, p \in Op : q \in Elems(queue[<<c, p>>])
      BY <2>2, <2>4, Zenon
    <3>2. q \in Elems(queue'[<<c, p>>])
      BY <1>12, <3>1, Zenon
    <3>3. QED
      BY <2>1, <3>2, Zenon
  <2>5. r \in Queued'
    <3>1. r \in Elems(queue'[<<d, o>>])
      BY <1>11, Zenon DEF x
    <3>2. QED
      BY <1>1, <1>7, <2>1, <3>1, Zenon
  <2>6. QED
    BY <2>3, <2>4, <2>5
<1>15. Own'
  <2>1. loop'.left = loop.left /\ \A q \in Elems(loop.left) : q \in Req
    BY <1>2 DEF Lists, LoopTo
  <2>2. ASSUME NEW c \in Conn, NEW p \in Op, NEW q \in Elems(queue'[<<c, p>>])
        PROVE  cb'[q].conn = c /\ cb'[q].op = p
    <3>1. CASE q \in Elems(queue[<<c, p>>])
      <4>1. q \in Req
        BY <3>1, Zenon DEF Lists
      <4>2. QED
        BY <1>13, <3>1, <4>1, Zenon DEF PlacesInv, Own
    <3>2. CASE q \notin Elems(queue[<<c, p>>])
      <4>1. q = r /\ c = d /\ p = o
        BY <1>12, <2>2, <3>2, Zenon
      <4>2. QED
        BY <1>13, <4>1 DEF d, o
    <3>3. QED
      BY <3>1, <3>2
  <2>3. QED
    BY <1>8, <1>13, <2>1, <2>2, Zenon DEF PlacesInv, Own
<1>16. Sorted'
  <2>1. \A y \in Conn \X Op : Increasing(queue'[y])
    BY <1>9, <1>11, Zenon DEF PlacesInv, Sorted
  <2>2. ASSUME NEW y \in Conn \X Op, NEW q \in Elems(queue'[y]),
               NEW p \in Elems(create') \cup Elems(processing')
        PROVE  q < p
    <3>1. p \in Elems(create) \cup Elems(processing)
      BY <1>1, <1>6, <2>2, Zenon
    <3>2. CASE q \in Elems(queue[y])
      BY <3>1, <3>2, Zenon DEF PlacesInv, Sorted
    <3>3. CASE q \notin Elems(queue[y])
      <4>1. q = r
        <5>1. CASE y = x
          BY <1>11, <2>2, <3>3, <5>1
        <5>2. CASE y # x
          BY <1>9, <2>2, <3>3, <5>2, Zenon
        <5>3. QED
          BY <5>1, <5>2
      <4>2. r \in Elems(processing)
        BY <1>6
      <4>3. CASE p \in Elems(processing')
        BY <1>6, <4>1, <4>3
      <4>4. CASE p \in Elems(create')
        BY <1>1, <4>1, <4>2, <4>4, Zenon DEF PlacesInv, Sorted
      <4>5. QED
        BY <4>3, <4>4
    <3>4. QED
      BY <3>2, <3>3
  <2>3. QED
    BY <1>1, <1>2, <1>6, <2>1, <2>2, Zenon DEF PlacesInv, Sorted, LoopTo
<1>17. Control'
  <2>1. \A c \in Conn, p \in Op : queue'[<<c, p>>] # <<>> => c \in registered'
    <3>1. ASSUME NEW c \in Conn, NEW p \in Op, queue'[<<c, p>>] # <<>>
          PROVE  c \in registered
      <4>1. CASE <<c, p>> = x
        BY <1>1, <4>1, Zenon DEF x
      <4>2. CASE <<c, p>> # x
        BY <1>9, <3>1, <4>2, Zenon DEF PlacesInv, Control
      <4>3. QED
        BY <4>1, <4>2
    <3>2. QED
      BY <1>1, <3>1
  <2>2. QED
    BY <1>1, <1>2, <1>8, <2>1, Zenon DEF PlacesInv, Control, LoopTo, InPending, Releasing
<1>18. Descriptors'
  BY <1>1, <1>2, <1>5, SameDescriptors, Zenon DEF LoopTo
<1>19. Where'
  BY <1>1, <1>4, <1>6, <1>8, <1>13, <1>14, Zenon DEF PlacesInv, Where
<1>20. DeadlinesTracked'
  BY <1>1, <1>13, <1>14, Zenon DEF PlacesInv, DeadlinesTracked, QueuedIs
<1>21. Swept'
  BY <1>2 DEF Swept, LoopTo
<1>22. QED
  BY <1>14, <1>15, <1>16, <1>17, <1>18, <1>19, <1>20, <1>21, Zenon DEF PlacesInv

\* handleEvents or the timer takes a request out of its queue and delivers it.
LEMMA DeliverQueued ==
  ASSUME TypeOK, Lists, QueuedIs, QueuedIs', PlacesInv, Kept, Req' = Req,
         NEW r \in Req, NEW d \in Conn, NEW o \in Op, NEW u, NEW ret \in {"events", "timer"},
         r \in Elems(queue[<<d, o>>]), Without(u, queue[<<d, o>>], r),
         queue' = [queue EXCEPT ![<<d, o>>] = u], Deliver(r, ret),
         loop.pc \in {"events", "timer"}, \A c \in Conn : sock'[c].fd = sock[c].fd,
         UNCHANGED <<create, processing, registered, chResults, returned, closer>>
  PROVE  PlacesInv' /\ r \in Queued /\ \A q : q \in Queued' <=> q \in Queued /\ q # r
<1> DEFINE x == <<d, o>>
<1>1. LoopTo("send", r, ret, loop.conn, loop.left, loop.back)
  BY LoopMoves, Zenon DEF TypeOK
<1>2. timeouts' = timeouts \ {r}
  BY DEF Deliver
<1>3. /\ Hand = {} /\ Hand' = {r} /\ die' = die /\ loop.conn = NoConn /\ loop'.conn = NoConn
      /\ ~ InPending /\ ~ Releasing'
  BY <1>1, Zenon DEF Hand, LoopTo, die, PlacesInv, Control, Releasing, InPending
<1>4. x \in Conn \X Op /\ DOMAIN queue = Conn \X Op
  BY Zenon DEF TypeOK, QueuesOK
<1>5. queue'[x] = u /\ \A y \in Conn \X Op : y # x => queue'[y] = queue[y]
  BY <1>4, Zenon
<1>6. Increasing(queue'[x]) /\ Elems(queue'[x]) = Elems(queue[x]) \ {r}
  BY <1>5 DEF Without
<1>7. \A q \in Req : /\ cb'[q].conn = cb[q].conn /\ cb'[q].op = cb[q].op
                     /\ cb'[q].deadline = cb[q].deadline
  BY Zenon DEF Kept, SameAsk
<1>8. cb[r].conn = d /\ cb[r].op = o
  BY DEF PlacesInv, Own
<1>9. ASSUME NEW c \in Conn, NEW p \in Op
      PROVE  \A q : q \in Elems(queue'[<<c, p>>]) <=> q \in Elems(queue[<<c, p>>]) /\ q # r
  <2>1. CASE <<c, p>> = x
    BY <1>6, <2>1, Zenon
  <2>2. CASE <<c, p>> # x
    <3>1. r \notin Elems(queue[<<c, p>>])
      BY <1>8, <2>2, Zenon DEF PlacesInv, Own
    <3>2. queue'[<<c, p>>] = queue[<<c, p>>]
      BY <1>5, <2>2
    <3>3. QED
      BY <3>1, <3>2
  <2>3. QED
    BY <2>1, <2>2, Zenon
<1> HIDE DEF x
<1>10. \A q : q \in Queued' <=> q \in Queued /\ q # r
  <2>1. \A q : q \in Queued' <=> \E c \in Conn, p \in Op : q \in Elems(queue'[<<c, p>>])
    BY <1>3, Zenon DEF QueuedIs
  <2>2. \A q : q \in Queued <=> \E c \in Conn, p \in Op : q \in Elems(queue[<<c, p>>])
    BY <1>3, Zenon DEF QueuedIs
  <2>3. QED
    BY <1>9, <2>1, <2>2, ZenonT(30)
<1>11. r \in Queued
  BY <1>3, Zenon DEF QueuedIs
<1>12. Own'
  <2>1. \A c \in Conn, p \in Op : Elems(queue'[<<c, p>>]) \subseteq Elems(queue[<<c, p>>])
    BY <1>9, Zenon
  <2>2. QED
    BY <1>1, <2>1, OwnStep, Zenon DEF PlacesInv, LoopTo
<1>13. Sorted'
  <2>1. ASSUME NEW y \in Conn \X Op
        PROVE  Increasing(queue'[y]) /\ Elems(queue'[y]) \subseteq Elems(queue[y])
    <3>1. CASE y = x
      BY <1>6, <3>1, Zenon
    <3>2. CASE y # x
      BY <1>5, <3>2, Zenon DEF PlacesInv, Sorted
    <3>3. QED
      BY <3>1, <3>2, Zenon
  <2>2. loop'.left = loop.left
    BY <1>1, Zenon DEF LoopTo
  <2>3. QED
    BY <2>1, <2>2, Zenon DEF PlacesInv, Sorted
<1>14. Control'
  <2>1. ASSUME NEW c \in Conn, NEW p \in Op, queue'[<<c, p>>] # <<>>
        PROVE  c \in registered
    <3>1. CASE <<c, p>> = x
      <4>1. queue[<<d, o>>] # <<>>
        BY NoElems, Zenon
      <4>2. c = d
        BY <3>1, Zenon DEF x
      <4>3. QED
        BY <4>1, <4>2, Zenon DEF PlacesInv, Control
    <3>2. CASE <<c, p>> # x
      BY <1>5, <2>1, <3>2, Zenon DEF PlacesInv, Control
    <3>3. QED
      BY <3>1, <3>2, Zenon
  <2>2. QED
    BY <1>1, <1>3, <2>1, Zenon DEF PlacesInv, Control, LoopTo, Releasing
<1>15. Descriptors'
  BY <1>1, SameDescriptors, Zenon DEF LoopTo
<1>16. Where'
  <2> SUFFICES ASSUME NEW q \in Req
               PROVE  /\ q \in Elems(create) =>
                           q \notin Elems(processing) \cup Queued' \cup Hand' \cup Elems(chResults)
                                   \cup returned
                      /\ q \in Elems(processing) =>
                           q \notin Queued' \cup Hand' \cup Elems(chResults) \cup returned
                      /\ q \in Queued' => q \notin Hand' \cup Elems(chResults) \cup returned
                      /\ q \in Hand' => q \notin Elems(chResults) \cup returned
                      /\ q \in Elems(chResults) => q \notin returned
                      /\ cb[q].op \in Op /\ ~ die =>
                           q \in Elems(create) \cup Elems(processing) \cup Queued' \cup Hand'
                                 \cup Elems(chResults) \cup returned
    BY <1>3, <1>7, Zenon DEF Where
  <2>1. q \in Queued' <=> q \in Queued /\ q # r
    BY <1>10, Zenon
  <2>2. q \in Hand' <=> q = r
    BY <1>3, Zenon
  <2>3. Hand = {}
    BY <1>3, Zenon
  <2>4. QED
    BY <1>11, <2>1, <2>2, <2>3, ZenonT(30) DEF PlacesInv, Where
<1>17. DeadlinesTracked'
  BY <1>2, <1>7, <1>10, Zenon DEF PlacesInv, DeadlinesTracked, QueuedIs
<1>18. Swept'
  BY <1>1, Zenon DEF Swept, LoopTo
<1>19. QED
  BY <1>10, <1>11, <1>12, <1>13, <1>14, <1>15, <1>16, <1>17, <1>18, Zenon DEF PlacesInv

\* The head of the queue completes.
LEMMA EventDoneInv ==
  ASSUME TypeOK, Lists, QueuedIs, QueuedIs', PlacesInv, NEW c \in Conn, NEW r, EventDone(c, r)
  PROVE  PlacesInv' /\ r \in Queued /\ \A q : q \in Queued' <=> q \in Queued /\ q # r
<1> DEFINE x == <<c, loop.side>>
<1>1. /\ loop.side \in Op /\ x \in Conn \X Op /\ queue[x] # <<>> /\ r = Head(queue[x])
      /\ loop.pc = "events" /\ Attempt(r) /\ queue' = [queue EXCEPT ![x] = Tail(queue[x])]
      /\ Deliver(r, "events")
      /\ UNCHANGED <<create, processing, registered, chResults, returned, closer>>
  BY Zenon DEF EventDone, Retrying, AtEvent, EventRest, submitVars, waitVars, TypeOK, LoopOK
<1>2. queue[x] \in Seq(Nat) /\ Increasing(queue[x]) /\ Elems(queue[x]) \subseteq Req
  BY <1>1, Zenon DEF Lists, PlacesInv, Sorted
<1>3. r \in Elems(queue[x]) /\ r \in Req /\ Without(Tail(queue[x]), queue[x], r)
  <2>1. Distinct(queue[x])
    BY <1>2, IncreasingDistinct, Zenon
  <2>2. /\ Elems(queue[x]) = Elems(Tail(queue[x])) \cup {r} /\ r \notin Elems(Tail(queue[x]))
        /\ Increasing(Tail(queue[x]))
    BY <1>1, <1>2, <2>1, TailFacts, Zenon
  <2>3. QED
    BY <1>2, <2>2, Zenon DEF Without
<1>4. Kept /\ Req' = Req /\ \A d \in Conn : sock'[d].fd = sock[d].fd
  BY <1>1, <1>3, KeptAttempt, AttemptFd, Zenon DEF TypeOK
<1>5. QED
  BY <1>1, <1>3, <1>4, DeliverQueued, Zenon

\* The root of the heap expires: being in the heap, it is queued, and in the
\* queue of its own connection and operation.
LEMMA TimerExpireInv ==
  ASSUME TypeOK, Lists, QueuedIs, QueuedIs', PlacesInv, NEW r, TimerExpire(r)
  PROVE  PlacesInv' /\ r \in Queued /\ \A q : q \in Queued' <=> q \in Queued /\ q # r
<1> DEFINE x == <<cb[r].conn, cb[r].op>>
<1>1. /\ r \in timeouts /\ loop.pc = "timer" /\ Fail(r, "deadline") /\ Deliver(r, "timer")
      /\ queue' = [queue EXCEPT ![x] = ListRemove(queue[x], r)]
      /\ UNCHANGED <<sock, create, processing, registered, chResults, returned, closer>>
  BY Zenon DEF TimerExpire, Earliest, TimerRest, submitVars, waitVars
<1>2. r \in Queued /\ r \in Req /\ loop.conn = NoConn
  BY <1>1, Zenon DEF PlacesInv, DeadlinesTracked, QueuedIs, Control, Releasing
<1>3. PICK d \in Conn, o \in Op : r \in Elems(queue[<<d, o>>])
  BY <1>2, Zenon DEF QueuedIs
<1>4. x = <<d, o>> /\ x \in Conn \X Op
  <2>1. cb[r].conn = d /\ cb[r].op = o
    BY <1>3, Zenon DEF PlacesInv, Own
  <2>2. QED
    BY <2>1, Zenon
<1> HIDE DEF x
<1>5. queue[x] \in Seq(Nat) /\ Increasing(queue[x]) /\ r \in Nat
  BY <1>2, <1>4, Zenon DEF Lists, PlacesInv, Sorted
<1>6. Without(ListRemove(queue[x], r), queue[x], r)
  BY <1>5, RemoveFacts, Zenon DEF Without
<1>7. Kept /\ Req' = Req
  <2>1. "deadline" \in Error /\ CbOK
    BY DEF Error, TypeOK
  <2>2. QED
    BY <1>1, <1>2, <2>1, KeptFail, Zenon
<1>8. QED
  BY <1>1, <1>2, <1>3, <1>4, <1>6, <1>7, DeliverQueued, Zenon

\* The loop's exit drops what was submitted.
LEMMA ExitDoneInv ==
  ASSUME TypeOK, Lists, QueuedIs, PlacesInv, ExitDone
  PROVE  PlacesInv'
<1>1. /\ loop.pc = "exit" /\ processing' = <<>> /\ create' = <<>>
      /\ registered = {} /\ chResults = <<>>
      /\ UNCHANGED <<cb, sock, registered, queue, closer, timeouts, chResults, returned>>
  BY DEF ExitDone, ExitRest, waitVars
<1>2. LoopTo("done", loop.cur, loop.ret, loop.conn, loop.left, loop.back)
  BY LoopMoves, Zenon DEF ExitDone, TypeOK
<1>3. Kept /\ Req' = Req
  BY <1>1, KeptSame
<1>4. Hand = {} /\ Hand' = {} /\ die /\ die' /\ ~ Releasing /\ ~ Releasing'
  BY <1>1, <1>2, Zenon DEF Hand, LoopTo, die, Releasing, PlacesInv, Control
<1>5. Elems(<<>>) = {} /\ Increasing(<<>>)
  BY DEF Elems, Increasing
<1>6. Queued' = Queued
  BY <1>1, <1>2, Zenon DEF LoopTo, Queued, Remaining
<1>7. Own'
  BY <1>1, <1>2, <1>3, OwnStep, Zenon DEF PlacesInv, LoopTo
<1>8. Sorted'
  BY <1>1, <1>2, <1>5, Zenon DEF PlacesInv, Sorted, LoopTo
<1>9. Control'
  BY <1>1, <1>2, <1>4, Zenon DEF PlacesInv, Control, LoopTo
<1>10. Descriptors'
  BY <1>1, <1>2, SameDescriptors DEF LoopTo
<1>11. Where'
  BY <1>1, <1>3, <1>4, <1>5, <1>6, Zenon DEF PlacesInv, Where
<1>12. DeadlinesTracked'
  BY <1>1, <1>6 DEF PlacesInv, DeadlinesTracked
<1>13. Swept'
  BY <1>1 DEF Swept
<1>14. QED
  BY <1>7, <1>8, <1>9, <1>10, <1>11, <1>12, <1>13 DEF PlacesInv

-----------------------------------------------------------------------------
(* The invariant.                                                          *)

\* NewWatcherSize: nothing is anywhere.
LEMMA InitPlaces ==
  ASSUME Init, Lists, QueuedIs
  PROVE  PlacesInv
<1>1. /\ cb = <<>> /\ create = <<>> /\ processing = <<>> /\ registered = {} /\ timeouts = {}
      /\ chResults = <<>> /\ returned = {} /\ loop.pc = "select" /\ loop.conn = NoConn
      /\ loop.left = <<>> /\ \A x \in Conn \X Op : queue[x] = <<>>
  BY DEF Init
<1>2. Elems(<<>>) = {} /\ Increasing(<<>>) /\ Distinct(<<>>)
  BY DEF Elems, Increasing, Distinct
<1>3. Req = {}
  BY <1>1 DEF Req
<1>4. Own /\ Sorted /\ Control
  BY <1>1, <1>2, Zenon DEF Own, Sorted, Control, Releasing, InPending
<1>5. Descriptors
  BY <1>1, Zenon DEF Init, SockInit, Descriptors
<1>6. Where /\ Swept /\ DeadlinesTracked
  BY <1>1, <1>3, Zenon DEF Where, Swept, DeadlinesTracked, QueuedIs
<1>7. QED
  BY <1>4, <1>5, <1>6 DEF PlacesInv

\* handlePending, handleEvents, the timer and the exit.
LEMMA LoopInv ==
  ASSUME TypeOK, Lists, QueuedIs, QueuedIs', PlacesInv, LoopStep
  PROVE  PlacesInv'
<1>1. ASSUME NEW r \in Id, Handling(r) PROVE r \in Req
  BY <1>1, TakeHead DEF Handling
<1>2. CASE Send \/ SendDie
  BY <1>2, SendInv
<1>3. CASE ReleaseNext
  BY <1>3, ReleaseNextInv
<1>4. CASE ReleaseEnd
  BY <1>4, ReleaseEndInv
<1>5. CASE PendingStep
  <2>1. CASE LoopNotified \/ PendingEnd
    BY <2>1, LoopMoveInv
  <2>2. CASE LoopSwap
    BY <2>2, SwapInv
  <2>3. ASSUME NEW r \in Id, PendingDup(r) \/ PendingWatch(r) PROVE PlacesInv'
    BY <2>3, RegisterInv
  <2>4. ASSUME NEW r \in Id, PendingFree(r) PROVE PlacesInv'
    <3>1. r \in Req
      BY <1>1, <2>4 DEF PendingFree
    <3>2. QED
      BY <2>4, <3>1, StartReleaseInv, Zenon
  <2>5. ASSUME NEW r \in Id, PendingDupFails(r) \/ PendingWatchFails(r) \/ StartDone(r)
        PROVE  PlacesInv'
    <3>1. r \in Req
      BY <1>1, <2>5 DEF PendingDupFails, PendingWatchFails, StartDone, Starting
    <3>2. QED
      BY <2>5, <3>1, PendingDeliverInv
  <2>6. ASSUME NEW r \in Id, StartQueued(r) PROVE PlacesInv'
    <3>1. r \in Req
      BY <1>1, <2>6, Zenon DEF StartQueued, Starting
    <3>2. QED
      BY <2>6, <3>1, StartQueuedInv
  <2>7. ASSUME NEW r \in Id, StartFree(r) PROVE PlacesInv'
    <3>1. r \in Req
      BY <1>1, <2>7 DEF StartFree, Starting
    <3>2. QED
      BY <2>7, <3>1, StartFreeInv
  <2>8. QED
    BY <1>5, <2>1, <2>2, <2>3, <2>4, <2>5, <2>6, <2>7, Zenon DEF PendingStep
<1>6. CASE EventStep
  BY <1>6, LoopMoveInv, EventDoneInv, Zenon DEF EventStep
<1>7. CASE TimerStep
  BY <1>7, LoopMoveInv, TimerExpireInv, Zenon DEF TimerStep
<1>8. CASE ExitStep
  BY <1>8, LoopMoveInv, ReceiveInv, ExitDoneInv, StartReleaseInv, Zenon DEF ExitStep
<1>9. QED
  BY <1>2, <1>3, <1>4, <1>5, <1>6, <1>7, <1>8 DEF LoopStep

\* Every step of the system.
LEMMA NextPlaces ==
  ASSUME TypeOK, Lists, QueuedIs, QueuedIs', PlacesInv, [Next]_vars
  PROVE  PlacesInv'
<1>1. CASE LoopStep
  BY <1>1, LoopInv
<1>2. CASE \E c \in Conn, s \in Shapes : Submit(c, s)
  BY <1>2, SubmitInv
<1>3. CASE WaitReceive
  BY <1>3, ReceiveInv
<1>4. CASE \/ NotifyStep \/ WaitCall \/ WaitCheck \/ WaitClosed \/ CloseDie \/ CloseStep
           \/ ClockTick \/ TimerFires \/ (PollerStep /\ Others)
           \/ (PeerStep /\ UNCHANGED pollVars /\ Others) \/ UNCHANGED vars
  BY <1>4, OthersInv
<1>5. QED
  BY <1>1, <1>2, <1>3, <1>4, Zenon DEF Next, WaitStep

\* The inductive invariant of the request's way through the watcher: the lists of
\* aioCreate, handlePending, handleEvents, releaseConn and deliver are disjoint,
\* free of repetitions and in the order of submission, and agree with the loop's
\* place, the maps of connections, the descriptors and the timeout heap.
THEOREM PlacesInvariant == Spec => []PlacesInv
<1>1. Init => TypeOK
  BY InitType
<1>2. TypeOK => Lists /\ QueuedIs
  BY ListTypes, QueuedTypes
<1>3. Init /\ Lists /\ QueuedIs => PlacesInv
  BY InitPlaces
<1>4. TypeOK /\ Lists /\ QueuedIs /\ QueuedIs' /\ PlacesInv /\ [Next]_vars => PlacesInv'
  BY NextPlaces
<1>5. QED
  BY <1>1, <1>2, <1>3, <1>4, StepTypes, TypeCorrect, PTL DEF Spec

-----------------------------------------------------------------------------
(* What follows from it.                                                   *)

\* A set with one element, and one with none.
LEMMA CardSingle ==
  ASSUME NEW i
  PROVE  Cardinality({i}) = 1 /\ Cardinality({}) = 0
<1> DEFINE F(S, f) == f = [T \in SUBSET S |-> IF T = {} THEN 0 ELSE 1 + f[T \ {CHOOSE x : x \in T}]]
           g == [T \in SUBSET {i} |-> IF T = {} THEN 0 ELSE 1]
           h == [T \in SUBSET {} |-> 0]
<1>0. SUBSET {i} = {{}, {i}} /\ SUBSET {} = {{}} /\ (CHOOSE x : x \in {i}) = i
  OBVIOUS
<1>1. F({i}, g)
  <2>1. \A T \in SUBSET {i} : T # {} => T = {i} /\ T \ {CHOOSE x : x \in T} = {}
    BY <1>0
  <2>2. \A T \in SUBSET {i} : T # {} => g[T \ {CHOOSE x : x \in T}] = 0
    BY <2>1
  <2>3. \A T \in SUBSET {i} : (IF T = {} THEN 0 ELSE 1) = IF T = {} THEN 0 ELSE 1 + g[T \ {CHOOSE x : x \in T}]
    <3> HIDE DEF g
    <3>1. QED
      BY <2>2
  <2>4. QED
    BY <2>3, Zenon
<1>2. F({}, h)
  <2>1. \A T \in SUBSET {} : T = {}
    OBVIOUS
  <2>2. \A T \in SUBSET {} : 0 = IF T = {} THEN 0 ELSE 1 + h[T \ {CHOOSE x : x \in T}]
    BY <2>1, Zenon
  <2>3. QED
    BY <2>2, Zenon
<1>3. \A S : (\E f : F(S, f)) => \E f : F(S, f) /\ Cardinality(S) = f[S]
  <2> SUFFICES ASSUME NEW S, \E f : F(S, f) PROVE \E f : F(S, f) /\ Cardinality(S) = f[S]
    BY Zenon
  <2>1. F(S, CHOOSE f : F(S, f))
    BY Zenon
  <2>2. Cardinality(S) = (CHOOSE f : F(S, f))[S]
    BY Zenon DEF Cardinality
  <2>3. QED
    BY <2>1, <2>2, Zenon
<1>4. PICK f : F({i}, f) /\ Cardinality({i}) = f[{i}]
  BY <1>1, <1>3, Zenon
<1>5. PICK e : F({}, e) /\ Cardinality({}) = e[{}]
  BY <1>2, <1>3, Zenon
<1>6. f[{}] = 0 /\ f[{i}] = 1 + f[{i} \ {CHOOSE x : x \in {i}}]
  BY <1>4, <1>0
<1>7. f[{i}] = 1
  BY <1>0, <1>6
<1>8. e[{}] = 0
  BY <1>5, <1>0
<1>9. QED
  BY <1>4, <1>5, <1>7, <1>8

\* A list without repetitions has an element once or not at all.
LEMMA Count ==
  ASSUME NEW s \in Seq(Nat), Distinct(s), NEW r
  PROVE  Occurrences(r, s) = IF r \in Elems(s) THEN 1 ELSE 0
<1> DEFINE I == {i \in DOMAIN s : s[i] = r}
<1> HIDE DEF I
<1>0. Occurrences(r, s) = Cardinality(I)
  BY Zenon DEF Occurrences, I
<1>1. CASE r \in Elems(s)
  <2>1. PICK i \in DOMAIN s : s[i] = r
    BY <1>1 DEF Elems
  <2>2. I = {i}
    BY <2>1 DEF Distinct, I
  <2>3. Cardinality({i}) = 1
    BY CardSingle, Zenon
  <2>4. QED
    BY <1>0, <1>1, <2>2, <2>3, Zenon
<1>2. CASE r \notin Elems(s)
  <2>1. I = {}
    BY <1>2 DEF Elems, I
  <2>2. Cardinality({}) = 0
    BY CardSingle, Zenon
  <2>3. QED
    BY <1>0, <1>2, <2>1, <2>2, Zenon
<1>3. QED
  BY <1>1, <1>2

\* A request that is queued is so for its own connection, once.
LEMMA RemainingOnce ==
  ASSUME TypeOK, Lists, PlacesInv, NEW r \in Req
  PROVE  Occurrences(r, Remaining(cb[r].conn)) = IF r \in Queued THEN 1 ELSE 0
<1>1. ASSUME NEW c \in Conn
      PROVE  /\ Remaining(c) \in Seq(Nat) /\ Distinct(Remaining(c))
             /\ \A q \in Elems(Remaining(c)) : cb[q].conn = c
  <2>1. CASE c = loop.conn
    <3>1. Remaining(c) = loop.left
      BY <2>1 DEF Remaining
    <3>2. QED
      BY <2>1, <3>1 DEF Lists, PlacesInv, Sorted, Own
  <2>2. CASE c # loop.conn
    <3> DEFINE s == queue[<<c, "read">>]
               t == queue[<<c, "write">>]
    <3>1. Remaining(c) = s \o t
      BY <2>2, Zenon DEF Remaining
    <3>2. <<c, "read">> \in Conn \X Op /\ <<c, "write">> \in Conn \X Op
      BY DEF Op
    <3>3. s \in Seq(Nat) /\ t \in Seq(Nat) /\ Increasing(s) /\ Increasing(t)
      BY <3>2, Zenon DEF Lists, PlacesInv, Sorted
    <3>4. (\A q \in Elems(s) : cb[q].conn = c /\ cb[q].op = "read")
          /\ \A q \in Elems(t) : cb[q].conn = c /\ cb[q].op = "write"
      BY DEF PlacesInv, Own, Op
    <3> HIDE DEF s, t
    <3>5. Distinct(s) /\ Distinct(t) /\ Elems(s) \cap Elems(t) = {}
      BY <3>3, <3>4, IncreasingDistinct
    <3>6. QED
      BY <3>1, <3>3, <3>4, <3>5, ConcatFacts, Zenon
  <2>3. QED
    BY <2>1, <2>2
<1>2. cb[r].conn \in Conn
  BY SeqElement DEF TypeOK, CbOK, Req, Aiocb
<1>3. r \in Queued <=> r \in Elems(Remaining(cb[r].conn))
  BY <1>1, <1>2 DEF Queued
<1>4. QED
  BY <1>1, <1>2, <1>3, Count

\* At most one of a request's places has it, and while the watcher is open one has
\* it: the lists it travels through are disjoint and have no repetitions.
LEMMA OncePlaced ==
  ASSUME TypeOK, Lists, PlacesInv
  PROVE  ExactlyOnce
<1> SUFFICES ASSUME NEW r \in DOMAIN cb
             PROVE  Places(r) <= 1 /\ (cb[r].op \in Op /\ ~ die => Places(r) = 1)
  BY DEF ExactlyOnce
<1>1. r \in Req
  BY SeqLength DEF TypeOK, CbOK, Req
<1>2. /\ create \in Seq(Nat) /\ processing \in Seq(Nat) /\ chResults \in Seq(Nat)
      /\ Increasing(create) /\ Increasing(processing) /\ Distinct(chResults)
  BY Zenon DEF Lists, PlacesInv, Sorted
<1>3. Distinct(create) /\ Distinct(processing)
  BY <1>2, IncreasingDistinct
<1>4. /\ Occurrences(r, create) = IF r \in Elems(create) THEN 1 ELSE 0
      /\ Occurrences(r, processing) = IF r \in Elems(processing) THEN 1 ELSE 0
      /\ Occurrences(r, chResults) = IF r \in Elems(chResults) THEN 1 ELSE 0
  BY <1>2, <1>3, Count
<1>5. Occurrences(r, Remaining(cb[r].conn)) = IF r \in Queued THEN 1 ELSE 0
  BY <1>1, RemainingOnce
<1>6. InHand(r) <=> r \in Hand
  BY DEF InHand, Hand
<1>7. Places(r) = (IF r \in Elems(create) THEN 1 ELSE 0) + (IF r \in Elems(processing) THEN 1 ELSE 0)
                  + (IF r \in Elems(chResults) THEN 1 ELSE 0) + (IF r \in Queued THEN 1 ELSE 0)
                  + (IF r \in Hand THEN 1 ELSE 0) + (IF r \in returned THEN 1 ELSE 0)
  BY <1>4, <1>5, <1>6 DEF Places
<1>8. QED
  BY <1>1, <1>7 DEF PlacesInv, Where

\* aioCreate, handlePending, handleEvents, the timer case, releaseConn, deliver
\* and WaitIO lose no request and complete none twice, whatever the number of
\* connections and requests and the order of the steps.
THEOREM AlwaysExactlyOnce == Spec => []ExactlyOnce
<1>1. TypeOK /\ Lists /\ PlacesInv => ExactlyOnce
  BY OncePlaced
<1>2. QED
  BY <1>1, TypeCorrect, ListTypes, PlacesInvariant, PTL

\* A duplicate descriptor is open exactly while its connection is registered, also
\* when a step of the registration fails, and requests wait on registered
\* connections only.
THEOREM AlwaysDescriptorsOwned == Spec => []DescriptorsOwned
<1>1. PlacesInv => DescriptorsOwned
  BY Zenon DEF PlacesInv, Control, Descriptors, DescriptorsOwned
<1>2. QED
  BY <1>1, PlacesInvariant, PTL

\* The timeout heap holds exactly the queued requests with a deadline.
THEOREM AlwaysDeadlinesTracked == Spec => []DeadlinesTracked
<1>1. PlacesInv => DeadlinesTracked
  BY DEF PlacesInv
<1>2. QED
  BY <1>1, PlacesInvariant, PTL

\* When the loop has returned, nothing is registered, no duplicate descriptor is
\* open and no request is left.
THEOREM AlwaysCleanWhenDone == Spec => []CleanWhenDone
<1>1. ASSUME TypeOK, Lists, QueuedIs, PlacesInv PROVE CleanWhenDone
  <2> SUFFICES ASSUME loop.pc = "done"
               PROVE  /\ registered = {} /\ (\A c \in Conn : sock[c].fd \in {"conn", "closed"})
                      /\ Outstanding = {} /\ timeouts = {} /\ chResults = <<>>
    BY DEF CleanWhenDone
  <2>1. registered = {} /\ create = <<>> /\ chResults = <<>>
    BY <1>1 DEF PlacesInv, Swept
  <2>2. processing = <<>> /\ loop.conn = NoConn
    BY <1>1, Zenon DEF PlacesInv, Control, InPending, Releasing
  <2>3. Elems(<<>>) = {}
    BY DEF Elems
  <2>4. ASSUME NEW c \in Conn, NEW o \in Op PROVE Elems(queue[<<c, o>>]) = {}
    BY <1>1, <2>1, <2>3, Zenon DEF PlacesInv, Control
  <2>5. Queued = {}
    <3>1. \A r : r \notin Queued
      BY <1>1, <2>2, <2>4, Zenon DEF QueuedIs
    <3>2. QED
      BY <3>1
  <2>6. ASSUME NEW c \in Conn PROVE sock[c].fd \in {"conn", "closed"}
    <3>1. sock[c].fd # "dup" /\ sock[c].fd # "both"
      BY <1>1, <2>1, Zenon DEF PlacesInv, Descriptors
    <3>2. sock[c] \in Sock
      BY <1>1 DEF TypeOK, SockOK
    <3>3. QED
      BY <3>1, <3>2 DEF Sock
  <2>7. timeouts = {}
    BY <1>1, <2>5, Zenon DEF PlacesInv, DeadlinesTracked
  <2>8. QED
    BY <2>1, <2>2, <2>3, <2>5, <2>6, <2>7 DEF Outstanding
<1>2. TypeOK /\ Lists /\ QueuedIs /\ PlacesInv => CleanWhenDone
  BY <1>1
<1>3. QED
  BY <1>2, TypeCorrect, ListTypes, QueuedTypes, PlacesInvariant, PTL

\* Only the records of the requests that the loop holds are written: those being
\* processed and those queued.
LEMMA WritesHeld ==
  ASSUME TypeOK, Lists, QueuedIs, PlacesInv, [Next]_vars
  PROVE  Writes(Elems(processing) \cup Queued)
<1> DEFINE H == Elems(processing) \cup Queued
           W == Writes(H)
<1>2. CbOK /\ SockOK /\ {"dup", "watch", "closed", "deadline"} \subseteq Error
  BY DEF TypeOK, Error
<1>3. ASSUME NEW r \in H, Attempt(r) \/ \E e \in Error : Fail(r, e) PROVE W
  <2>1. r \in Req
    BY <1>3, Zenon DEF Lists, QueuedIs
  <2>2. Writes({r})
    BY <1>2, <1>3, <2>1, KeptAttempt, KeptFail, Zenon
  <2>3. QED
    BY <1>3, <2>2, Zenon DEF Writes
<1>4. ASSUME UNCHANGED cb PROVE W
  BY <1>4 DEF Writes
<1>5. ASSUME NEW r, Handling(r) PROVE r \in H
  BY <1>5, TakeHead DEF Handling
<1>6. ASSUME \E c \in Conn, s \in Shapes : Submit(c, s) PROVE W
  <2>1. Writes({})
    BY <1>6, KeptSubmit
  <2>2. QED
    BY <2>1, Zenon DEF Writes
<1> SUFFICES W
  OBVIOUS
<1> HIDE DEF H, W
<1>7. CASE LoopStep
  <2>1. CASE Send \/ SendDie \/ ReleaseEnd
    BY <1>4, <2>1 DEF Send, SendDie, ReleaseEnd
  <2>2. CASE ReleaseNext
    <3>1. Head(loop.left) \in Elems(loop.left) /\ loop.conn # NoConn
      BY <2>2, TailFacts DEF ReleaseNext, Lists, PlacesInv, Control, Releasing
    <3>2. Head(loop.left) \in H
      BY <3>1, Zenon DEF QueuedIs, H
    <3>3. QED
      BY <1>2, <1>3, <2>2, <3>2 DEF ReleaseNext
  <2>3. CASE PendingStep
    <3>1. CASE LoopNotified \/ LoopSwap \/ PendingEnd
      BY <1>4, <3>1 DEF LoopNotified, LoopSwap, PendingEnd
    <3>2. ASSUME NEW r \in Id, PendingFree(r) \/ PendingDup(r) \/ PendingWatch(r) \/ StartFree(r)
          PROVE  W
      BY <1>4, <3>2 DEF PendingFree, PendingDup, PendingWatch, StartFree
    <3>3. ASSUME NEW r \in Id, PendingDupFails(r) \/ PendingWatchFails(r) \/ StartDone(r)
          PROVE  W
      <4>1. Handling(r) /\ (Fail(r, "dup") \/ Fail(r, "watch") \/ Attempt(r))
        BY <3>3 DEF PendingDupFails, PendingWatchFails, StartDone, Starting
      <4>2. QED
        BY <1>2, <1>3, <1>5, <4>1
    <3>4. ASSUME NEW r \in Id, StartQueued(r) PROVE W
      <4>1. Handling(r) /\ (Attempt(r) \/ UNCHANGED cb)
        BY <3>4, Zenon DEF StartQueued, Starting
      <4>2. QED
        BY <1>3, <1>4, <1>5, <4>1
    <3>5. QED
      BY <2>3, <3>1, <3>2, <3>3, <3>4, Zenon DEF PendingStep
  <2>4. CASE EventStep
    <3>1. CASE LoopSignal \/ EventSkip \/ EventsEnd \/ EventsDie
      BY <1>4, <3>1 DEF LoopSignal, EventSkip, EventsEnd, EventsDie
    <3>2. ASSUME NEW c \in Conn, NEW r \in Id, EventDone(c, r) \/ EventBlocked(c, r)
          PROVE  W
      <4> DEFINE x == <<c, loop.side>>
      <4>1. /\ loop.pc = "events" /\ loop.side \in Op /\ queue[x] # <<>> /\ r = Head(queue[x])
            /\ Attempt(r) /\ x \in Conn \X Op
        BY <3>2, Zenon DEF EventDone, EventBlocked, Retrying, AtEvent, TypeOK, LoopOK
      <4>2. r \in Elems(queue[x])
        <5>1. queue[x] \in Seq(Nat) /\ queue[x] # <<>>
          BY <4>1, Zenon DEF Lists
        <5>2. Elems(queue[x]) = Elems(Tail(queue[x])) \cup {Head(queue[x])}
          BY <5>1, TailFacts
        <5>3. QED
          BY <4>1, <5>2, Zenon
      <4>3. loop.conn = NoConn
        BY <4>1 DEF PlacesInv, Control, Releasing
      <4>4. r \in H
        BY <4>1, <4>2, <4>3, Zenon DEF QueuedIs, H
      <4>5. QED
        BY <1>3, <4>1, <4>4
    <3>3. QED
      BY <2>4, <3>1, <3>2, Zenon DEF EventStep
  <2>5. CASE TimerStep
    <3>1. CASE LoopTick \/ TimerEnd \/ \E r \in Id : TimerReset(r)
      BY <1>4, <3>1 DEF LoopTick, TimerEnd, TimerReset
    <3>2. ASSUME NEW r \in Id, TimerExpire(r) PROVE W
      <4>1. r \in timeouts /\ Fail(r, "deadline")
        BY <3>2, Zenon DEF TimerExpire, Earliest
      <4>2. r \in H
        BY <4>1 DEF PlacesInv, DeadlinesTracked, H
      <4>3. QED
        BY <1>2, <1>3, <4>1, <4>2
    <3>3. QED
      BY <2>5, <3>1, <3>2, Zenon DEF TimerStep
  <2>6. CASE ExitStep
    BY <1>4, <2>6 DEF ExitStep, LoopDie, ExitRelease, ExitDrain, ExitDone, ExitRest
  <2>7. QED
    BY <1>7, <2>1, <2>2, <2>3, <2>4, <2>5, <2>6 DEF LoopStep
<1>8. CASE \/ NotifyStep \/ WaitStep \/ CloseDie \/ CloseStep \/ ClockTick \/ TimerFires
           \/ (PollerStep /\ Others) \/ (PeerStep /\ UNCHANGED pollVars /\ Others) \/ UNCHANGED vars
  BY <1>4, <1>8, Zenon
     DEF NotifyStep, Notify, WaitStep, WaitCall, WaitReceive, WaitCheck, WaitClosed, WaitOnly,
         CloseDie, CloseStep, ClosePoller, CloseWake, CloseDone, CloseRest, ClockTick, TimerFires,
         ClockRest, Others, vars
<1>9. QED
  BY <1>6, <1>7, <1>8, Zenon DEF Next

\* deliver gives the request away: no step writes to the record of a request that
\* WaitIO has, or is about to receive.
THEOREM AlwaysDeliveredUntouched == Spec => DeliveredUntouched
<1>1. ASSUME TypeOK, Lists, QueuedIs, PlacesInv, [Next]_vars
      PROVE  [\A r \in Delivered : cb'[r] = cb[r]]_vars
  <2>1. ASSUME NEW r \in Delivered PROVE cb'[r] = cb[r]
    <3>1. r \in Req
      BY <1>1, HandType DEF Delivered, Lists
    <3>2. r \notin Elems(processing) \cup Queued
      BY <1>1, <3>1 DEF PlacesInv, Where, Delivered
    <3>3. QED
      BY <1>1, <3>1, <3>2, WritesHeld DEF Writes
  <2>2. QED
    BY <2>1
<1>2. TypeOK /\ Lists /\ QueuedIs /\ PlacesInv /\ [Next]_vars
        => [\A r \in Delivered : cb'[r] = cb[r]]_vars
  BY <1>1
<1>3. QED
  BY <1>2, TypeCorrect, ListTypes, QueuedTypes, PlacesInvariant, PTL DEF Spec, DeliveredUntouched

-----------------------------------------------------------------------------
(* What a step does to the requests, as far as their users can tell.       *)

\* What the socket says to a request.
Said == {"nil", "EOF", "reset"}

\* What was delivered, or is about to be, is sound, and what the socket said to a
\* request was said in order.
ServiceInv ==
  /\ \A r \in Req : cb[r].op = "write" => cb[r].len > 0
  /\ \A r \in Delivered \cup Hand : Sound(cb[r])
  /\ \A r \in Hand : cb[r].err \in Said => First(r)

\* What is outstanding after a step, but for r.
Loses(r) == \A q : q \in Outstanding' <=> q \in Outstanding /\ q # r

\* Request r goes into the hands of deliver, cancelled or with what the socket
\* said.
Takes(r) ==
  /\ r \in Req /\ r \in Outstanding /\ Loses(r)
  /\ Hand = {} /\ Hand' = {r}
  /\ Kept /\ Writes({r}) /\ Req' = Req
  /\ UNCHANGED <<chResults, returned, closer>>
  /\ cb'[r].err \in {"dup", "watch", "closed", "deadline"} \/ (First(r) /\ Sound(cb'[r]))

\* A Free request has done its work.
Forgets(r) ==
  /\ r \in Req /\ r \in Outstanding /\ cb[r].op = "delete" /\ Loses(r)
  /\ Hand = {} /\ Hand' = {}
  /\ UNCHANGED <<cb, chResults, returned, closer>>

\* Requests move between the lists inside, and one may be attempted.
Shuffles ==
  /\ Outstanding' = Outstanding /\ Hand' = Hand /\ (die => die')
  /\ Kept /\ Req' = Req
  /\ UNCHANGED <<chResults, returned>>

\* The requests of processing but the first.
LEMMA LosesHead ==
  ASSUME Lists, PlacesInv, processing # <<>>, processing' = Tail(processing),
         UNCHANGED create, Queued' = Queued
  PROVE  /\ Head(processing) \in Req /\ Head(processing) \in Outstanding
         /\ Loses(Head(processing))
<1>1. /\ Head(processing) \in Req
      /\ Elems(processing) = Elems(processing') \cup {Head(processing)}
      /\ Head(processing) \notin Elems(processing')
  BY TakeHead
<1>2. Head(processing) \notin Elems(create) \cup Queued
  BY <1>1 DEF PlacesInv, Where
<1>3. QED
  BY <1>1, <1>2 DEF Outstanding, Loses

\* The requests queued but r.
LEMMA LosesQueued ==
  ASSUME PlacesInv, NEW r \in Req, r \in Queued, UNCHANGED <<create, processing>>,
         \A q : q \in Queued' <=> q \in Queued /\ q # r
  PROVE  r \in Outstanding /\ Loses(r)
<1>1. r \notin Elems(create) \cup Elems(processing)
  BY DEF PlacesInv, Where
<1>2. QED
  BY <1>1 DEF Outstanding, Loses

\* Failed registrations and first attempts that complete.
LEMMA PendingTakes ==
  ASSUME TypeOK, Lists, QueuedIs, PlacesInv, ServiceInv, NEW r \in Req,
         PendingDupFails(r) \/ PendingWatchFails(r) \/ StartDone(r)
  PROVE  Takes(r)
<1>1. /\ processing # <<>> /\ r = Head(processing) /\ loop.pc \in {"pending", "watch", "start"}
      /\ processing' = Tail(processing) /\ Deliver(r, "pending")
      /\ UNCHANGED <<create, registered, queue, chResults, returned, closer>>
  BY DEF PendingDupFails, PendingWatchFails, StartDone, Starting, Handling, PendingRest,
         submitVars, waitVars
<1>2. LoopTo("send", r, "pending", loop.conn, loop.left, loop.back)
  BY <1>1, LoopMoves, Zenon DEF TypeOK
<1>3. Hand = {} /\ Hand' = {r}
  BY <1>1, <1>2, Zenon DEF Hand, LoopTo
<1>4. Queued' = Queued
  BY <1>1, <1>2, Zenon DEF LoopTo, Queued, Remaining
<1>5. r \in Outstanding /\ Loses(r)
  BY <1>1, <1>4, LosesHead
<1>6. CbOK /\ SockOK /\ "dup" \in Error /\ "watch" \in Error
  BY DEF Error, TypeOK
<1>7. CASE PendingDupFails(r) \/ PendingWatchFails(r)
  <2>1. Fail(r, "dup") \/ Fail(r, "watch")
    BY <1>7 DEF PendingDupFails, PendingWatchFails
  <2>2. Kept /\ Writes({r}) /\ Req' = Req /\ cb'[r].err \in {"dup", "watch"}
    BY <1>6, <2>1, KeptFail, Zenon
  <2>3. QED
    BY <1>1, <1>3, <1>5, <2>2, Zenon DEF Takes
<1>8. CASE StartDone(r)
  <2>1. /\ Starting(r) /\ cb[r].op \in Op /\ queue[<<cb[r].conn, cb[r].op>>] = <<>>
        /\ Try(r).done /\ Attempt(r)
    BY <1>8, Zenon DEF StartDone
  <2>2. Kept /\ Writes({r}) /\ Req' = Req
    BY <1>6, <2>1, KeptAttempt, Zenon
  <2>3. Sound(cb'[r])
    BY <1>6, <2>1, DoneSound, Zenon DEF ServiceInv
  <2>4. First(r)
    BY <2>1, FirstStart, Zenon
  <2>5. QED
    BY <1>1, <1>3, <1>5, <2>2, <2>3, <2>4, Zenon DEF Takes
<1>9. QED
  BY <1>7, <1>8

\* releaseConn, handleEvents and the timer.
LEMMA QueuedTakes ==
  ASSUME TypeOK, Lists, QueuedIs, QueuedIs', PlacesInv, ServiceInv, NEW r,
         \/ (ReleaseNext /\ r = Head(loop.left))
         \/ (\E c \in Conn : EventDone(c, r))
         \/ TimerExpire(r)
  PROVE  Takes(r)
<1>1. CbOK /\ SockOK /\ "closed" \in Error /\ "deadline" \in Error
  BY DEF Error, TypeOK
<1>2. CASE ReleaseNext /\ r = Head(loop.left)
  <2>1. /\ loop.pc = "release" /\ loop.left # <<>> /\ Fail(r, "closed")
        /\ LoopTo("send", r, "release", loop.conn, Tail(loop.left), loop.back)
        /\ UNCHANGED <<create, processing, closer, chResults, returned>>
    BY <1>2 DEF ReleaseNext, TypeOK, LoopOK, LoopTo, submitVars, waitVars
  <2>2. r \in Elems(loop.left) /\ r \in Req
    <3>1. loop.left \in Seq(Nat) /\ Elems(loop.left) \subseteq Req
      BY Zenon DEF Lists
    <3>2. QED
      BY <1>2, <2>1, <3>1, TailFacts, Zenon
  <2>3. r \in Queued
    <3>1. loop.conn # NoConn
      BY <2>1, Zenon DEF PlacesInv, Control, Releasing
    <3>2. QED
      BY <2>2, <3>1, Zenon DEF QueuedIs
  <2>4. \A q : q \in Queued' <=> q \in Queued /\ q # r
    BY <1>2, ReleaseNextInv
  <2>5. Kept /\ Writes({r}) /\ Req' = Req /\ cb'[r].err = "closed"
    BY <1>1, <2>1, <2>2, KeptFail, Zenon
  <2>6. r \in Outstanding /\ Loses(r)
    BY <2>1, <2>2, <2>3, <2>4, LosesQueued, Zenon
  <2>7. Hand = {} /\ Hand' = {r}
    BY <2>1 DEF Hand, LoopTo
  <2>8. QED
    BY <2>1, <2>2, <2>5, <2>6, <2>7, Zenon DEF Takes
<1>3. ASSUME NEW c \in Conn, EventDone(c, r) PROVE Takes(r)
  <2>1. /\ Retrying(c, r) /\ loop.pc = "events" /\ Attempt(r) /\ Try(r).done
        /\ Deliver(r, "events")
        /\ UNCHANGED <<create, processing, closer, chResults, returned>>
    BY <1>3, Zenon DEF EventDone, Retrying, AtEvent, EventRest, submitVars, waitVars
  <2>2. r \in Req /\ cb[r].op \in Op /\ First(r)
    BY <2>1, FirstQueued
  <2>3. r \in Queued /\ \A q : q \in Queued' <=> q \in Queued /\ q # r
    BY <1>3, EventDoneInv
  <2>4. Kept /\ Writes({r}) /\ Req' = Req
    BY <1>1, <2>1, <2>2, KeptAttempt, Zenon
  <2>5. Sound(cb'[r])
    BY <1>1, <2>1, <2>2, DoneSound, Zenon DEF ServiceInv
  <2>6. r \in Outstanding /\ Loses(r)
    BY <2>1, <2>2, <2>3, LosesQueued
  <2>7. LoopTo("send", r, "events", loop.conn, loop.left, loop.back)
    BY <2>1, LoopMoves, Zenon DEF TypeOK
  <2>8. Hand = {} /\ Hand' = {r}
    BY <2>1, <2>7, Zenon DEF Hand, LoopTo
  <2>9. QED
    BY <2>1, <2>2, <2>4, <2>5, <2>6, <2>8, Zenon DEF Takes
<1>4. CASE TimerExpire(r)
  <2>1. /\ r \in timeouts /\ loop.pc = "timer" /\ Fail(r, "deadline") /\ Deliver(r, "timer")
        /\ UNCHANGED <<create, processing, closer, chResults, returned>>
    BY <1>4, Zenon DEF TimerExpire, Earliest, TimerRest, submitVars, waitVars
  <2>2. r \in Req
    BY <2>1, HandType
  <2>3. r \in Queued /\ \A q : q \in Queued' <=> q \in Queued /\ q # r
    BY <1>4, TimerExpireInv
  <2>4. Kept /\ Writes({r}) /\ Req' = Req /\ cb'[r].err = "deadline"
    BY <1>1, <2>1, <2>2, KeptFail, Zenon
  <2>5. r \in Outstanding /\ Loses(r)
    BY <2>1, <2>2, <2>3, LosesQueued
  <2>6. LoopTo("send", r, "timer", loop.conn, loop.left, loop.back)
    BY <2>1, LoopMoves, Zenon DEF TypeOK
  <2>7. Hand = {} /\ Hand' = {r}
    BY <2>1, <2>6 DEF Hand, LoopTo
  <2>8. QED
    BY <2>1, <2>2, <2>4, <2>5, <2>7, Zenon DEF Takes
<1>5. QED
  BY <1>2, <1>3, <1>4

\* Free: the request that releases its connection, or has none to release.
LEMMA FreeForgets ==
  ASSUME TypeOK, Lists, QueuedIs, QueuedIs', PlacesInv, NEW r \in Req,
         PendingFree(r) \/ StartFree(r)
  PROVE  Forgets(r)
<1>1. /\ processing # <<>> /\ r = Head(processing) /\ loop.pc \in {"pending", "start"}
      /\ processing' = Tail(processing) /\ cb[r].op = "delete"
      /\ UNCHANGED <<cb, create, registered, queue, chResults, returned, closer>>
  BY Zenon DEF PendingFree, StartFree, Starting, Handling, PendingRest, submitVars, waitVars
<1>2. Queued' = Queued /\ loop'.pc # "send"
  <2>1. CASE PendingFree(r)
    <3>1. Queued' = Queued
      BY <2>1, StartReleaseInv, Zenon
    <3>2. LoopTo("release", loop.cur, loop.ret, cb[r].conn,
                 queue[<<cb[r].conn, "read">>] \o queue[<<cb[r].conn, "write">>], "pending")
      BY <2>1, LoopMoves, Zenon DEF TypeOK, PendingFree
    <3>3. loop'.pc = "release"
      BY <3>2, Zenon DEF LoopTo
    <3>4. QED
      BY <3>1, <3>3
  <2>2. CASE StartFree(r)
    <3>1. LoopTo("pending", loop.cur, loop.ret, loop.conn, loop.left, loop.back)
      BY <2>2, LoopMoves, Zenon DEF TypeOK, StartFree
    <3>2. Queued' = Queued
      BY <1>1, <3>1, Zenon DEF LoopTo, Queued, Remaining
    <3>3. QED
      BY <3>1, <3>2 DEF LoopTo
  <2>3. QED
    BY <2>1, <2>2
<1>3. r \in Outstanding /\ Loses(r)
  BY <1>1, <1>2, LosesHead, Zenon
<1>4. Hand = {} /\ Hand' = {}
  BY <1>1, <1>2 DEF Hand
<1>5. QED
  BY <1>1, <1>3, <1>4 DEF Forgets

\* The swap, a request that has to wait, and the ends of releaseConn.
LEMMA LoopShuffles ==
  ASSUME TypeOK, Lists, QueuedIs, QueuedIs', PlacesInv,
         \/ LoopSwap \/ ReleaseEnd \/ (\E r \in Req : StartQueued(r))
         \/ \E c \in Conn : ExitRelease(c)
  PROVE  Shuffles
<1>1. CASE LoopSwap
  <2>1. /\ loop.pc = "swap" /\ processing' = create /\ create' = <<>>
        /\ UNCHANGED <<cb, queue, chResults, returned, closer>>
    BY <1>1 DEF LoopSwap, waitVars
  <2>2. LoopTo("pending", loop.cur, loop.ret, loop.conn, loop.left, loop.back)
    BY <1>1, LoopMoves, Zenon DEF LoopSwap, TypeOK
  <2>3. processing = <<>>
    BY <2>1, Zenon DEF PlacesInv, Control, InPending, Releasing
  <2>4. Queued' = Queued
    BY <2>1, <2>2, Zenon DEF LoopTo, Queued, Remaining
  <2>5. Elems(<<>>) = {}
    BY DEF Elems
  <2>6. Kept /\ Req' = Req
    BY <2>1, KeptSame
  <2>7. QED
    BY <2>1, <2>2, <2>3, <2>4, <2>5, <2>6 DEF Shuffles, Outstanding, Hand, LoopTo, die
<1>2. CASE ReleaseEnd
  <2>1. /\ loop.pc = "release" /\ loop.back \in {"pending", "exit"}
        /\ UNCHANGED <<cb, create, processing, chResults, returned, closer>>
        /\ LoopTo(loop.back, loop.cur, loop.ret, NoConn, loop.left, "pending")
    BY <1>2 DEF ReleaseEnd, TypeOK, LoopOK, LoopTo, submitVars, waitVars
  <2>2. Queued' = Queued
    BY <1>2, ReleaseEndInv
  <2>3. Kept /\ Req' = Req
    BY <2>1, KeptSame
  <2>4. QED
    BY <2>1, <2>2, <2>3, Zenon DEF Shuffles, Outstanding, Hand, LoopTo, die
<1>3. ASSUME NEW c \in Conn, ExitRelease(c) PROVE Shuffles
  <2>1. /\ loop.pc = "exit"
        /\ UNCHANGED <<cb, create, processing, chResults, returned, closer>>
        /\ Release(c, "exit")
    BY <1>3 DEF ExitRelease, ExitRest, waitVars
  <2>2. Queued' = Queued
    BY <1>3, StartReleaseInv, Zenon
  <2>3. LoopTo("release", loop.cur, loop.ret, c,
               queue[<<c, "read">>] \o queue[<<c, "write">>], "exit")
    BY <2>1, LoopMoves, Zenon DEF TypeOK
  <2>4. loop'.pc = "release"
    BY <2>3, Zenon DEF LoopTo
  <2>5. Kept /\ Req' = Req
    BY <2>1, KeptSame
  <2>6. QED
    BY <2>1, <2>2, <2>4, <2>5 DEF Shuffles, Outstanding, Hand, die
<1>4. ASSUME NEW r \in Req, StartQueued(r) PROVE Shuffles
  <2>1. /\ processing # <<>> /\ r = Head(processing) /\ loop.pc \in {"pending", "start"}
        /\ processing' = Tail(processing)
        /\ UNCHANGED <<create, chResults, returned, closer>>
    BY <1>4, StartingFacts, Zenon DEF StartQueued, PendingRest, submitVars, waitVars
  <2>2. \A q : q \in Queued' <=> q \in Queued \/ q = r
    BY <1>4, StartQueuedInv
  <2>3. Elems(processing) = Elems(processing') \cup {r}
    BY <2>1, TakeHead
  <2>4. LoopTo("pending", loop.cur, loop.ret, loop.conn, loop.left, loop.back)
    BY <1>4, LoopMoves, Zenon DEF TypeOK, StartQueued
  <2>5. Attempt(r) \/ UNCHANGED cb
    BY <1>4, Zenon DEF StartQueued
  <2>6. Kept /\ Req' = Req
    BY <2>5, KeptSame, KeptAttempt, Zenon DEF TypeOK
  <2>7. Outstanding' = Outstanding
    BY <2>1, <2>2, <2>3 DEF Outstanding
  <2>8. Hand' = Hand /\ die' = die
    BY <2>1, <2>4 DEF Hand, LoopTo, die
  <2>9. QED
    BY <2>1, <2>6, <2>7, <2>8 DEF Shuffles
<1>5. QED
  BY <1>1, <1>2, <1>3, <1>4

\* Every step is of one of these kinds.
LEMMA StepKinds ==
  ASSUME TypeOK, Lists, QueuedIs, QueuedIs', PlacesInv, ServiceInv, [Next]_vars
  PROVE  \/ \E c \in Conn, s \in Shapes : Submit(c, s)
         \/ \E r \in Req : Takes(r) \/ Forgets(r)
         \/ Shuffles
         \/ Send \/ SendDie \/ WaitReceive \/ ExitDrain \/ ExitDone
<1>1. Still => Shuffles
  BY StillPlaces DEF Still, Shuffles, Outstanding
<1>2. ASSUME NEW r \in Id, Handling(r) PROVE r \in Req
  BY <1>2, TakeHead DEF Handling
<1>3. \A r : Takes(r) => r \in Req
  BY DEF Takes
<1>4. CASE PendingStep
  <2>1. CASE LoopNotified \/ PendingEnd
    BY <1>1, <2>1, LoopMoveInv
  <2>2. CASE LoopSwap
    BY <2>2, LoopShuffles
  <2>3. ASSUME NEW r \in Id, PendingDup(r) \/ PendingWatch(r) PROVE Shuffles
    BY <1>1, <2>3, RegisterInv
  <2>4. ASSUME NEW r \in Id, PendingFree(r) \/ StartFree(r) PROVE r \in Req /\ Forgets(r)
    <3>1. r \in Req
      BY <1>2, <2>4, Zenon DEF PendingFree, StartFree, Starting
    <3>2. QED
      BY <2>4, <3>1, FreeForgets
  <2>5. ASSUME NEW r \in Id, PendingDupFails(r) \/ PendingWatchFails(r) \/ StartDone(r)
        PROVE  r \in Req /\ Takes(r)
    <3>1. r \in Req
      BY <1>2, <2>5 DEF PendingDupFails, PendingWatchFails, StartDone, Starting
    <3>2. QED
      BY <2>5, <3>1, PendingTakes
  <2>6. ASSUME NEW r \in Id, StartQueued(r) PROVE Shuffles
    <3>1. r \in Req
      BY <1>2, <2>6, Zenon DEF StartQueued, Starting
    <3>2. QED
      BY <2>6, <3>1, LoopShuffles, Zenon
  <2>7. QED
    BY <1>4, <2>1, <2>2, <2>3, <2>4, <2>5, <2>6, Zenon DEF PendingStep
<1>5. CASE EventStep
  BY <1>1, <1>3, <1>5, LoopMoveInv, QueuedTakes, Zenon DEF EventStep
<1>6. CASE TimerStep
  BY <1>1, <1>3, <1>6, LoopMoveInv, QueuedTakes, Zenon DEF TimerStep
<1>7. CASE ReleaseNext
  BY <1>3, <1>7, QueuedTakes, Zenon
<1>8. CASE ReleaseEnd
  BY <1>8, LoopShuffles
<1>9. CASE LoopDie \/ \E c \in Conn : ExitRelease(c)
  BY <1>1, <1>9, LoopMoveInv, LoopShuffles, Zenon
<1>10. CASE \/ NotifyStep \/ WaitCall \/ WaitCheck \/ WaitClosed \/ CloseDie \/ CloseStep
            \/ ClockTick \/ TimerFires \/ (PollerStep /\ Others)
            \/ (PeerStep /\ UNCHANGED pollVars /\ Others) \/ UNCHANGED vars
  BY <1>1, <1>10, OthersInv, Zenon
<1>11. QED
  BY <1>4, <1>5, <1>6, <1>7, <1>8, <1>9, <1>10, Zenon DEF Next, LoopStep, WaitStep, ExitStep
=============================================================================
