------------------------------- MODULE Watcher -------------------------------
(***************************************************************************)
(* The watcher: requests from submission to the batch WaitIO returns.      *)
(*                                                                         *)
(* Any number of goroutines submit requests (aioCreate) and may close the  *)
(* watcher; one goroutine calls WaitIO; the loop goroutine owns the        *)
(* registered connections, their queues and the deadlines; the poller      *)
(* (EpollPoller) reports readiness.  A request is named by its place in    *)
(* the order of submission.                                                *)
(***************************************************************************)
EXTENDS EpollPoller

CONSTANTS
  MaxReq,   \* bound: requests submitted
  Shapes,   \* the requests users make: op, buffer length, readFull, deadline
  MaxTime,  \* bound: the clock stops here; 0 is the zero time
  Cap       \* capacity of chResults

Id == 1 .. MaxReq
Time == 0 .. MaxTime

NoConn == "none"

ASSUME NoConnAssumption == NoConn \notin Conn
ASSUME MaxReqAssumption == MaxReq \in Nat
ASSUME MaxTimeAssumption == MaxTime \in Nat \ {0}
ASSUME CapAssumption == Cap \in Nat \ {0}
\* ReadFull and Write refuse an empty buffer; a deadline can pass within the
\* bound on the clock.
ASSUME ShapesAssumption ==
  \A s \in Shapes :
    /\ s \in [op : Op \cup {"delete"}, len : Nat, full : BOOLEAN, deadline : Time]
    /\ s.full \/ s.op = "write" => s.len > 0
    /\ s.deadline < MaxTime

VARIABLES
  cb,          \* the request records (aiocb), indexed by request
  create,      \* pendingCreate
  processing,  \* pendingProcessing, from the request being handled on
  notify,      \* chPendingNotify holds a token
  posting,     \* requests whose submitter has yet to call notifyPending
  registered,  \* connections with an entry in connIdents and descs
  queue,       \* desc.readers and desc.writers of each connection
  timeouts,    \* the requests in the timeout heap
  timer,       \* when the timer fires, 0 when it is stopped
  tick,        \* timer.C holds a tick
  now,         \* the clock
  chResults,   \* completions on their way to WaitIO
  returned,    \* requests WaitIO has taken from chResults
  waiter,      \* where the consumer is in WaitIO
  closer,      \* where the goroutine that closes the watcher is in Close
  loop         \* the loop goroutine: where it is and its local variables

submitVars == <<create, notify, posting>>
timeVars == <<timer, tick, now>>
waitVars == <<returned, waiter>>
vars == <<sock, pollVars, cb, submitVars, processing, registered, queue,
          timeouts, timeVars, chResults, waitVars, closer, loop>>

Error == {"nil", "EOF", "EAGAIN", "reset", "dup", "watch", "closed", "deadline"}

Aiocb == {a \in [conn : Conn, op : Op \cup {"delete"}, len : Nat, full : BOOLEAN,
                 deadline : Time, size : Nat, err : Error] : a.size <= a.len}

\* The requests submitted so far.
Req == 1 .. Len(cb)

(* pc    where the loop is;
   cur   the request being delivered, and ret where deliver returns to;
   conn  the connection being released, left the requests still to fail and
         back where releaseConn returns to;
   i     the event being handled, and side which of its queues;
   now   the time handler's reading of the clock.
   A variable that has gone out of scope has its initial value.              *)
LoopOK ==
  /\ loop \in
       [pc : {"select", "swap", "pending", "watch", "start", "events", "timer",
              "send", "release", "exit", "done"},
        cur : Req \cup {0}, ret : {"pending", "events", "timer", "release"},
        conn : Conn \cup {NoConn}, left : Seq(Req), back : {"pending", "exit"},
        i : Nat, side : Op, now : Time]
  /\ loop.pc = "send" => loop.cur # 0

CbOK == cb \in Seq(Aiocb) /\ Len(cb) <= MaxReq
SubmitOK == create \in Seq(Req) /\ notify \in BOOLEAN /\ posting \subseteq Req
TimeOK == timer \in Time /\ tick \in BOOLEAN /\ now \in Time
QueuesOK ==
  /\ processing \in Seq(Req)
  /\ registered \subseteq Conn
  /\ queue \in [Conn \X Op -> Seq(Req)]
  /\ timeouts \subseteq Req
WaitOK ==
  /\ chResults \in Seq(Req) /\ Len(chResults) <= Cap
  /\ returned \subseteq Req
  /\ waiter \in {"user", "wait", "drain", "recv", "end"}
  /\ closer \in {"no", "die", "poller", "wait", "closed"}

TypeOK ==
  SockOK /\ PollOK /\ CbOK /\ SubmitOK /\ QueuesOK /\ TimeOK /\ WaitOK /\ LoopOK

Init ==
  /\ SockInit /\ PollInit
  /\ cb = <<>> /\ create = <<>> /\ processing = <<>>
  /\ notify = FALSE /\ posting = {}
  /\ registered = {}
  /\ queue = [x \in Conn \X Op |-> <<>>]
  /\ timeouts = {}
  /\ timer = 0 /\ tick = FALSE /\ now = 1
  /\ chResults = <<>> /\ returned = {}
  /\ waiter = "user" /\ closer = "no"
  /\ loop = [pc |-> "select", cur |-> 0, ret |-> "pending", conn |-> NoConn,
             left |-> <<>>, back |-> "pending", i |-> 1, side |-> "read", now |-> 0]

\* The channel die is closed.
die == closer # "no"

Goto(pc) == loop' = [loop EXCEPT !.pc = pc]

Elems(s) == {s[i] : i \in DOMAIN s}

-----------------------------------------------------------------------------
(* Submission: aioCreate, called by Read, ReadFull, Write, Free and the    *)
(* variants with a deadline.  Once die is closed it refuses, and nothing   *)
(* changes.                                                                *)

Submit(c, s) ==
  LET r == Len(cb) + 1
  IN  /\ r \in Id
      /\ ~ die
      /\ cb' = Append(cb, [conn |-> c, op |-> s.op, len |-> s.len, full |-> s.full,
                           deadline |-> s.deadline, size |-> 0, err |-> "nil"])
      /\ create' = Append(create, r)
      /\ posting' = posting \cup {r}
      /\ UNCHANGED <<sock, pollVars, notify, processing, registered, queue,
                     timeouts, timeVars, chResults, waitVars, closer, loop>>

\* notifyPending: leaves a token unless one is there.
Notify(r) ==
  /\ r \in posting
  /\ posting' = posting \ {r}
  /\ notify' = TRUE
  /\ UNCHANGED <<sock, pollVars, cb, create, processing, registered, queue,
                 timeouts, timeVars, chResults, waitVars, closer, loop>>

-----------------------------------------------------------------------------
(* WaitIO.                                                                 *)

WaitOnly == UNCHANGED <<sock, pollVars, cb, submitVars, processing, registered,
                        queue, timeouts, timeVars, closer, loop>>

WaitCall ==
  /\ waiter = "user"
  /\ waiter' = "wait"
  /\ UNCHANGED <<returned, chResults>> /\ WaitOnly

\* A result is received: the first one by the select, the others by the plain
\* receive in the loop that empties the channel.
WaitReceive ==
  /\ waiter \in {"wait", "recv"}
  /\ chResults # <<>>
  /\ returned' = returned \cup {Head(chResults)}
  /\ chResults' = Tail(chResults)
  /\ waiter' = "drain"
  /\ WaitOnly

\* The loop condition len(w.chResults) > 0, evaluated before the receive.
WaitCheck ==
  /\ waiter = "drain"
  /\ waiter' = IF Len(chResults) > 0 THEN "recv" ELSE "user"
  /\ UNCHANGED <<returned, chResults>> /\ WaitOnly

\* The select sees die or loopDone; the user stops on ErrWatcherClosed.
WaitClosed ==
  /\ waiter = "wait" /\ die
  /\ waiter' = "end"
  /\ UNCHANGED <<returned, chResults>> /\ WaitOnly

-----------------------------------------------------------------------------
(* Close: stop closes die and then the poller, and Close waits for the loop. *)

CloseRest == UNCHANGED <<cb, submitVars, processing, registered, queue, timeouts,
                         timeVars, chResults, waitVars, loop>>

CloseDie ==
  /\ "close" \in Env /\ closer = "no"
  /\ closer' = "die"
  /\ UNCHANGED <<sock, pollVars>> /\ CloseRest

ClosePoller ==
  /\ closer = "die" /\ closer' = "poller"
  /\ CloseDieChannel /\ CloseRest

\* With a mistake: a poller blocked in EpollWait is not woken.
CloseNoWake ==
  /\ closer = "poller" /\ closer' = "wait"
  /\ UNCHANGED <<sock, pollVars>> /\ CloseRest

CloseWake ==
  /\ closer = "poller" /\ closer' = "wait"
  /\ Wakeup /\ CloseRest

CloseDone ==
  /\ closer = "wait" /\ loop.pc = "done"
  /\ closer' = "closed"
  /\ UNCHANGED <<sock, pollVars>> /\ CloseRest

-----------------------------------------------------------------------------
(* What the loop does with one request.                                    *)

\* With a mistake: the bytes of the last read replace the count of all of them.
TryReadLast(pcb, s) ==
  LET x == RawRead(s, pcb.len - pcb.size)
      err == IF x.err = "nil" /\ x.n = 0 THEN "EOF" ELSE x.err
  IN  IF x.err = "EAGAIN"
      THEN [done |-> FALSE, pcb |-> pcb, sock |-> x.sock]
      ELSE [done |-> ~ pcb.full \/ err # "nil" \/ x.n = pcb.len,
            pcb |-> [pcb EXCEPT !.size = x.n, !.err = err], sock |-> x.sock]

\* tryRead: one read of what is missing.  An empty read is taken for the end
\* of the stream, and a full read goes on until its buffer is full.
TryRead(pcb, s) ==
  LET x == RawRead(s, pcb.len - pcb.size)
      err == IF x.err = "nil" /\ x.n = 0 THEN "EOF" ELSE x.err
      size == pcb.size + x.n
  IN  IF x.err = "EAGAIN"
      THEN [done |-> FALSE, pcb |-> pcb, sock |-> x.sock]
      ELSE [done |-> ~ pcb.full \/ err # "nil" \/ size = pcb.len,
            pcb |-> [pcb EXCEPT !.size = size, !.err = err], sock |-> x.sock]

\* With a mistake: a short write counts as complete.
TryWriteShort(pcb, s) ==
  LET x == RawWrite(s, pcb.len - pcb.size)
  IN  [done |-> x.err # "EAGAIN",
       pcb |-> [pcb EXCEPT !.size = @ + x.n, !.err = x.err], sock |-> x.sock]

\* tryWrite: one write of what is left; complete when all is written or on an
\* error other than EAGAIN, which is recorded but retried.
TryWrite(pcb, s) ==
  LET x == RawWrite(s, pcb.len - pcb.size)
      size == pcb.size + x.n
  IN  [done |-> x.err # "EAGAIN" /\ (x.err # "nil" \/ size = pcb.len),
       pcb |-> [pcb EXCEPT !.size = size, !.err = x.err], sock |-> x.sock]

Try(r) == IF cb[r].op = "read" THEN TryRead(cb[r], sock[cb[r].conn])
                               ELSE TryWrite(cb[r], sock[cb[r].conn])

\* The attempt is made: its effect on the request and on the socket.
Attempt(r) ==
  /\ cb' = [cb EXCEPT ![r] = Try(r).pcb]
  /\ sock' = [sock EXCEPT ![cb[r].conn] = Try(r).sock]

Fail(r, err) == cb' = [cb EXCEPT ![r].err = err]

\* With a mistake: the request stays in the heap.
DeliverInHeap(r, ret) ==
  /\ UNCHANGED timeouts
  /\ loop' = [loop EXCEPT !.pc = "send", !.cur = r, !.ret = ret]

\* deliver, first half: out of the heap; the send follows, then the loop goes
\* on at ret.
Deliver(r, ret) ==
  /\ timeouts' = timeouts \ {r}
  /\ loop' = [loop EXCEPT !.pc = "send", !.cur = r, !.ret = ret]

\* deliver, second half: blocks while chResults is full and die is open.
Send ==
  /\ loop.pc = "send"
  /\ Len(chResults) < Cap
  /\ chResults' = Append(chResults, loop.cur)
  /\ loop' = [loop EXCEPT !.pc = loop.ret, !.cur = 0, !.ret = "pending"]
  /\ UNCHANGED <<sock, pollVars, cb, submitVars, processing, registered, queue,
                 timeouts, timeVars, waitVars, closer>>

SendDie ==
  /\ loop.pc = "send" /\ die
  /\ loop' = [loop EXCEPT !.pc = loop.ret, !.cur = 0, !.ret = "pending"]
  /\ UNCHANGED <<sock, pollVars, cb, submitVars, processing, registered, queue,
                 timeouts, timeVars, chResults, waitVars, closer>>

\* releaseConn: the queued reads and then the queued writes fail one by one.
Release(c, back) ==
  loop' = [loop EXCEPT !.pc = "release", !.conn = c, !.back = back,
                       !.left = queue[<<c, "read">>] \o queue[<<c, "write">>]]

\* With a mistake: the first request on the list is failed but stays on it.
ReleaseNextKept ==
  /\ loop.pc = "release" /\ loop.left # <<>>
  /\ Fail(Head(loop.left), "closed")
  /\ Deliver(Head(loop.left), "release")
  /\ UNCHANGED <<sock, pollVars, submitVars, processing, registered, queue,
                 timeVars, chResults, waitVars, closer>>

ReleaseNext ==
  /\ loop.pc = "release" /\ loop.left # <<>>
  /\ Fail(Head(loop.left), "closed")
  /\ timeouts' = timeouts \ {Head(loop.left)}
  /\ loop' = [loop EXCEPT !.pc = "send", !.cur = Head(loop.left), !.ret = "release",
                          !.left = Tail(loop.left)]
  /\ UNCHANGED <<sock, pollVars, submitVars, processing, registered, queue,
                 timeVars, chResults, waitVars, closer>>

\* With a mistake: the duplicate stays open.
ReleaseEndOpen ==
  /\ loop.pc = "release" /\ loop.left = <<>>
  /\ registered' = registered \ {loop.conn}
  /\ queue' = [x \in Conn \X Op |-> IF x[1] = loop.conn THEN <<>> ELSE queue[x]]
  /\ loop' = [loop EXCEPT !.pc = loop.back, !.conn = NoConn, !.back = "pending"]
  /\ UNCHANGED <<sock, pollVars, cb, submitVars, processing, timeouts, timeVars,
                 chResults, waitVars, closer>>

\* The connection leaves the maps, its record is reset and the duplicate is
\* closed, which takes it out of epoll.
ReleaseEnd ==
  /\ loop.pc = "release" /\ loop.left = <<>>
  /\ registered' = registered \ {loop.conn}
  /\ queue' = [x \in Conn \X Op |-> IF x[1] = loop.conn THEN <<>> ELSE queue[x]]
  /\ sock' = [sock EXCEPT ![loop.conn].fd = "closed", ![loop.conn].ready = FALSE]
  /\ loop' = [loop EXCEPT !.pc = loop.back, !.conn = NoConn, !.back = "pending"]
  /\ UNCHANGED <<pollVars, cb, submitVars, processing, timeouts, timeVars,
                 chResults, waitVars, closer>>

-----------------------------------------------------------------------------
(* handlePending.                                                          *)

LoopNotified ==
  /\ loop.pc = "select" /\ notify
  /\ notify' = FALSE
  /\ Goto("swap")
  /\ UNCHANGED <<sock, pollVars, cb, create, posting, processing, registered,
                 queue, timeouts, timeVars, chResults, waitVars, closer>>

\* With a mistake: one token, one request.
LoopSwapOne ==
  /\ loop.pc = "swap"
  /\ processing' = SubSeq(create, 1, 1)
  /\ create' = SubSeq(create, 2, Len(create))
  /\ Goto("pending")
  /\ UNCHANGED <<sock, pollVars, cb, notify, posting, registered, queue,
                 timeouts, timeVars, chResults, waitVars, closer>>

\* The two slices change places under pendingMutex.
LoopSwap ==
  /\ loop.pc = "swap"
  /\ processing' = create
  /\ create' = <<>>
  /\ Goto("pending")
  /\ UNCHANGED <<sock, pollVars, cb, notify, posting, registered, queue,
                 timeouts, timeVars, chResults, waitVars, closer>>

Handling(r) == processing # <<>> /\ r = Head(processing)

PendingRest == UNCHANGED <<pollVars, submitVars, chResults, waitVars, closer>>

PendingEnd ==
  /\ loop.pc = "pending" /\ processing = <<>>
  /\ Goto("select")
  /\ UNCHANGED <<sock, cb, processing, registered, queue, timeouts, timeVars>>
  /\ PendingRest

\* A Free request for a registered connection releases it.
PendingFree(r) ==
  /\ loop.pc = "pending" /\ Handling(r)
  /\ cb[r].op = "delete" /\ cb[r].conn \in registered
  /\ processing' = Tail(processing)
  /\ Release(cb[r].conn, "pending")
  /\ UNCHANGED <<sock, cb, registered, queue, timeouts, timeVars>> /\ PendingRest

\* The first request for a connection duplicates its descriptor.
PendingDup(r) ==
  /\ loop.pc = "pending" /\ Handling(r)
  /\ cb[r].conn \notin registered
  /\ sock[cb[r].conn].fd = "conn"
  /\ sock' = [sock EXCEPT ![cb[r].conn].fd = "both"]
  /\ Goto("watch")
  /\ UNCHANGED <<cb, processing, registered, queue, timeouts, timeVars>>
  /\ PendingRest

\* dupconn fails for a connection that is closed, or for lack of descriptors.
PendingDupFails(r) ==
  /\ loop.pc = "pending" /\ Handling(r)
  /\ cb[r].conn \notin registered
  /\ sock[cb[r].conn].fd = "closed" \/ "dup" \in Env
  /\ processing' = Tail(processing)
  /\ Fail(r, "dup") /\ Deliver(r, "pending")
  /\ UNCHANGED <<sock, registered, queue, timeVars>> /\ PendingRest

\* The duplicate is watched, the original closed and the connection registered.
PendingWatch(r) ==
  /\ loop.pc = "watch" /\ Handling(r)
  /\ CanWatch
  /\ sock' = [sock EXCEPT ![cb[r].conn] = Watched(@)]
  /\ registered' = registered \cup {cb[r].conn}
  /\ Goto("start")
  /\ UNCHANGED <<cb, processing, queue, timeouts, timeVars>> /\ PendingRest

\* With a mistake: the duplicate stays open.
PendingWatchFailsOpen(r) ==
  /\ loop.pc = "watch" /\ Handling(r)
  /\ ~ CanWatch \/ "watch" \in Env
  /\ processing' = Tail(processing)
  /\ Fail(r, "watch") /\ Deliver(r, "pending")
  /\ UNCHANGED <<sock, registered, queue, timeVars>> /\ PendingRest

\* Watch fails: the duplicate is closed, the original stays open.
PendingWatchFails(r) ==
  /\ loop.pc = "watch" /\ Handling(r)
  /\ ~ CanWatch \/ "watch" \in Env
  /\ sock' = [sock EXCEPT ![cb[r].conn].fd = "conn"]
  /\ processing' = Tail(processing)
  /\ Fail(r, "watch") /\ Deliver(r, "pending")
  /\ UNCHANGED <<registered, queue, timeVars>> /\ PendingRest

\* The connection is registered and the switch on the operation is reached.
Starting(r) ==
  /\ Handling(r)
  /\ \/ loop.pc = "start"
     \/ loop.pc = "pending" /\ cb[r].conn \in registered /\ cb[r].op # "delete"

\* With a mistake: the attempt is made although other requests wait.
StartDoneFirst(r) ==
  /\ Starting(r) /\ cb[r].op \in Op
  /\ Try(r).done
  /\ Attempt(r)
  /\ processing' = Tail(processing)
  /\ Deliver(r, "pending")
  /\ UNCHANGED <<registered, queue, timeVars>> /\ PendingRest

\* No request waits before this one, and it completes at once.
StartDone(r) ==
  /\ Starting(r) /\ cb[r].op \in Op
  /\ queue[<<cb[r].conn, cb[r].op>>] = <<>> /\ Try(r).done
  /\ Attempt(r)
  /\ processing' = Tail(processing)
  /\ Deliver(r, "pending")
  /\ UNCHANGED <<registered, queue, timeVars>> /\ PendingRest

\* With a mistake: the request is queued without an attempt.
StartQueuedUntried(r) ==
  LET q == <<cb[r].conn, cb[r].op>>
  IN  /\ Starting(r) /\ cb[r].op \in Op
      /\ queue' = [queue EXCEPT ![q] = Append(@, r)]
      /\ processing' = Tail(processing)
      /\ Goto("pending")
      /\ UNCHANGED <<cb, sock, registered, timeouts, timeVars>> /\ PendingRest

\* It has to wait: it is queued and its deadline, if any, goes into the heap;
\* the timer is reset if that made it the root.
StartQueued(r) ==
  LET q == <<cb[r].conn, cb[r].op>>
      dl == cb[r].deadline
  IN  /\ Starting(r) /\ cb[r].op \in Op
      /\ IF queue[q] = <<>> THEN ~ Try(r).done /\ Attempt(r)
                            ELSE UNCHANGED <<cb, sock>>
      /\ queue' = [queue EXCEPT ![q] = Append(@, r)]
      /\ timeouts' = IF dl # 0 THEN timeouts \cup {r} ELSE timeouts
      /\ timer' = IF dl # 0 /\ \A t \in timeouts : dl < cb[t].deadline
                  THEN dl ELSE timer
      /\ processing' = Tail(processing)
      /\ Goto("pending")
      /\ UNCHANGED <<registered, tick, now>> /\ PendingRest

\* The switch has no case for Free: its connection stays registered.
StartFree(r) ==
  /\ Starting(r) /\ cb[r].op = "delete"
  /\ processing' = Tail(processing)
  /\ Goto("pending")
  /\ UNCHANGED <<sock, cb, registered, queue, timeouts, timeVars>> /\ PendingRest

PendingStep ==
  \/ LoopNotified \/ LoopSwap \/ PendingEnd
  \/ \E r \in Id : \/ PendingFree(r) \/ PendingDup(r) \/ PendingDupFails(r)
                   \/ PendingWatch(r) \/ PendingWatchFails(r)
                   \/ StartDone(r) \/ StartQueued(r) \/ StartFree(r)
-----------------------------------------------------------------------------
(* handleEvents: the queued requests of each descriptor that is ready are  *)
(* retried in order until one would block.                                 *)

LoopSignal ==
  /\ loop.pc = "select" /\ chSignal
  /\ chSignal' = FALSE
  /\ Goto("events")
  /\ UNCHANGED <<sock, poller, events, done, wake, pdie, cb, submitVars,
                 processing, registered, queue, timeouts, timeVars, chResults,
                 waitVars, closer>>

EventRest == UNCHANGED <<pollVars, submitVars, processing, registered, timeVars,
                         chResults, waitVars, closer>>

AtEvent == loop.pc = "events" /\ loop.i <= Len(events)

\* On to the writers of the descriptor, or to the next event.
NextSide ==
  loop' = IF loop.side = "read"
          THEN [loop EXCEPT !.side = "write"]
          ELSE [loop EXCEPT !.side = "read", !.i = @ + 1]

\* The queue of c for the current side is to be retried, and r is its head.
Retrying(c, r) ==
  /\ AtEvent
  /\ c = events[loop.i].ident /\ c \in registered
  /\ loop.side \in events[loop.i].ev
  /\ queue[<<c, loop.side>>] # <<>> /\ r = Head(queue[<<c, loop.side>>])

\* With a mistake: the completed request stays at the head of its queue.
EventDoneKept(c, r) ==
  /\ Retrying(c, r) /\ Try(r).done
  /\ Attempt(r)
  /\ UNCHANGED queue
  /\ Deliver(r, "events")
  /\ EventRest

\* With a mistake: one request is served per event.
EventDoneOnce(c, r) ==
  /\ Retrying(c, r) /\ Try(r).done
  /\ Attempt(r)
  /\ queue' = [queue EXCEPT ![<<c, loop.side>>] = Tail(@)]
  /\ timeouts' = timeouts \ {r}
  /\ loop' = [loop EXCEPT !.pc = "send", !.cur = r, !.ret = "events", !.i = @ + 1]
  /\ EventRest

EventDone(c, r) ==
  /\ Retrying(c, r) /\ Try(r).done
  /\ Attempt(r)
  /\ queue' = [queue EXCEPT ![<<c, loop.side>>] = Tail(@)]
  /\ Deliver(r, "events")
  /\ EventRest

EventBlocked(c, r) ==
  /\ Retrying(c, r) /\ ~ Try(r).done
  /\ Attempt(r)
  /\ NextSide
  /\ UNCHANGED <<queue, timeouts>> /\ EventRest

\* Not registered any more, not ready on this side, or nothing queued.
EventSkip ==
  /\ AtEvent
  /\ \A c \in Conn, r \in Id : ~ Retrying(c, r)
  /\ NextSide
  /\ UNCHANGED <<sock, cb, queue, timeouts>> /\ EventRest

\* The batch is acknowledged.
EventsEnd ==
  /\ loop.pc = "events" /\ loop.i > Len(events) /\ ~ done
  /\ done' = TRUE
  /\ loop' = [loop EXCEPT !.pc = "select", !.i = 1]
  /\ UNCHANGED <<sock, poller, events, chSignal, wake, pdie, cb, submitVars,
                 processing, registered, queue, timeouts, timeVars, chResults,
                 waitVars, closer>>

EventsDie ==
  /\ loop.pc = "events" /\ loop.i > Len(events) /\ die
  /\ loop' = [loop EXCEPT !.pc = "exit", !.i = 1]
  /\ UNCHANGED <<sock, cb, queue, timeouts>> /\ EventRest

EventStep ==
  \/ LoopSignal \/ EventSkip \/ EventsEnd \/ EventsDie
  \/ \E c \in Conn, r \in Id : EventDone(c, r) \/ EventBlocked(c, r)

-----------------------------------------------------------------------------
(* Deadlines.                                                              *)

TimerRest == UNCHANGED <<sock, pollVars, submitVars, processing, registered,
                         now, chResults, waitVars, closer>>

\* The handler reads the clock once, for all the requests it expires.
LoopTick ==
  /\ loop.pc = "select" /\ tick
  /\ tick' = FALSE
  /\ loop' = [loop EXCEPT !.pc = "timer", !.now = now]
  /\ UNCHANGED <<cb, queue, timeouts, timer>> /\ TimerRest

\* list.Remove: takes the element out of the list if it is in it.
ListRemove(s, r) ==
  LET i == CHOOSE i \in DOMAIN s : s[i] = r
  IN  IF r \in Elems(s) THEN SubSeq(s, 1, i - 1) \o SubSeq(s, i + 1, Len(s)) ELSE s

\* r may be the root of the heap.
Earliest(r) == r \in timeouts /\ \A t \in timeouts : cb[r].deadline <= cb[t].deadline

\* With a mistake: the expired request stays in its queue.
TimerExpireKept(r) ==
  /\ loop.pc = "timer" /\ Earliest(r)
  /\ loop.now > cb[r].deadline
  /\ Fail(r, "deadline")
  /\ Deliver(r, "timer")
  /\ UNCHANGED <<queue, timer, tick>> /\ TimerRest

TimerExpire(r) ==
  LET q == <<cb[r].conn, cb[r].op>>
  IN  /\ loop.pc = "timer" /\ Earliest(r)
      /\ loop.now > cb[r].deadline
      /\ Fail(r, "deadline")
      /\ queue' = [queue EXCEPT ![q] = ListRemove(@, r)]
      /\ Deliver(r, "timer")
      /\ UNCHANGED <<timer, tick>> /\ TimerRest

\* With a mistake: the timer is not reset for the requests that remain.
TimerResetForgotten(r) ==
  /\ loop.pc = "timer" /\ Earliest(r)
  /\ loop.now <= cb[r].deadline
  /\ loop' = [loop EXCEPT !.pc = "select", !.now = 0]
  /\ UNCHANGED <<cb, queue, timeouts, timer, tick>> /\ TimerRest

\* The earliest request has time left: the timer is reset to the difference to
\* the handler's reading of the clock, which may be behind by now.
TimerReset(r) ==
  /\ loop.pc = "timer" /\ Earliest(r)
  /\ loop.now <= cb[r].deadline
  /\ timer' = Smaller(MaxTime, now + (cb[r].deadline - loop.now))
  /\ loop' = [loop EXCEPT !.pc = "select", !.now = 0]
  /\ UNCHANGED <<cb, queue, timeouts, tick>> /\ TimerRest

TimerEnd ==
  /\ loop.pc = "timer" /\ timeouts = {}
  /\ loop' = [loop EXCEPT !.pc = "select", !.now = 0]
  /\ UNCHANGED <<cb, queue, timeouts, timer, tick>> /\ TimerRest

TimerStep == LoopTick \/ TimerEnd \/ \E r \in Id : TimerExpire(r) \/ TimerReset(r)

-----------------------------------------------------------------------------
(* The loop returns: its deferred function releases every connection,      *)
(* empties chResults, drops what was submitted and closes loopDone.        *)

ExitRest == UNCHANGED <<sock, pollVars, cb, notify, posting, registered, queue,
                        timeouts, timeVars, waitVars, closer>>

LoopDie ==
  /\ loop.pc = "select" /\ die
  /\ Goto("exit")
  /\ UNCHANGED <<create, processing, chResults>> /\ ExitRest

ExitRelease(c) ==
  /\ loop.pc = "exit" /\ c \in registered
  /\ Release(c, "exit")
  /\ UNCHANGED <<create, processing, chResults>> /\ ExitRest

\* The record of a drained request, which nobody else holds, is cleared.
ExitDrain ==
  /\ loop.pc = "exit" /\ registered = {} /\ chResults # <<>>
  /\ chResults' = Tail(chResults)
  /\ UNCHANGED <<create, processing, loop>> /\ ExitRest

ExitDone ==
  /\ loop.pc = "exit" /\ registered = {} /\ chResults = <<>>
  /\ create' = <<>> /\ processing' = <<>>
  /\ Goto("done")
  /\ UNCHANGED chResults /\ ExitRest

ExitStep == LoopDie \/ ExitDrain \/ ExitDone \/ \E c \in Conn : ExitRelease(c)

-----------------------------------------------------------------------------
(* Time, and the whole system.                                             *)

ClockRest == UNCHANGED <<sock, pollVars, cb, submitVars, processing, registered,
                         queue, timeouts, chResults, waitVars, closer, loop>>

\* Time that passes while the heap is empty may as well pass as soon as a
\* request is in it: queueing one does not read the clock.
ClockTick ==
  /\ now < MaxTime /\ timeouts # {}
  /\ now' = now + 1
  /\ UNCHANGED <<timer, tick>> /\ ClockRest

\* The runtime sends the tick; it is lost if one is still there.
TimerFires ==
  /\ timer # 0 /\ timer <= now
  /\ timer' = 0 /\ tick' = TRUE
  /\ UNCHANGED now /\ ClockRest

LoopStep ==
  \/ Send \/ SendDie \/ ReleaseNext \/ ReleaseEnd
  \/ PendingStep \/ EventStep \/ TimerStep \/ ExitStep

NotifyStep == \E r \in Id : Notify(r)
WaitStep == WaitCall \/ WaitReceive \/ WaitCheck \/ WaitClosed
CloseStep == ClosePoller \/ CloseWake \/ CloseDone

Others == UNCHANGED <<cb, submitVars, processing, registered, queue, timeouts,
                      timeVars, chResults, waitVars, closer, loop>>

Next ==
  \/ \E c \in Conn, s \in Shapes : Submit(c, s)
  \/ NotifyStep \/ WaitStep \/ CloseDie \/ CloseStep
  \/ LoopStep
  \/ PollerStep /\ Others
  \/ PeerStep /\ UNCHANGED pollVars /\ Others
  \/ ClockTick \/ TimerFires

Spec == Init /\ [][Next]_vars
(* Every goroutine runs while it can, the consumer goes on calling WaitIO,   *)
(* and time passes; no fairness between the cases of a select is needed.    *)
Fairness ==
  /\ WF_vars(LoopStep) /\ WF_vars(PollerStep /\ Others) /\ WF_vars(NotifyStep)
  /\ WF_vars(WaitStep) /\ WF_vars(CloseStep)
  /\ WF_vars(ClockTick) /\ WF_vars(TimerFires)

FairSpec == Spec /\ Fairness

-----------------------------------------------------------------------------
(* Where requests are.                                                     *)

Occurrences(r, s) == Cardinality({i \in DOMAIN s : s[i] = r})

\* What is still to be served of the queues of c; releaseConn empties them only
\* after it has failed every request on its list.
Remaining(c) ==
  IF c = loop.conn THEN loop.left ELSE queue[<<c, "read">>] \o queue[<<c, "write">>]

Queued == UNION {Elems(Remaining(c)) : c \in Conn}

\* Accepted and not yet completed.
Outstanding == Elems(create) \cup Elems(processing) \cup Queued

Delivered == Elems(chResults) \cup returned

InHand(r) == loop.pc = "send" /\ loop.cur = r

\* How often r is in the lists, queues and channels it travels through.
Places(r) ==
  Occurrences(r, create) + Occurrences(r, processing) + Occurrences(r, chResults)
  + Occurrences(r, Remaining(cb[r].conn))
  + (IF InHand(r) THEN 1 ELSE 0) + (IF r \in returned THEN 1 ELSE 0)

-----------------------------------------------------------------------------
(* Safety.                                                                 *)

\* aioCreate, handlePending, handleEvents, the timer case, releaseConn, deliver
\* and WaitIO hand a request on to each other: while the watcher is open every
\* accepted read and write is in exactly one place, so it is neither lost nor
\* completed twice; shutdown may drop it but not duplicate it.
ExactlyOnce ==
  \A r \in DOMAIN cb :
    /\ Places(r) <= 1
    /\ cb[r].op \in Op /\ ~ die => Places(r) = 1

\* No descriptor is leaked, and none is used after it was closed: whatever step of
\* the registration fails, a duplicate is open exactly while its connection is
\* registered, and besides the original only between dupconn and the outcome of
\* Watch; requests wait on registered connections only.
DescriptorsOwned ==
  \A c \in Conn :
    /\ sock[c].fd = "dup" <=> c \in registered
    /\ sock[c].fd = "both" => loop.pc = "watch" /\ cb[Head(processing)].conn = c
    /\ \A o \in Op : queue[<<c, o>>] # <<>> => c \in registered

\* The timeout heap holds the queued requests that have a deadline and no
\* other: a request completed by an event, by Free or by its deadline has left
\* the heap before deliver sends it.
DeadlinesTracked ==
  timeouts = {r \in Queued : cb[r].deadline # 0}

\* Whenever the loop is back in its select and deadlines are pending, the timer
\* is running or its tick has not been received: no deadline is forgotten.
TimerArmed ==
  loop.pc = "select" /\ timeouts # {} => tick \/ timer # 0

\* A request in pendingCreate has a wakeup on its way: a token, a submitter
\* about to leave one, or a loop that has taken the token but not the slice.
NoLostSubmission ==
  create # <<>> => notify \/ loop.pc = "swap" \/ Elems(create) \cap posting # {}

\* Nothing is on its way to the loop any more.
Quiescent ==
  /\ loop.pc = "select" /\ ~ notify /\ posting = {} /\ ~ chSignal /\ ~ tick
  /\ poller = "wait" /\ ~ wake /\ Ready = {}

\* Read r was to fill its buffer and has some bytes, but was not told of the end of
\* its stream, and no read after it has got anything.
Partial(r) ==
  /\ cb[r].op = "read" /\ cb[r].full /\ 0 < cb[r].size /\ cb[r].size < cb[r].len
  /\ \A q \in Req :
       q >= r /\ cb[q].conn = cb[r].conn /\ cb[q].op = "read" =>
         cb[q].err \notin {"EOF", "reset"} /\ (q # r => cb[q].size = 0)

\* The stream of c has ended and a full read took the last bytes of it.
CutShort(c, o) ==
  /\ o = "read" /\ sock[c].peer # "open" /\ sock[c].rcv = 0
  /\ \E r \in Req : cb[r].conn = c /\ Partial(r)

\* Edge-triggered readiness is reported once: when the loop and the poller have
\* come to rest, no queued request waits for a socket that is ready for it.  The
\* one exception is a full read cut short by the end of the stream: tryRead does
\* not go on to the read that would tell (ReadFullCompletes in WatcherClaims), so
\* neither it nor, when its deadline has passed, the reads behind it are served.
NoLostReadiness ==
  Quiescent =>
    \A c \in Conn, o \in Op :
      queue[<<c, o>>] # <<>> => o \notin Mask(sock[c]) \/ CutShort(c, o)

\* What WaitIO reports: a retryable error never, and success only for a write
\* or a full read that moved all its bytes, or a read that moved some.
ResultsSound ==
  \A r \in Delivered :
    /\ cb[r].err # "EAGAIN"
    /\ cb[r].err = "nil" =>
         cb[r].size > 0 /\ (cb[r].full \/ cb[r].op = "write" => cb[r].size = cb[r].len)

\* What the reads of c have got, over all requests in the order of submission.
Taken(c) ==
  LET upTo[n \in 0 .. Len(cb)] ==
        IF n = 0 THEN 0
        ELSE upTo[n - 1] + (IF cb[n].conn = c /\ cb[n].op = "read" THEN cb[n].size ELSE 0)
  IN  upTo[Len(cb)]

\* The bytes of the stream are each given to one read: those reported by the
\* reads of a connection, partial ones included, and those still in the socket
\* add up to what the peer sent.
StreamConserved == \A c \in Conn : sock[c].sent = sock[c].rcv + Taken(c)

\* The deferred cleanup of the loop: once loopDone is closed nothing is
\* registered, no duplicate descriptor is open, and no request is left.
CleanWhenDone ==
  loop.pc = "done" =>
    /\ registered = {} /\ \A c \in Conn : sock[c].fd \in {"conn", "closed"}
    /\ Outstanding = {} /\ timeouts = {} /\ chResults = <<>>

-----------------------------------------------------------------------------
(* What a step may never do.                                               *)

\* Requests on one connection are served in the order they were submitted:
\* bytes, or the end of the stream, go to a request only if no earlier request
\* for the same operation is still waiting.
OrderedService ==
  [][\A r \in DOMAIN cb :
       cb'[r].size # cb[r].size \/ cb'[r].err \in {"EOF", "reset"} \ {cb[r].err} =>
         \A q \in Outstanding :
           q < r => cb[q].conn # cb[r].conn \/ cb[q].op # cb[r].op]_vars

\* deliver gives the request away: the loop does not write to a record that
\* WaitIO may be reading or recycling.
DeliveredUntouched ==
  [][\A r \in Delivered : cb'[r] = cb[r]]_vars

\* The poller does not reuse its event slice while the loop iterates over it.
EventSetStable ==
  [][loop.pc = "events" \/ (loop.pc = "send" /\ loop.ret = "events")
       => events' = events]_vars

-----------------------------------------------------------------------------
(* Liveness, under Fairness.                                               *)

\* Requests with deadlines are completed and returned, whatever the peer does,
\* unless the watcher is closed.  The requests are bounded, so that there comes
\* a time when all of them have been returned.
Overdue == \E r \in DOMAIN cb : cb[r].op \in Op /\ cb[r].deadline # 0 /\ r \notin returned
DeadlineServed == Overdue ~> (~ Overdue \/ die)

\* Close returns, and the poller goroutine ends and closes its descriptors.
CloseEnds == die ~> (closer = "closed" /\ poller = "exit")
=============================================================================
