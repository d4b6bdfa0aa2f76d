------------------------------- MODULE Pollers -------------------------------
(***************************************************************************)
(* The watcher loop on the platforms other than Linux: the kqueue and the  *)
(* WSAPoll poller with their common client, and what the watcher relies on *)
(* from either.                                                            *)
(***************************************************************************)
EXTENDS KqueuePoller, WSAPoller, WSAOpen

vars == <<connVars, loop, poller, sigVars, affVars, stopVars, kqVars, wsVars, openVars>>

Start == Init /\ KqInit /\ WsInit /\ OpenInit

Next ==
  \/ run.platform = "kqueue" /\ KqNext /\ UNCHANGED <<wsVars, openVars>>
  \/ run.platform = "wsapoll" /\ WsNext /\ UNCHANGED <<kqVars, openVars>>
  \/ run.platform = "wsapoll" /\ (OpenStep \/ AcceptFails) /\ UNCHANGED <<kqVars, wsVars>>

Spec == Start /\ [][Next]_vars

\* The goroutines run: the poller, the loop, the caller of stop, WaitIO and,
\* before them, those of openPoll.  Neither the peers nor the users have to do
\* anything.
PollerStep ==
  \/ run.platform = "kqueue" /\ KqPoller /\ UNCHANGED <<wsVars, openVars>>
  \/ run.platform = "wsapoll" /\ WsPoller /\ UNCHANGED <<kqVars, openVars>>

LoopStep ==
  \/ (LoopTry \/ LoopSignal \/ LoopEvent \/ LoopEventsEnd \/ LoopError \/ LoopStop \/ LoopDie)
     /\ UNCHANGED <<kqVars, wsVars, openVars>>
  \/ run.platform = "kqueue" /\ UNCHANGED <<wsVars, openVars>>
     /\ (KqWatch \/ KqWatchWakes \/ KqLoopExit)
  \/ run.platform = "wsapoll" /\ UNCHANGED <<kqVars, openVars>> /\ (WsWatch \/ WsLoopExit)

\* Calls with finitely many steps: stop, the WaitIO under way and openPoll, in
\* which a blocked Accept has no need to fail.
CallStep ==
  \/ (StopStep \/ WaitEnds) /\ UNCHANGED <<kqVars, wsVars, openVars>>
  \/ OpenStep /\ UNCHANGED <<kqVars, wsVars>>

Fairness == WF_vars(PollerStep) /\ WF_vars(LoopStep) /\ WF_vars(CallStep)

FairSpec == Spec /\ Fairness
-----------------------------------------------------------------------------
\* A connection that Watch has accepted stays watched until it is released:
\* its handle is queued, on a change list or registered with the kqueue, or an
\* entry of the poll set.
StaysWatched ==
  poller # "exit" =>
    \A c \in Conn : state[c] = "open" =>
      IF run.platform = "kqueue"
        THEN handle[c] \in watchQueue \cup changes \/ note[handle[c]] = Op
        ELSE handle[c] \in DOMAIN fdMap

\* The poller blocks with nothing to report, and the loop has nothing to do.
Resting ==
  /\ loop.pc = "select" /\ chSignal = "empty" /\ ~ wake
  /\ \/ run.platform = "kqueue" /\ poller = "wait" /\ bad = {} /\ \A x \in Handle : Triggered(x) = {}
     \/ run.platform = "wsapoll" /\ poller = "poll" /\ \A x \in DOMAIN revents : Reported(x) = {}

\* No request is left waiting for an event that will not come: when everything
\* rests, a queued request would still block.  This holds although a kqueue
\* handle is registered only after its first request was queued, for change
\* lists submitted twice after EINTR, for requests that move only a part of their
\* bytes, and for a peer that closes without a write event.  With kqueue, which
\* reports a change once, there are two exceptions: a write that met ENOBUFS, and
\* a full read that took the last bytes of the stream and was not told of its end.
NoLostReadiness ==
  Resting => \A c \in Conn, o \in Op :
               queue[c][o] > 0 /\ o \in can[c] => run.platform = "kqueue" /\ o \in early[c]

\* The poller changes no batch over which the loop iterates.
BatchStable == [][loop.pc = "events" /\ loop'.pc = "events" => events' = events]_vars

\* fdMap gives the place of each handle in the poll set, whatever was moved by
\* unwatch, so that unwatch never removes or overwrites another handle's entry.
PollSetIndexed ==
  /\ \A x \in DOMAIN fdMap : fdMap[x] \in DOMAIN pollFds /\ pollFds[fdMap[x]] = x
  /\ \A i \in DOMAIN pollFds : pollFds[i] \in DOMAIN fdMap

\* An affinity request never lies unnoticed in the mailbox while the kqueue
\* poller blocks: SetPollerAffinity stores it before the wakeup, the poller
\* looks at it after every return of kevent.
AffinityNoticed ==
  run.platform = "kqueue" /\ poller = "wait" /\ ~ wake /\ setter.pc = "idle" => cpuid = None

\* When the poller fails and nobody calls Close, WaitIO returns the poller's
\* error, whole, and not ErrWatcherClosed: pollerErr is written before die is
\* closed.
ErrorReported == waiter \in {"ErrWatcherClosed", "torn"} => stopper = "user"

\* Once the watcher is closed or WSAPoll has failed, poller and loop end and
\* the WaitIO under way returns.
AllEnd == (die \/ poller = "fail") ~> (poller = "exit" /\ loop.pc = "done" /\ waiter # "wait")

\* createSocketPair ends with exactly its two sockets open, or with none (the
\* last one may have to wait for the collector), whatever step fails.  The one
\* exception is a Dial that fails before it is connected: Accept then waits for
\* good, as errCh is read only after it.
OpenSettles ==
  setup = "listen" ~>
    \/ setup = "opened" /\ sockets = {"reader", "writer"}
    \/ setup = "failed" /\ sockets = {}
    \/ setup = "accept" /\ dialer = "errCh" /\ "backlog" \notin sockets
=============================================================================
