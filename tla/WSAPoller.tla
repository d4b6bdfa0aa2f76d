------------------------------ MODULE WSAPoller ------------------------------
(***************************************************************************)
(* The poller of Windows: WSAPoll on a snapshot of the poll set, level     *)
(* triggered and with a timeout.  A closed handle stays in the poll set    *)
(* until a poll reports it invalid.                                        *)
(***************************************************************************)
EXTENDS PollerClient

VARIABLES
  pollFds,  \* the poll set; the wakeup socket at index 0 is left out
  fdMap,    \* the index of each handle in it
  revents   \* what the last poll reported for each handle of its snapshot

wsVars == <<pollFds, fdMap, revents>>

WsInit == pollFds = <<>> /\ fdMap = <<>> /\ revents = <<>>

Without(f, x) == [y \in DOMAIN f \ {x} |-> f[y]]
Extended(f, x, v) == [y \in DOMAIN f \cup {x} |-> IF y = x THEN v ELSE f[y]]

\* Watch: a handle that is in the poll set already is left alone.  An error of
\* wakeup is ignored.
WsWatch ==
  /\ loop.pc = "watch"
  /\ LET x == handle[loop.conn] IN
       IF x \in DOMAIN fdMap THEN UNCHANGED <<pollFds, fdMap, wake>>
       ELSE /\ pollFds' = Append(pollFds, x)
            /\ fdMap' = Extended(fdMap, x, Len(pollFds) + 1)
            /\ Wakeup
  /\ loop' = [loop EXCEPT !.pc = "try"]
  /\ state' = [state EXCEPT ![loop.conn] = "open"]
  /\ UNCHANGED <<run, handle, used, can, eof, queue, early, budget, poller, events, chSignal, done,
                 affVars, stopVars, revents>>

\* With a mistake: the index of the entry that is moved is not updated.
UnwatchStale(x) ==
  IF x \notin DOMAIN fdMap THEN UNCHANGED <<pollFds, fdMap>>
  ELSE /\ pollFds' = SubSeq([pollFds EXCEPT ![fdMap[x]] = pollFds[Len(pollFds)]], 1, Len(pollFds) - 1)
       /\ fdMap' = Without(fdMap, x)

\* With a mistake: the last entry is removed, whichever was asked for.
UnwatchLast(x) ==
  IF x \notin DOMAIN fdMap THEN UNCHANGED <<pollFds, fdMap>>
  ELSE /\ pollFds' = SubSeq(pollFds, 1, Len(pollFds) - 1)
       /\ fdMap' = Without(fdMap, pollFds[Len(pollFds)])

\* unwatch: the last entry takes the place of the removed one.
Unwatch(x) ==
  IF x \notin DOMAIN fdMap THEN UNCHANGED <<pollFds, fdMap>>
  ELSE LET last == pollFds[Len(pollFds)] IN
       /\ pollFds' = SubSeq([pollFds EXCEPT ![fdMap[x]] = last], 1, Len(pollFds) - 1)
       /\ fdMap' = Without(Extended(fdMap, last, fdMap[x]), x)

\* Top of Wait: the snapshot is taken.
WsTop ==
  /\ poller = "top" /\ ~ pdie
  /\ revents' = [x \in DOMAIN fdMap |-> {}]
  /\ Goto("poll")
  /\ UNCHANGED <<connVars, loop, sigVars, affVars, stopVars, pollFds, fdMap>>

\* What WSAPoll reports for a handle of the snapshot: POLLHUP counts as
\* readable, POLLERR as both, and a closed handle is invalid.
Reported(x) == IF x \in Open THEN can[Owner(x)] ELSE {"invalid"}

\* WSAPoll returns with events, the wakeup byte among them, or runs into its
\* timeout or EINTR.
WsPoll ==
  /\ poller = "poll"
  /\ LET found == [x \in DOMAIN revents |-> Reported(x)]
         some == \E x \in DOMAIN found : found[x] # {}
     IN \/ /\ wake \/ some
           /\ revents' = Extended(found, None, IF wake THEN {"read"} ELSE {})
           /\ Goto("affinity")
        \/ /\ ~ (wake \/ some) \/ "eintr" \in run.env
           /\ revents' = <<>> /\ Goto("top")
  /\ UNCHANGED <<connVars, loop, sigVars, affVars, stopVars, pollFds, fdMap>>

WsLoadCPU == poller = "affinity" /\ LoadCPU("drain") /\ UNCHANGED wsVars
WsClearCPU == ClearCPU("drain") /\ UNCHANGED wsVars

\* The wakeup socket, first in the snapshot, is drained if it was reported.
WsDrain ==
  /\ poller = "drain"
  /\ wake' = (wake /\ revents[None] = {})
  /\ revents' = Without(revents, None)
  /\ Goto("build")
  /\ UNCHANGED <<connVars, loop, events, chSignal, done, affVars, stopVars, pollFds, fdMap>>

Invalid == {x \in DOMAIN revents : revents[x] = {"invalid"}}

\* Each invalid handle is removed from the poll set, under the lock.
WsUnwatch ==
  /\ poller = "build"
  /\ \E x \in Invalid : Unwatch(x) /\ revents' = Without(revents, x)
  /\ UNCHANGED <<connVars, loop, poller, sigVars, affVars, stopVars>>

\* The other handles make up the batch; an empty one is not sent.
WsBuild ==
  /\ poller = "build" /\ Invalid = {}
  /\ events' = {[ident |-> x, ev |-> revents[x]] : x \in {y \in DOMAIN revents : revents[y] # {}}}
  /\ revents' = <<>>
  /\ Goto(IF events' = {} THEN "top" ELSE "send")
  /\ UNCHANGED <<connVars, loop, chSignal, done, wake, affVars, stopVars, pollFds, fdMap>>

WsSend == poller = "send" /\ PollerSend("events") /\ Goto("ack") /\ UNCHANGED wsVars
WsAck == PollerAck /\ UNCHANGED wsVars

\* WSAPoll fails: the error is sent to the loop and Wait returns.
WsFails ==
  /\ poller = "poll" /\ "error" \in run.env
  /\ revents' = <<>> /\ Goto("fail")
  /\ UNCHANGED <<connVars, loop, sigVars, affVars, stopVars, pollFds, fdMap>>

\* With a mistake: the error is dropped if the loop still has a batch to take.
WsSendErrorOrNot ==
  /\ poller = "fail" /\ Goto("exit")
  /\ chSignal' = IF chSignal = "empty" /\ loop.pc = "select" THEN "error" ELSE chSignal
  /\ UNCHANGED <<connVars, loop, events, done, wake, affVars, stopVars, wsVars>>

WsSendError == poller = "fail" /\ PollerSend("error") /\ Goto("exit") /\ UNCHANGED wsVars

\* The wakeup sockets are closed whenever Wait returns.
WsExit ==
  /\ poller \in {"top", "send", "ack", "fail"} /\ pdie
  /\ Goto("exit") /\ revents' = <<>>
  /\ UNCHANGED <<connVars, loop, sigVars, affVars, stopVars, pollFds, fdMap>>

WsPoller ==
  \/ WsTop \/ WsPoll \/ WsLoadCPU \/ WsClearCPU \/ WsDrain \/ WsUnwatch \/ WsBuild
  \/ WsSend \/ WsAck \/ WsFails \/ WsSendError \/ WsExit

WsLoopExit == LoopExit /\ UNCHANGED wsVars

WsNext ==
  \/ ClientStep /\ UNCHANGED wsVars
  \/ WsWatch \/ WsLoopExit \/ WsPoller
  \/ \E c \in Conn :
       \/ \E o \in Op : PeerEnables(c, o) /\ UNCHANGED wsVars
       \/ PeerCloses(c) /\ UNCHANGED wsVars
       \/ LoopRelease(c) /\ UNCHANGED wsVars
=============================================================================
