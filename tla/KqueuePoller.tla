----------------------------- MODULE KqueuePoller ----------------------------
(***************************************************************************)
(* The poller of macOS and the BSDs.  Watch only queues a handle; the      *)
(* poller registers it with the kevent call in which it next waits.        *)
(***************************************************************************)
EXTENDS PollerClient

VARIABLES
  watchQueue,  \* handles to register
  changes,     \* the change list of the next kevent call
  bad,         \* handles of the change list that kevent found closed
  note,        \* the filters registered for each handle
  active       \* the filters that have been triggered (EV_CLEAR)

kqVars == <<watchQueue, changes, bad, note, active>>

KqInit ==
  /\ watchQueue = {} /\ changes = {} /\ bad = {}
  /\ note = [x \in Handle |-> {}] /\ active = [x \in Handle |-> {}]

\* Watch: the handle is queued ...
KqWatch ==
  /\ loop.pc = "watch"
  /\ watchQueue' = watchQueue \cup {handle[loop.conn]}
  /\ loop' = [loop EXCEPT !.pc = "wakeup"]
  /\ UNCHANGED <<connVars, poller, sigVars, affVars, stopVars, changes, bad, note, active>>

\* ... and the poller woken.  If it is gone the duplicate is closed again and
\* the request fails.
KqWatchWakes ==
  /\ loop.pc = "wakeup"
  /\ IF CanWake
       THEN /\ loop' = [loop EXCEPT !.pc = "try"]
            /\ state' = [state EXCEPT ![loop.conn] = "open"]
            /\ UNCHANGED handle
       ELSE /\ loop' = AtSelect
            /\ handle' = [handle EXCEPT ![loop.conn] = None]
            /\ UNCHANGED state
  /\ Wakeup
  /\ UNCHANGED <<run, used, can, eof, queue, early, budget, poller, events, chSignal, done,
                 affVars, stopVars, kqVars>>

\* Top of Wait: the queued handles move to the change list.
KqTop ==
  /\ poller = "top" /\ ~ pdie
  /\ changes' = changes \cup watchQueue /\ watchQueue' = {}
  /\ Goto("affinity")
  /\ UNCHANGED <<connVars, loop, sigVars, affVars, stopVars, bad, note, active>>

KqLoadCPU == poller = "affinity" /\ LoadCPU("kevent") /\ UNCHANGED kqVars
KqClearCPU == ClearCPU("kevent") /\ UNCHANGED kqVars

\* kevent first applies the changes: a filter whose condition holds is triggered
\* at once, a handle closed in the meantime yields an error event.
KqApply ==
  /\ poller = "kevent"
  /\ bad' = changes \ Open
  /\ note' = [x \in Handle |-> IF x \in changes \cap Open THEN Op ELSE note[x]]
  /\ active' = [x \in Handle |->
                  IF x \in changes \cap Open THEN active[x] \cup can[Owner(x)] ELSE active[x]]
  /\ Goto("wait")
  /\ UNCHANGED <<connVars, loop, sigVars, affVars, stopVars, watchQueue, changes>>

\* With a mistake: EV_EOF on the read filter does not wake the writers.
KqEventNoEOF(x, o) == [ident |-> x, ev |-> {o}]

\* One event per filter; EV_EOF on the read filter also wakes the writers.
KqEvent(x, o) ==
  [ident |-> x, ev |-> IF o = "read" /\ eof[Owner(x)] THEN Op ELSE {o}]

Triggered(x) == IF x \in Open THEN active[x] \cap can[Owner(x)] ELSE {}

\* ... and then returns the triggered filters whose condition still holds.
KqReturn ==
  /\ poller = "wait"
  /\ wake \/ bad # {} \/ \E x \in Handle : Triggered(x) # {}
  /\ events' = events \cup {[ident |-> x, ev |-> Op] : x \in bad}
                      \cup UNION {{KqEvent(x, o) : o \in Triggered(x)} : x \in Handle}
  /\ active' = [x \in Handle |-> {}]
  /\ changes' = {} /\ bad' = {} /\ wake' = FALSE
  /\ Goto("send")
  /\ UNCHANGED <<connVars, loop, chSignal, done, affVars, stopVars, watchQueue, note>>

\* EINTR: the change list is kept and submitted again.
KqInterrupted ==
  /\ poller = "wait" /\ "eintr" \in run.env
  /\ bad' = {} /\ Goto("top")
  /\ UNCHANGED <<connVars, loop, sigVars, affVars, stopVars, watchQueue, changes, note, active>>

KqSend == poller = "send" /\ PollerSend("events") /\ Goto("ack") /\ UNCHANGED kqVars

\* With a mistake: the poller goes on without the acknowledgement.
KqAckNot ==
  /\ poller = "ack"
  /\ done' = FALSE /\ events' = {} /\ Goto("top")
  /\ UNCHANGED <<connVars, loop, chSignal, wake, affVars, stopVars, kqVars>>

KqAck == PollerAck /\ UNCHANGED kqVars

\* Wait returns when die is closed, and, without telling anyone, when kevent
\* fails; the kqueue is closed, and its filters are gone.
KqExit ==
  /\ \/ poller \in {"top", "send", "ack"} /\ pdie
     \/ poller = "wait" /\ "error" \in run.env
  /\ Goto("exit")
  /\ note' = [x \in Handle |-> {}] /\ active' = [x \in Handle |-> {}]
  /\ UNCHANGED <<connVars, loop, sigVars, affVars, stopVars, watchQueue, changes, bad>>

\* The kernel's side of steps of the peers and of closing handles.
KqTriggers(c, F) ==
  active' = [x \in Handle |-> IF x = handle[c] THEN active[x] \cup (F \cap note[x]) ELSE active[x]]

KqCloses(X) ==
  /\ note' = [x \in Handle |-> IF x \in X THEN {} ELSE note[x]]
  /\ active' = [x \in Handle |-> IF x \in X THEN {} ELSE active[x]]

KqLoopExit == LoopExit /\ KqCloses(Handle) /\ UNCHANGED <<watchQueue, changes, bad>>

KqPoller ==
  KqTop \/ KqLoadCPU \/ KqClearCPU \/ KqApply \/ KqReturn \/ KqInterrupted \/ KqSend \/ KqAck \/ KqExit

\* Not every system triggers the write filter when the peer closes.
KqNext ==
  \/ ClientStep /\ UNCHANGED kqVars
  \/ KqWatch \/ KqWatchWakes \/ KqLoopExit \/ KqPoller
  \/ \E c \in Conn :
       \/ \E o \in Op : PeerEnables(c, o) /\ KqTriggers(c, {o}) /\ UNCHANGED <<watchQueue, changes, bad, note>>
       \/ PeerCloses(c) /\ KqTriggers(c, {"read"}) /\ UNCHANGED <<watchQueue, changes, bad, note>>
       \/ LoopRelease(c) /\ KqCloses({handle[c]}) /\ UNCHANGED <<watchQueue, changes, bad>>

=============================================================================
