---------------------------- MODULE PollerClient -----------------------------
(***************************************************************************)
(* What the pollers of all platforms share: the watcher loop as their      *)
(* client, the batch handshake, shutdown, the mailbox for CPU affinity and *)
(* the sockets.  Requests are counted, not told apart (module Watcher      *)
(* follows them one by one on Linux); handles are, since a closed handle   *)
(* may be given out again.                                                 *)
(***************************************************************************)
EXTENDS Integers, FiniteSets, Sequences

CONSTANTS
  Conn, Handle, None,
  Scenarios  \* the combinations of platform, faults and bounds to look at

Fault == {"peer", "free", "close", "error", "eintr", "eof", "nobufs", "dup", "reuse", "open"}

\* A scenario says which connections are used and what may happen to them, and
\* bounds the requests (reqs) and the calls of SetPollerAffinity (cpus).
ASSUME ScenariosAssumption ==
  /\ Handle \subseteq Nat /\ None \notin Handle /\ None \notin {"user", "loop"}
  /\ Scenarios \subseteq [platform : {"kqueue", "wsapoll"}, conns : SUBSET Conn,
                          env : SUBSET Fault, reqs : Nat, cpus : Nat]

VARIABLES
  run,       \* the scenario of this process
  state,     \* a connection is new, open (registered) or gone
  handle,    \* its duplicated handle
  used,      \* handles not to be given out again
  can,       \* the operations that would not block on it now
  eof,       \* its peer has closed: reads come to the end, writes fail, none blocks
  queue,     \* number of requests queued for each operation
  early,     \* the operations whose first request was left although it could go on
  budget,    \* requests not yet submitted
  loop,      \* the watcher loop: where it is, with which request or events
  poller,    \* where the poller goroutine is in Wait
  events,    \* eventSet
  chSignal,  \* the channel to the loop: "empty", "events" or "error"
  done,      \* sig.done is full
  wake,      \* a wakeup is pending
  cpuid,     \* the affinity mailbox, None for -1
  setter,    \* a call of SetPollerAffinity under way, and the number left
  stop,      \* progress of stop: 1 die closed, 2 p.die closed, 3 woken
  stopper,   \* who runs stop: None, "user" or "loop"
  pollerErr, \* "nil", "torn" while it is written, "set"
  waiter     \* what the WaitIO under way has returned

connVars == <<run, state, handle, used, can, eof, queue, early, budget>>
sigVars == <<events, chSignal, done, wake>>
affVars == <<cpuid, setter>>
stopVars == <<stop, stopper, pollerErr, waiter>>

Op == {"read", "write"}
AtSelect == [pc |-> "select", conn |-> None, op |-> "read", todo |-> {}]
die == stop > 0
pdie == stop > 1

Init ==
  /\ run \in Scenarios
  /\ state = [c \in Conn |-> "new"] /\ handle = [c \in Conn |-> None] /\ used = {}
  /\ can = [c \in Conn |-> {"write"}] /\ eof = [c \in Conn |-> FALSE]
  /\ queue = [c \in Conn |-> [o \in Op |-> 0]] /\ early = [c \in Conn |-> {}] /\ budget = run.reqs
  /\ loop = IF "open" \in run.env THEN [AtSelect EXCEPT !.pc = "off"] ELSE AtSelect
  /\ poller = IF "open" \in run.env THEN "off" ELSE "top"
  /\ events = {} /\ chSignal = "empty" /\ done = FALSE /\ wake = FALSE
  /\ cpuid = None /\ setter = [pc |-> "idle", left |-> run.cpus]
  /\ stop = 0 /\ stopper = None /\ pollerErr = "nil" /\ waiter = "wait"

Open == {handle[c] : c \in Conn} \ {None}
Unused == Handle \ (Open \cup used)
Owner(x) == CHOOSE c \in Conn : handle[c] = x
-----------------------------------------------------------------------------
(* The watcher loop.                                                       *)

\* dup returns the lowest number that is free.  Windows promises no order, but
\* handles that have not been used before are alike.
Lowest(S) == CHOOSE x \in S : \A y \in S : x <= y

\* A request is taken up.  The first one for a connection duplicates its handle;
\* when that fails nothing stays open.
LoopRequest(c, o) ==
  /\ loop.pc = "select" /\ budget > 0 /\ state[c] # "gone" /\ c \in run.conns
  /\ budget' = budget - 1
  /\ \/ /\ state[c] = "open"
        /\ loop' = [loop EXCEPT !.pc = "try", !.conn = c, !.op = o]
        /\ UNCHANGED <<handle, used>>
     \/ /\ state[c] = "new"
        /\ Unused # {}
        /\ LET x == Lowest(Unused) IN
             /\ handle' = [handle EXCEPT ![c] = x]
             /\ used' = IF "reuse" \in run.env THEN used ELSE used \cup {x}
        /\ loop' = [loop EXCEPT !.pc = "watch", !.conn = c, !.op = o]
     \/ /\ state[c] = "new" /\ "dup" \in run.env
        /\ UNCHANGED <<handle, used, loop>>
  /\ UNCHANGED <<run, state, can, eof, queue, early, poller, sigVars, affVars, stopVars>>

\* An attempt may end before it would block.  A write meets ENOBUFS, which is
\* specific to macOS and the BSDs.  A full read is content with the last bytes of
\* the stream and does not go on to the end, once: there are no bytes after them.
GivesUp(c, o) ==
  \/ o = "write" /\ "nobufs" \in run.env /\ run.platform = "kqueue"
  \/ o = "read" /\ eof[c] /\ o \notin early[c]

\* The request is attempted if none is queued before it.  A success may or may
\* not use up what made it possible; a request that would block, moves only a part
\* of its bytes or gives up is queued.
LoopTry ==
  /\ loop.pc = "try"
  /\ LET c == loop.conn
         o == loop.op
         Queued == queue' = [queue EXCEPT ![c][o] = @ + 1]
     IN \/ /\ queue[c][o] > 0 \/ o \notin can[c]
           /\ Queued /\ UNCHANGED <<can, early>>
        \/ /\ queue[c][o] = 0 /\ o \in can[c]
           /\ can' \in {can, [can EXCEPT ![c] = IF eof[c] THEN @ ELSE @ \ {o}]}
           /\ UNCHANGED <<queue, early>>
        \/ /\ queue[c][o] = 0 /\ o \in can[c] /\ ~ eof[c]
           /\ Queued /\ can' = [can EXCEPT ![c] = @ \ {o}] /\ UNCHANGED early
        \/ /\ queue[c][o] = 0 /\ GivesUp(c, o)
           /\ Queued /\ early' = [early EXCEPT ![c] = @ \cup {o}] /\ UNCHANGED can
  /\ loop' = AtSelect
  /\ UNCHANGED <<run, state, handle, used, eof, budget, poller, sigVars, affVars, stopVars>>

\* Free, or the finalizer: queued requests fail and the handle is closed.
\* No operation on a closed socket blocks.
LoopRelease(c) ==
  /\ loop.pc = "select" /\ state[c] = "open" /\ "free" \in run.env
  /\ state' = [state EXCEPT ![c] = "gone"]
  /\ handle' = [handle EXCEPT ![c] = None]
  /\ queue' = [queue EXCEPT ![c] = [o \in Op |-> 0]]
  /\ early' = [early EXCEPT ![c] = {}] /\ can' = [can EXCEPT ![c] = Op]
  /\ UNCHANGED <<run, used, eof, budget, loop, poller, sigVars, affVars, stopVars>>

\* A batch is received, or the poller's last error.
LoopSignal ==
  /\ loop.pc = "select" /\ chSignal # "empty"
  /\ chSignal' = "empty"
  /\ loop' = [loop EXCEPT !.pc = IF chSignal = "error" THEN "error" ELSE "events",
                          !.todo = events]
  /\ UNCHANGED <<connVars, poller, events, done, wake, affVars, stopVars>>

\* What is left of the queued requests, and of the readiness, when they are
\* retried in order until one is not complete: it would block, moved only a part
\* of its bytes, or gives up.
Retry(c, o, q, more, stuck) ==
  LET n == queue[c][o] IN
  IF n = 0 \/ o \notin can[c] THEN q = n /\ more = (o \in can[c]) /\ ~ stuck
  ELSE IF stuck THEN GivesUp(c, o) /\ q \in 1 .. n /\ more
  ELSE IF eof[c] THEN q = 0 /\ more
  ELSE q <= n /\ (q > 0 => ~ more)

\* handleEvents: the queued requests of one event's descriptor are retried.
LoopEvent ==
  /\ loop.pc = "events"
  /\ \E e \in loop.todo :
       /\ loop' = [loop EXCEPT !.todo = @ \ {e}]
       /\ IF e.ident \in Open
            THEN LET c == Owner(e.ident) IN
                 \E q \in [Op -> 0 .. run.reqs], more \in [Op -> BOOLEAN], stuck \in SUBSET e.ev :
                   /\ \A o \in Op :
                        IF o \in e.ev THEN Retry(c, o, q[o], more[o], o \in stuck)
                        ELSE q[o] = queue[c][o] /\ more[o] = (o \in can[c])
                   /\ queue' = [queue EXCEPT ![c] = q]
                   /\ can' = [can EXCEPT ![c] = {o \in Op : more[o]}]
                   /\ early' = [early EXCEPT ![c] = (@ \ (e.ev \ {"read"})) \cup stuck]
            ELSE UNCHANGED <<queue, can, early>>
  /\ UNCHANGED <<run, state, handle, used, eof, budget, poller, sigVars, affVars, stopVars>>

\* The batch is acknowledged, or the loop leaves because of die.
LoopEventsEnd ==
  /\ loop.pc = "events" /\ loop.todo = {}
  /\ \/ ~ done /\ done' = TRUE /\ loop' = AtSelect
     \/ die /\ loop' = [loop EXCEPT !.pc = "exit"] /\ UNCHANGED done
  /\ UNCHANGED <<connVars, poller, events, chSignal, wake, affVars, stopVars>>

\* With a mistake: the watcher is stopped before the error is stored.
LoopErrorLate ==
  /\ \/ /\ loop.pc = "error" /\ pollerErr = "nil"
        /\ stopper' = IF stopper = None THEN "loop" ELSE stopper
        /\ stop' = IF stop = 0 THEN 1 ELSE stop
        /\ pollerErr' = "torn" /\ UNCHANGED loop
     \/ /\ loop.pc = "error" /\ pollerErr = "torn"
        /\ pollerErr' = "set" /\ loop' = [loop EXCEPT !.pc = "stop"]
        /\ UNCHANGED <<stop, stopper>>
  /\ UNCHANGED <<connVars, poller, sigVars, affVars, waiter>>

\* A poller error is stored (an interface value: two words), and then stop is
\* called.
LoopError ==
  /\ loop.pc = "error"
  /\ IF pollerErr = "nil" THEN pollerErr' = "torn" /\ UNCHANGED loop
     ELSE pollerErr' = "set" /\ loop' = [loop EXCEPT !.pc = "stop"]
  /\ UNCHANGED <<connVars, poller, sigVars, affVars, stop, stopper, waiter>>

\* stop runs once; a second caller waits until the first is through.
LoopStop ==
  /\ loop.pc = "stop"
  /\ \/ stopper = None /\ stopper' = "loop" /\ UNCHANGED loop
     \/ stop = 3 /\ loop' = [loop EXCEPT !.pc = "exit"] /\ UNCHANGED stopper
  /\ UNCHANGED <<connVars, poller, sigVars, affVars, stop, pollerErr, waiter>>

LoopDie ==
  /\ loop.pc = "select" /\ die
  /\ loop' = [loop EXCEPT !.pc = "exit"]
  /\ UNCHANGED <<connVars, poller, sigVars, affVars, stopVars>>

\* The deferred cleanup releases every connection and closes loopDone.
LoopExit ==
  /\ loop.pc = "exit"
  /\ loop' = [loop EXCEPT !.pc = "done", !.conn = None, !.op = "read", !.todo = {}]
  /\ state' = [c \in Conn |-> IF state[c] = "open" THEN "gone" ELSE state[c]]
  /\ handle' = [c \in Conn |-> None]
  /\ queue' = [c \in Conn |-> [o \in Op |-> 0]] /\ early' = [c \in Conn |-> {}]
  /\ UNCHANGED <<run, used, can, eof, budget, poller, sigVars, affVars, stopVars>>
-----------------------------------------------------------------------------
(* Users of the watcher.                                                   *)

UserClose ==
  /\ "close" \in run.env /\ stopper = None
  /\ stopper' = "user"
  /\ UNCHANGED <<connVars, loop, poller, sigVars, affVars, stop, pollerErr, waiter>>

\* wakeup fails once the poller has closed its descriptor.
CanWake == poller # "exit"
Wakeup == wake' = (wake \/ CanWake)

\* stop: close die, close p.die, wake the poller.
StopStep ==
  /\ stopper # None /\ stop < 3
  /\ stop' = stop + 1
  /\ IF stop = 2 THEN Wakeup ELSE UNCHANGED wake
  /\ UNCHANGED <<connVars, loop, poller, events, chSignal, done, affVars, stopper, pollerErr, waiter>>

\* A WaitIO without results returns when die is closed.
WaitEnds ==
  /\ waiter = "wait" /\ die
  /\ waiter' = IF pollerErr = "nil" THEN "ErrWatcherClosed" ELSE pollerErr
  /\ UNCHANGED <<connVars, loop, poller, sigVars, affVars, stop, stopper, pollerErr>>

\* SetPollerAffinity stores its request ...
StoreCPU ==
  /\ setter.pc = "idle" /\ setter.left > 0
  /\ setter' = [pc |-> "wake", left |-> setter.left - 1]
  /\ cpuid' = setter.left
  /\ UNCHANGED <<connVars, loop, poller, sigVars, stopVars>>

\* With a mistake: nobody wakes the poller.
WakeForCPUNot ==
  /\ setter.pc = "wake"
  /\ setter' = [setter EXCEPT !.pc = "idle"]
  /\ cpuid' = IF CanWake THEN cpuid ELSE None
  /\ UNCHANGED <<connVars, loop, poller, sigVars, stopVars>>

\* ... and wakes the poller, or takes the request back if that fails.
WakeForCPU ==
  /\ setter.pc = "wake"
  /\ setter' = [setter EXCEPT !.pc = "idle"]
  /\ Wakeup
  /\ cpuid' = IF CanWake THEN cpuid ELSE None
  /\ UNCHANGED <<connVars, loop, poller, events, chSignal, done, stopVars>>

\* The steps that concern no platform in particular.
ClientStep ==
  \/ \E c \in Conn, o \in Op : LoopRequest(c, o)
  \/ LoopTry \/ LoopSignal \/ LoopEvent \/ LoopEventsEnd \/ LoopError \/ LoopStop \/ LoopDie
  \/ UserClose \/ StopStep \/ WaitEnds \/ StoreCPU \/ WakeForCPU
-----------------------------------------------------------------------------
(* The peers, and the steps that all pollers take in the same way.         *)

PeerEnables(c, o) ==
  /\ "peer" \in run.env /\ c \in run.conns /\ state[c] # "gone" /\ ~ eof[c]
  /\ can' = [can EXCEPT ![c] = @ \cup {o}]
  /\ UNCHANGED <<run, state, handle, used, eof, queue, early, budget, loop, poller, sigVars, affVars, stopVars>>

PeerCloses(c) ==
  /\ "eof" \in run.env /\ c \in run.conns /\ state[c] # "gone" /\ ~ eof[c]
  /\ can' = [can EXCEPT ![c] = Op] /\ eof' = [eof EXCEPT ![c] = TRUE]
  /\ UNCHANGED <<run, state, handle, used, queue, early, budget, loop, poller, sigVars, affVars, stopVars>>

Goto(pc) == poller' = pc

\* The batch is sent, or the error.
PollerSend(what) ==
  /\ chSignal = "empty"
  /\ chSignal' = what
  /\ UNCHANGED <<connVars, loop, events, done, wake, affVars, stopVars>>

\* The loop has acknowledged the batch, and the slice is truncated.
PollerAck ==
  /\ poller = "ack" /\ done
  /\ done' = FALSE /\ events' = {} /\ Goto("top")
  /\ UNCHANGED <<connVars, loop, chSignal, wake, affVars, stopVars>>

\* The request in the mailbox is loaded and applied, and then the mailbox cleared.
LoadCPU(next) ==
  /\ Goto(IF cpuid = None THEN next ELSE "clear")
  /\ UNCHANGED <<connVars, loop, sigVars, affVars, stopVars>>

ClearCPU(next) ==
  /\ poller = "clear"
  /\ cpuid' = None /\ Goto(next)
  /\ UNCHANGED <<connVars, loop, sigVars, setter, stopVars>>
=============================================================================
