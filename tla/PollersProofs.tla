---------------------------- MODULE PollersProofs ----------------------------
(* The kqueue and the WSAPoll poller, for any connections and handles: what *)
(* the watcher relies on from either.                                       *)
EXTENDS Pollers, WellFoundedInduction, TLAPS

Event == [ident : Handle, ev : SUBSET Op]

ConnOK ==
  /\ run \in Scenarios /\ state \in [Conn -> {"new", "open", "gone"}]
  /\ handle \in [Conn -> Handle \cup {None}] /\ used \subseteq Handle
  /\ can \in [Conn -> SUBSET Op] /\ eof \in [Conn -> BOOLEAN]
  /\ queue \in [Conn -> [Op -> Nat]] /\ early \in [Conn -> SUBSET Op] /\ budget \in Nat

LoopOK ==
  loop \in [pc : {"off", "select", "watch", "wakeup", "try", "events", "error", "stop", "exit", "done"},
            conn : Conn \cup {None}, op : Op, todo : SUBSET Event]

SigOK ==
  /\ poller \in {"off", "top", "affinity", "clear", "kevent", "wait", "poll", "drain", "build",
                 "send", "ack", "fail", "exit"}
  /\ events \subseteq Event /\ chSignal \in {"empty", "events", "error"}
  /\ done \in BOOLEAN /\ wake \in BOOLEAN

UsersOK ==
  /\ cpuid \in Nat \cup {None} /\ setter \in [pc : {"idle", "wake"}, left : Nat]
  /\ stop \in 0 .. 3 /\ stopper \in {None, "user", "loop"}
  /\ pollerErr \in {"nil", "torn", "set"} /\ waiter \in {"wait", "ErrWatcherClosed", "torn", "set"}

KqOK ==
  /\ watchQueue \subseteq Handle /\ changes \subseteq Handle /\ bad \subseteq Handle
  /\ note \in [Handle -> SUBSET Op] /\ active \in [Handle -> SUBSET Op]

\* The snapshot has the wakeup socket until that is drained.
WsOK ==
  /\ pollFds \in Seq(Handle)
  /\ DOMAIN fdMap \subseteq Handle /\ fdMap \in [DOMAIN fdMap -> Nat]
  /\ DOMAIN revents \subseteq Handle \cup {None}
  /\ revents \in [DOMAIN revents -> (SUBSET Op) \cup {{"invalid"}}]
  /\ poller \notin {"affinity", "clear", "drain"} => None \notin DOMAIN revents
  /\ None \in DOMAIN revents => revents[None] \in SUBSET Op
  /\ run.platform = "kqueue" => DOMAIN revents = {}

\* A handle is one connection's, from dup to its release.
HandlesOK ==
  /\ \A c, d \in Conn : handle[c] = handle[d] /\ handle[c] # None => c = d
  /\ loop.pc \in {"watch", "wakeup", "try"} => loop.conn \in Conn /\ handle[loop.conn] # None
  /\ loop.pc \in {"watch", "wakeup"} => state[loop.conn] = "new"
  /\ \A c \in Conn : state[c] = "open" => handle[c] # None
  /\ loop.pc \in {"off", "done"} => \A c \in Conn : state[c] # "open"
  /\ \A c \in Conn :
       state[c] = "new" /\ handle[c] # None => loop.pc \in {"watch", "wakeup", "exit"} /\ loop.conn = c

TypeOK == ConnOK /\ LoopOK /\ SigOK /\ UsersOK /\ KqOK /\ WsOK

\* Poller and loop start when openPoll is through.
OpenOK == setup # "opened" => loop.pc = "off" /\ poller = "off"

\* A batch is with one side: the poller touches it only when the loop is neither
\* about to receive it nor iterating over it.
Handshake ==
  /\ chSignal = "events" \/ loop.pc = "events" \/ done => poller \in {"ack", "exit"}
  /\ chSignal = "error" => poller = "exit"
  /\ loop.pc = "events" => chSignal = "empty" /\ ~ done
  /\ done => chSignal = "empty"

\* A stored request is seen, or somebody is about to wake the poller, or it is
\* awake, or it has yet to look.
Mailbox ==
  run.platform = "kqueue" /\ poller \in {"kevent", "wait"} /\ ~ wake /\ setter.pc = "idle"
    => cpuid = None

\* Only Close and a stored error close die.
Stopping ==
  /\ stop > 0 => stopper # None
  /\ loop.pc = "stop" \/ stopper = "loop" => pollerErr = "set"
  /\ ErrorReported

\* The poll set and its index are inverse to each other.
Indexed ==
  /\ \A x \in DOMAIN fdMap : fdMap[x] \in DOMAIN pollFds /\ pollFds[fdMap[x]] = x
  /\ \A i \in DOMAIN pollFds : pollFds[i] \in DOMAIN fdMap /\ fdMap[pollFds[i]] = i

\* A connection that Watch has queued; its handle will be submitted, is being
\* submitted, or is registered.
Accepted(c) == state[c] = "open" \/ (loop.pc = "wakeup" /\ loop.conn = c)
Submitted(x) == x \in watchQueue \/ (poller # "wait" /\ x \in changes) \/ note[x] = Op

KqWatched ==
  run.platform = "kqueue" /\ poller # "exit" => \A c \in Conn : Accepted(c) => Submitted(handle[c])

\* No handle is given out twice, so what a poll reports invalid stays invalid.
WsWatched ==
  run.platform = "wsapoll" /\ "reuse" \notin run.env =>
    /\ Open \cup DOMAIN fdMap \cup (DOMAIN revents \ {None}) \subseteq used
    /\ \A x \in DOMAIN revents : revents[x] = {"invalid"} => x \notin Open
    /\ \A c \in Conn : state[c] = "open" => handle[c] \in DOMAIN fdMap

PollersInv ==
  /\ TypeOK /\ HandlesOK /\ OpenOK /\ Handshake /\ Mailbox /\ Stopping
  /\ Indexed /\ KqWatched /\ WsWatched

-----------------------------------------------------------------------------
(* What a step leaves alone.                                               *)

\* Retrying adds no request; it loses no readiness after the end of the stream,
\* and leaves both a request and readiness only if it gave up.
LEMMA RetryFacts ==
  ASSUME NEW c, NEW o, NEW q \in Nat, NEW more \in BOOLEAN, NEW stuck,
         queue[c][o] \in Nat, Retry(c, o, q, more, stuck)
  PROVE  /\ q > 0 => queue[c][o] > 0
         /\ eof[c] /\ o \in can[c] => more
         /\ q > 0 /\ more => stuck
BY DEF Retry

\* A part of the invariant whose variables do not change still holds.
LEMMA Frame ==
  ASSUME PollersInv
  PROVE  /\ UNCHANGED connVars => ConnOK'
         /\ UNCHANGED loop => LoopOK'
         /\ UNCHANGED <<poller, sigVars>> => SigOK'
         /\ UNCHANGED <<affVars, stopVars>> => UsersOK'
         /\ UNCHANGED kqVars => KqOK'
         /\ UNCHANGED <<run, wsVars, poller>> => WsOK'
         /\ UNCHANGED <<handle, state, loop>> => HandlesOK'
         /\ UNCHANGED <<setup, loop, poller>> => OpenOK'
         /\ UNCHANGED <<chSignal, done, loop, poller>> => Handshake'
         /\ UNCHANGED <<run, poller, wake, setter, cpuid>> => Mailbox'
         /\ UNCHANGED <<stopVars, loop>> => Stopping'
         /\ UNCHANGED <<pollFds, fdMap>> => Indexed'
         /\ UNCHANGED <<run, poller, state, loop, handle, watchQueue, changes, note>> => KqWatched'
         /\ UNCHANGED <<run, handle, fdMap, revents, used, state>> => WsWatched'
<1> USE DEF PollersInv, TypeOK
<1>1. UNCHANGED connVars => ConnOK'
  BY DEF ConnOK, connVars
<1>2. UNCHANGED loop => LoopOK'
  BY DEF LoopOK, Event
<1>3. UNCHANGED <<poller, sigVars>> => SigOK'
  BY DEF SigOK, sigVars, Event
<1>4. UNCHANGED <<affVars, stopVars>> => UsersOK'
  BY DEF UsersOK, affVars, stopVars
<1>5. UNCHANGED kqVars => KqOK'
  BY DEF KqOK, kqVars
<1>6. UNCHANGED <<run, wsVars, poller>> => WsOK'
  BY DEF WsOK, wsVars
<1>7. UNCHANGED <<handle, state, loop>> => HandlesOK'
  BY DEF HandlesOK
<1>8. UNCHANGED <<setup, loop, poller>> => OpenOK'
  BY DEF OpenOK
<1>9. UNCHANGED <<chSignal, done, loop, poller>> => Handshake'
  BY DEF Handshake
<1>10. UNCHANGED <<run, poller, wake, setter, cpuid>> => Mailbox'
  BY DEF Mailbox
<1>11. UNCHANGED <<stopVars, loop>> => Stopping'
  BY DEF Stopping, ErrorReported, stopVars
<1>12. UNCHANGED <<pollFds, fdMap>> => Indexed'
  BY DEF Indexed
<1>13. UNCHANGED <<run, poller, state, loop, handle, watchQueue, changes, note>> => KqWatched'
  BY DEF KqWatched, Accepted, Submitted
<1>14. UNCHANGED <<run, handle, fdMap, revents, used, state>> => WsWatched'
  BY DEF WsWatched, Open
<1>15. QED
  BY <1>1, <1>2, <1>3, <1>4, <1>5, <1>6, <1>7, <1>8, <1>9, <1>10, <1>11, <1>12, <1>13, <1>14

-----------------------------------------------------------------------------
(* The users.                                                              *)

\* Close, stop, WaitIO and SetPollerAffinity.
LEMMA UsersInv ==
  ASSUME PollersInv, UserClose \/ StopStep \/ WaitEnds \/ StoreCPU \/ WakeForCPU,
         UNCHANGED <<kqVars, wsVars, openVars>>
  PROVE  PollersInv'
<1>1. UNCHANGED <<connVars, loop, poller, events, chSignal, done, kqVars, wsVars, openVars>>
  BY DEF UserClose, StopStep, WaitEnds, StoreCPU, WakeForCPU, sigVars
<1>2. SigOK /\ UsersOK /\ Mailbox /\ Stopping
  BY DEF PollersInv, TypeOK
<1>3. wake' \in BOOLEAN /\ (wake => wake')
  BY <1>2, Zenon DEF UserClose, StopStep, WaitEnds, StoreCPU, WakeForCPU, Wakeup, sigVars, SigOK
<1>4. SigOK'
  BY <1>1, <1>2, <1>3 DEF SigOK, Event
<1>5. UsersOK'
  <2>1. CASE UserClose
    BY <1>2, <2>1 DEF UserClose, UsersOK, affVars
  <2>2. CASE StopStep
    BY <1>2, <2>2 DEF StopStep, UsersOK, affVars
  <2>3. CASE WaitEnds
    BY <1>2, <2>3 DEF WaitEnds, UsersOK, affVars
  <2>4. CASE StoreCPU
    BY <1>2, <2>4 DEF StoreCPU, UsersOK, stopVars
  <2>5. CASE WakeForCPU
    BY <1>2, <2>5 DEF WakeForCPU, UsersOK, stopVars
  <2>6. QED
    BY <2>1, <2>2, <2>3, <2>4, <2>5
<1>6. Mailbox'
  <2>1. CASE UserClose \/ StopStep \/ WaitEnds
    BY <1>1, <1>2, <1>3, <2>1 DEF UserClose, StopStep, WaitEnds, Mailbox, affVars, connVars
  <2>2. CASE StoreCPU
    BY <2>2 DEF StoreCPU, Mailbox
  <2>3. CASE WakeForCPU
    BY <1>1, <1>2, <2>3, Zenon DEF WakeForCPU, Mailbox, Wakeup, CanWake
  <2>4. QED
    BY <2>1, <2>2, <2>3
<1>7. Stopping'
  <2>1. CASE UserClose
    BY <1>1, <1>2, <2>1, ScenariosAssumption DEF UserClose, Stopping, ErrorReported, UsersOK
  <2>2. CASE StopStep
    BY <1>1, <1>2, <2>2 DEF StopStep, Stopping, ErrorReported
  <2>3. CASE WaitEnds
    BY <1>1, <1>2, <2>3 DEF WaitEnds, Stopping, ErrorReported, UsersOK, die
  <2>4. CASE StoreCPU \/ WakeForCPU
    BY <1>1, <1>2, <2>4 DEF StoreCPU, WakeForCPU, Stopping, ErrorReported, stopVars
  <2>5. QED
    BY <2>1, <2>2, <2>3, <2>4
<1>8. QED
  BY <1>1, <1>4, <1>5, <1>6, <1>7, Frame
     DEF PollersInv, TypeOK, connVars, kqVars, wsVars, openVars

-----------------------------------------------------------------------------
(* The loop.                                                               *)

\* The loop between two requests: it receives a batch, acknowledges it, handles
\* an error or sees die.
LEMMA LoopMovesInv ==
  ASSUME PollersInv, LoopSignal \/ LoopEventsEnd \/ LoopError \/ LoopStop \/ LoopDie,
         UNCHANGED <<kqVars, wsVars, openVars>>
  PROVE  PollersInv'
<1>1. UNCHANGED <<connVars, poller, events, wake, affVars, stop, waiter, kqVars, wsVars, openVars>>
  BY DEF LoopSignal, LoopEventsEnd, LoopError, LoopStop, LoopDie, sigVars, stopVars
<1>2. LoopOK /\ SigOK /\ UsersOK /\ HandlesOK /\ OpenOK /\ Handshake /\ Stopping /\ KqWatched
  BY DEF PollersInv, TypeOK
<1>3. /\ loop.pc \in {"select", "events", "error", "stop"}
      /\ loop'.pc \in {"select", "events", "error", "stop", "exit"} /\ LoopOK'
  <2>1. CASE LoopSignal
    BY <1>2, <2>1, Zenon DEF LoopSignal, LoopOK, SigOK, Event
  <2>2. CASE LoopEventsEnd
    BY <1>2, <2>2 DEF LoopEventsEnd, LoopOK, AtSelect, Op, Event
  <2>3. CASE LoopError \/ LoopStop \/ LoopDie
    BY <1>2, <2>3 DEF LoopError, LoopStop, LoopDie, LoopOK, Event
  <2>4. QED
    BY <2>1, <2>2, <2>3
<1>4. SigOK'
  BY <1>1, <1>2, Zenon DEF LoopSignal, LoopEventsEnd, LoopError, LoopStop, LoopDie, SigOK, sigVars
<1>5. UsersOK' /\ Stopping'
  <2>1. CASE LoopSignal \/ LoopEventsEnd \/ LoopDie
    <3>1. UNCHANGED stopVars
      BY <2>1 DEF LoopSignal, LoopEventsEnd, LoopDie
    <3>2. loop'.pc # "stop"
      <4>1. CASE LoopSignal
        BY <1>2, <4>1 DEF LoopSignal, LoopOK
      <4>2. CASE LoopEventsEnd \/ LoopDie
        BY <1>2, <4>2 DEF LoopEventsEnd, LoopDie, LoopOK, AtSelect
      <4>3. QED
        BY <2>1, <4>1, <4>2
    <3>3. QED
      BY <1>1, <1>2, <3>1, <3>2 DEF UsersOK, Stopping, ErrorReported, stopVars, affVars
  <2>2. CASE LoopError
    BY <1>1, <1>2, <2>2 DEF LoopError, UsersOK, Stopping, ErrorReported, affVars, LoopOK
  <2>3. CASE LoopStop
    <3>1. /\ loop.pc = "stop" /\ pollerErr = "set" /\ pollerErr' = pollerErr /\ stop' = stop
          /\ (stopper = None /\ stopper' = "loop") \/ stopper' = stopper
      BY <1>2, <2>3 DEF LoopStop, Stopping
    <3>2. UsersOK'
      BY <1>1, <1>2, <3>1 DEF UsersOK, affVars
    <3>3. Stopping'
      BY <1>1, <1>2, <3>1, ScenariosAssumption DEF Stopping, ErrorReported
    <3>4. QED
      BY <3>2, <3>3
  <2>4. QED
    BY <2>1, <2>2, <2>3
<1>6. HandlesOK' /\ KqWatched'
  BY <1>1, <1>2, <1>3 DEF HandlesOK, KqWatched, Accepted, Submitted, connVars, kqVars
<1>7. OpenOK'
  BY <1>1, <1>2, <1>3 DEF OpenOK, openVars
<1>8. Handshake'
  BY <1>1, <1>2 DEF LoopSignal, LoopEventsEnd, LoopError, LoopStop, LoopDie, Handshake, sigVars,
                    LoopOK, SigOK, AtSelect
<1>9. QED
  BY <1>1, <1>3, <1>4, <1>5, <1>6, <1>7, <1>8, Frame
     DEF PollersInv, TypeOK, connVars, affVars, kqVars, wsVars

\* A set of handles that is not empty has a lowest one.
LEMMA LowestIn ==
  ASSUME NEW S \in SUBSET Nat, S # {}
  PROVE  Lowest(S) \in S
<1> DEFINE R == OpToRel(<, Nat)
<1>1. PICK x \in S : \A y \in S : ~ (<<y, x>> \in R)
  <2> HIDE DEF R
  <2>1. IsWellFoundedOn(R, Nat)
    BY NatLessThanWellFounded, Zenon DEF R
  <2>2. QED
    BY <2>1, WFMin, Zenon
<1>2. \A y \in S : x <= y
  <2>1. ASSUME NEW y \in S PROVE ~ (y < x)
    BY <1>1, <2>1, Zenon DEF OpToRel
  <2>2. QED
    BY <2>1
<1>3. QED
  BY <1>2, Zenon DEF Lowest

\* The connection a handle is open for.
LEMMA OwnerIs ==
  ASSUME ConnOK, NEW x \in Open
  PROVE  x \in Handle /\ Owner(x) \in Conn /\ handle[Owner(x)] = x
BY DEF ConnOK, Open, Owner

\* A request is taken up; the first one for a connection gets a handle that is
\* nobody's.
LEMMA LoopRequestInv ==
  ASSUME PollersInv, NEW c \in Conn, NEW o \in Op, LoopRequest(c, o),
         UNCHANGED <<kqVars, wsVars, openVars>>
  PROVE  PollersInv'
<1> DEFINE x == Lowest(Unused)
<1>1. /\ loop.pc = "select" /\ budget > 0 /\ budget' = budget - 1 /\ state[c] # "gone"
      /\ UNCHANGED <<run, state, can, eof, queue, early, poller, sigVars, affVars, stopVars,
                     kqVars, wsVars, openVars>>
  BY DEF LoopRequest
<1>2. ConnOK /\ LoopOK /\ HandlesOK /\ OpenOK /\ Handshake /\ Stopping /\ KqWatched /\ WsWatched
  BY DEF PollersInv, TypeOK
<1>3. setup = "opened"
  BY <1>1, <1>2 DEF OpenOK
<1>4. CASE UNCHANGED <<handle, used, loop>>
  <2>1. ConnOK'
    BY <1>1, <1>2, <1>4 DEF ConnOK
  <2>2. QED
    BY <1>1, <1>4, <2>1, Frame DEF PollersInv, TypeOK, sigVars, affVars, kqVars, wsVars, openVars
<1>5. CASE /\ state[c] = "open" /\ loop' = [loop EXCEPT !.pc = "try", !.conn = c, !.op = o]
           /\ UNCHANGED <<handle, used>>
  <2>1. ConnOK'
    BY <1>1, <1>2, <1>5 DEF ConnOK
  <2>2. LoopOK' /\ loop'.pc = "try" /\ loop'.conn = c
    BY <1>2, <1>5, Zenon DEF LoopOK
  <2>3. HandlesOK'
    BY <1>1, <1>2, <1>5, <2>2 DEF HandlesOK
  <2>4. OpenOK' /\ Handshake' /\ Stopping'
    BY <1>1, <1>2, <1>3, <2>2, Zenon
       DEF OpenOK, Handshake, Stopping, ErrorReported, sigVars, stopVars, openVars
  <2>5. KqWatched'
    BY <1>1, <1>2, <1>5, <2>2 DEF KqWatched, Accepted, Submitted, kqVars
  <2>6. QED
    BY <1>1, <1>5, <2>1, <2>2, <2>3, <2>4, <2>5, Frame
       DEF PollersInv, TypeOK, sigVars, affVars, kqVars, wsVars
<1>6. CASE /\ state[c] = "new" /\ Unused # {} /\ handle' = [handle EXCEPT ![c] = x]
           /\ used' = IF "reuse" \in run.env THEN used ELSE used \cup {x}
           /\ loop' = [loop EXCEPT !.pc = "watch", !.conn = c, !.op = o]
  <2>1. x \in Handle /\ x \notin Open /\ x \notin used /\ x # None
    <3>1. Unused \in SUBSET Nat /\ Unused \subseteq Handle
      BY ScenariosAssumption, Zenon DEF Unused
    <3>2. x \in Unused
      BY <1>6, <3>1, LowestIn
    <3>3. QED
      BY <3>2, ScenariosAssumption DEF Unused
  <2> HIDE DEF x
  <2>2. handle[c] = None
    BY <1>1, <1>2, <1>6 DEF HandlesOK
  <2>3. /\ handle' \in [Conn -> Handle \cup {None}] /\ handle'[c] = x
        /\ \A d \in Conn : d # c => handle'[d] = handle[d]
    BY <1>2, <1>6, <2>1 DEF ConnOK
  <2>4. ConnOK'
    BY <1>1, <1>2, <1>6, <2>1, <2>3 DEF ConnOK
  <2>5. LoopOK' /\ loop'.pc = "watch" /\ loop'.conn = c
    BY <1>2, <1>6, Zenon DEF LoopOK
  <2>6. Open' = Open \cup {x}
    BY <1>2, <2>1, <2>2, <2>3 DEF Open, ConnOK
  <2>7. \A d \in Conn : handle[d] # x
    BY <2>1 DEF Open
  <2>8. HandlesOK'
    BY <1>1, <1>2, <1>6, <2>1, <2>2, <2>3, <2>5, <2>7 DEF HandlesOK
  <2>9. OpenOK' /\ Handshake' /\ Stopping'
    BY <1>1, <1>2, <1>3, <2>5, Zenon
       DEF OpenOK, Handshake, Stopping, ErrorReported, sigVars, stopVars, openVars
  <2>10. KqWatched'
    <3>1. \A d \in Conn : Accepted(d)' => Accepted(d) /\ d # c
      BY <1>1, <1>6, <2>5 DEF Accepted
    <3>2. QED
      BY <1>1, <1>2, <2>3, <3>1, Zenon DEF KqWatched, Submitted, kqVars
  <2>11. WsWatched'
    <3> SUFFICES ASSUME run.platform = "wsapoll", "reuse" \notin run.env PROVE WsWatched'
      BY <1>1, Zenon DEF WsWatched
    <3>1. /\ Open \cup DOMAIN fdMap \cup (DOMAIN revents \ {None}) \subseteq used
          /\ \A y \in DOMAIN revents : revents[y] = {"invalid"} => y \notin Open
          /\ \A d \in Conn : state[d] = "open" => handle[d] \in DOMAIN fdMap
      BY <1>2, Zenon DEF WsWatched
    <3>2. x \notin DOMAIN revents
      BY <2>1, <3>1
    <3>3. used' = used \cup {x}
      BY <1>6
    <3>4. UNCHANGED <<fdMap, revents, run>>
      BY <1>1 DEF wsVars
    <3>5. \A d \in Conn : state[d] = "open" => d # c
      BY <1>6
    <3>6. QED
      BY <1>1, <2>3, <2>6, <3>1, <3>2, <3>3, <3>4, <3>5, Zenon DEF WsWatched
  <2>12. QED
    BY <1>1, <2>4, <2>5, <2>8, <2>9, <2>10, <2>11, Frame
       DEF PollersInv, TypeOK, sigVars, affVars, kqVars, wsVars
<1>7. QED
  BY <1>4, <1>5, <1>6 DEF LoopRequest

\* The request is attempted or queued, and the queued ones of an event retried.
LEMMA LoopServesInv ==
  ASSUME PollersInv, LoopTry \/ LoopEvent, UNCHANGED <<kqVars, wsVars, openVars>>
  PROVE  PollersInv'
<1>1. UNCHANGED <<run, state, handle, used, eof, budget, poller, sigVars, affVars, stopVars,
                  kqVars, wsVars, openVars>>
  BY DEF LoopTry, LoopEvent
<1>2. ConnOK /\ LoopOK /\ HandlesOK /\ OpenOK /\ Handshake /\ Stopping /\ KqWatched /\ WsWatched
  BY DEF PollersInv, TypeOK
<1>3. /\ (loop.pc = "try" /\ loop'.pc = "select") \/ (loop.pc = "events" /\ loop'.pc = "events")
      /\ LoopOK'
  <2>1. CASE LoopTry
    <3>1. loop.pc = "try" /\ loop' = AtSelect
      BY <2>1 DEF LoopTry
    <3>2. QED
      BY <3>1 DEF LoopOK, AtSelect, Op
  <2>2. CASE LoopEvent
    BY <1>2, <2>2 DEF LoopEvent, LoopOK, Event
  <2>3. QED
    BY <2>1, <2>2
<1>4. ConnOK'
  <2>1. CASE LoopTry
    <3>1. loop.conn \in Conn /\ loop.op \in Op
      BY <1>2, <2>1 DEF LoopTry, HandlesOK, LoopOK
    <3>2. can' \in [Conn -> SUBSET Op]
      <4>1. \/ can' = can
            \/ can' = [can EXCEPT ![loop.conn] = IF eof[loop.conn] THEN @ ELSE @ \ {loop.op}]
        BY <2>1 DEF LoopTry
      <4>2. QED
        BY <1>2, <3>1, <4>1 DEF ConnOK
    <3>3. queue' \in [Conn -> [Op -> Nat]]
      <4>1. queue' = queue \/ queue' = [queue EXCEPT ![loop.conn][loop.op] = @ + 1]
        BY <2>1 DEF LoopTry
      <4>2. queue[loop.conn] \in [Op -> Nat]
        BY <1>2, <3>1 DEF ConnOK
      <4>3. [queue[loop.conn] EXCEPT ![loop.op] = @ + 1] \in [Op -> Nat]
        BY <3>1, <4>2
      <4>4. QED
        BY <1>2, <3>1, <4>1, <4>3, Zenon DEF ConnOK
    <3>4. early' \in [Conn -> SUBSET Op]
      <4>1. early' = early \/ early' = [early EXCEPT ![loop.conn] = @ \cup {loop.op}]
        BY <2>1, Zenon DEF LoopTry
      <4>2. QED
        BY <1>2, <3>1, <4>1 DEF ConnOK
    <3>5. QED
      BY <1>1, <1>2, <3>2, <3>3, <3>4 DEF ConnOK
  <2>2. CASE LoopEvent
    <3>1. PICK e \in loop.todo :
            IF e.ident \in Open
              THEN LET d == Owner(e.ident) IN
                   \E q \in [Op -> 0 .. run.reqs], more \in [Op -> BOOLEAN], stuck \in SUBSET e.ev :
                     /\ \A o \in Op :
                          IF o \in e.ev THEN Retry(d, o, q[o], more[o], o \in stuck)
                          ELSE q[o] = queue[d][o] /\ more[o] = (o \in can[d])
                     /\ queue' = [queue EXCEPT ![d] = q]
                     /\ can' = [can EXCEPT ![d] = {o \in Op : more[o]}]
                     /\ early' = [early EXCEPT ![d] = (@ \ (e.ev \ {"read"})) \cup stuck]
              ELSE UNCHANGED <<queue, can, early>>
      BY <2>2, Zenon DEF LoopEvent
    <3>2. CASE e.ident \in Open
      <4> DEFINE d == Owner(e.ident)
      <4>1. d \in Conn
        BY <1>2, <3>2, OwnerIs
      <4> HIDE DEF d
      <4>2. PICK q \in [Op -> 0 .. run.reqs], more \in [Op -> BOOLEAN], stuck \in SUBSET e.ev :
              /\ \A o \in Op :
                   IF o \in e.ev THEN Retry(d, o, q[o], more[o], o \in stuck)
                   ELSE q[o] = queue[d][o] /\ more[o] = (o \in can[d])
              /\ queue' = [queue EXCEPT ![d] = q]
              /\ can' = [can EXCEPT ![d] = {o \in Op : more[o]}]
              /\ early' = [early EXCEPT ![d] = (@ \ (e.ev \ {"read"})) \cup stuck]
        BY <3>1, <3>2, Zenon DEF d
      <4>3. q \in [Op -> Nat]
        BY SMTT(30)
      <4>4. e.ev \subseteq Op
        BY <1>2, Zenon DEF LoopOK, Event
      <4>5. early' \in [Conn -> SUBSET Op]
        BY <1>2, <4>1, <4>2, <4>4 DEF ConnOK
      <4>6. QED
        BY <1>1, <1>2, <4>1, <4>2, <4>3, <4>5, Zenon DEF ConnOK
    <3>3. CASE e.ident \notin Open
      BY <1>1, <1>2, <3>1, <3>3, Zenon DEF ConnOK
    <3>4. QED
      BY <3>2, <3>3
  <2>3. QED
    BY <2>1, <2>2
<1>5. HandlesOK' /\ KqWatched'
  BY <1>1, <1>2, <1>3, Zenon DEF HandlesOK, KqWatched, Accepted, Submitted, kqVars
<1>6. OpenOK' /\ Handshake' /\ Stopping'
  BY <1>1, <1>2, <1>3
     DEF OpenOK, Handshake, Stopping, ErrorReported, sigVars, stopVars, openVars
<1>7. QED
  BY <1>1, <1>3, <1>4, <1>5, <1>6, Frame DEF PollersInv, TypeOK, sigVars, affVars, kqVars, wsVars

\* Watch of the kqueue poller: the handle is queued.
LEMMA KqWatchInv ==
  ASSUME PollersInv, KqWatch, UNCHANGED <<wsVars, openVars>>
  PROVE  PollersInv'
<1>1. /\ loop.pc = "watch" /\ watchQueue' = watchQueue \cup {handle[loop.conn]}
      /\ loop' = [loop EXCEPT !.pc = "wakeup"]
      /\ UNCHANGED <<connVars, poller, sigVars, affVars, stopVars, changes, bad, note, active,
                     wsVars, openVars>>
  BY DEF KqWatch
<1>2. ConnOK /\ LoopOK /\ KqOK /\ HandlesOK /\ OpenOK /\ Handshake /\ Stopping /\ KqWatched
  BY DEF PollersInv, TypeOK
<1>3. loop.conn \in Conn /\ handle[loop.conn] \in Handle
  BY <1>1, <1>2 DEF HandlesOK, ConnOK
<1>4. LoopOK' /\ loop'.pc = "wakeup" /\ loop'.conn = loop.conn
  BY <1>1, <1>2 DEF LoopOK
<1>5. KqOK'
  BY <1>1, <1>2, <1>3 DEF KqOK
<1>6. HandlesOK'
  BY <1>1, <1>2, <1>4 DEF HandlesOK, connVars
<1>7. OpenOK' /\ Handshake' /\ Stopping'
  BY <1>1, <1>2, <1>4
     DEF OpenOK, Handshake, Stopping, ErrorReported, sigVars, stopVars, openVars
<1>8. KqWatched'
  <2>1. \A c \in Conn : Accepted(c)' => Accepted(c) \/ c = loop.conn
    BY <1>1, <1>4 DEF Accepted, connVars
  <2>2. \A x : Submitted(x) \/ x = handle[loop.conn] => Submitted(x)'
    BY <1>1 DEF Submitted
  <2>3. QED
    BY <1>1, <1>2, <2>1, <2>2 DEF KqWatched, connVars
<1>9. QED
  BY <1>1, <1>4, <1>5, <1>6, <1>7, <1>8, Frame
     DEF PollersInv, TypeOK, connVars, sigVars, affVars, wsVars

\* ... and the poller woken, or the handle closed again.
LEMMA KqWatchWakesInv ==
  ASSUME PollersInv, KqWatchWakes, run.platform = "kqueue", UNCHANGED <<wsVars, openVars>>
  PROVE  PollersInv'
<1>1. /\ loop.pc = "wakeup" /\ wake' = (wake \/ poller # "exit")
      /\ UNCHANGED <<run, used, can, eof, queue, early, budget, poller, events, chSignal, done,
                     affVars, stopVars, kqVars, wsVars, openVars>>
  BY DEF KqWatchWakes, Wakeup, CanWake
<1>2. ConnOK /\ LoopOK /\ SigOK /\ HandlesOK /\ OpenOK /\ Handshake /\ Mailbox /\ Stopping /\ KqWatched
  BY DEF PollersInv, TypeOK
<1>3. loop.conn \in Conn
  BY <1>1, <1>2 DEF HandlesOK
<1>4. SigOK' /\ Mailbox'
  BY <1>1, <1>2 DEF SigOK, Mailbox, Event, affVars
<1>5. WsWatched'
  BY <1>1 DEF WsWatched
<1>6. CASE /\ poller # "exit" /\ loop' = [loop EXCEPT !.pc = "try"] /\ UNCHANGED handle
           /\ state' = [state EXCEPT ![loop.conn] = "open"]
  <2>1. /\ ConnOK' /\ state'[loop.conn] = "open"
        /\ \A d \in Conn : d # loop.conn => state'[d] = state[d]
    BY <1>1, <1>2, <1>3, <1>6 DEF ConnOK
  <2>2. LoopOK' /\ loop'.pc = "try" /\ loop'.conn = loop.conn
    BY <1>2, <1>6 DEF LoopOK
  <2>3. HandlesOK'
    BY <1>1, <1>2, <1>3, <1>6, <2>1, <2>2 DEF HandlesOK
  <2>4. OpenOK' /\ Handshake' /\ Stopping'
    BY <1>1, <1>2, <2>2, Zenon
       DEF OpenOK, Handshake, Stopping, ErrorReported, stopVars, openVars
  <2>5. KqWatched'
    <3>1. \A d \in Conn : Accepted(d)' => Accepted(d)
      BY <1>1, <2>1, <2>2, Zenon DEF Accepted
    <3>2. QED
      BY <1>1, <1>2, <1>6, <3>1 DEF KqWatched, Submitted, kqVars
  <2>6. QED
    BY <1>1, <1>4, <1>5, <2>1, <2>2, <2>3, <2>4, <2>5, Frame, Zenon
       DEF PollersInv, TypeOK, affVars, kqVars, wsVars
<1>7. CASE /\ poller = "exit" /\ loop' = AtSelect /\ UNCHANGED state
           /\ handle' = [handle EXCEPT ![loop.conn] = None]
  <2>1. /\ ConnOK' /\ handle'[loop.conn] = None
        /\ \A d \in Conn : d # loop.conn => handle'[d] = handle[d]
    BY <1>1, <1>2, <1>3, <1>7 DEF ConnOK
  <2>2. LoopOK' /\ loop'.pc = "select"
    BY <1>7 DEF LoopOK, AtSelect, Op, Event
  <2>3. HandlesOK'
    BY <1>1, <1>2, <1>3, <1>7, <2>1, <2>2 DEF HandlesOK
  <2>4. OpenOK' /\ Handshake' /\ Stopping'
    BY <1>1, <1>2, <2>2
       DEF OpenOK, Handshake, Stopping, ErrorReported, stopVars, openVars
  <2>5. KqWatched'
    BY <1>1, <1>7 DEF KqWatched
  <2>6. QED
    BY <1>1, <1>4, <1>5, <2>1, <2>2, <2>3, <2>4, <2>5, Frame, Zenon
       DEF PollersInv, TypeOK, affVars, kqVars, wsVars
<1>8. QED
  BY <1>6, <1>7 DEF KqWatchWakes, CanWake

\* Watch of the WSAPoll poller: a new handle is the last entry of the poll set.
LEMMA WsWatchInv ==
  ASSUME PollersInv, WsWatch, run.platform = "wsapoll", UNCHANGED <<kqVars, openVars>>
  PROVE  PollersInv'
<1> DEFINE x == handle[loop.conn]
<1>1. /\ loop.pc = "watch" /\ loop' = [loop EXCEPT !.pc = "try"]
      /\ state' = [state EXCEPT ![loop.conn] = "open"]
      /\ UNCHANGED <<run, handle, used, can, eof, queue, early, budget, poller, events, chSignal,
                     done, affVars, stopVars, revents, kqVars, openVars>>
      /\ \/ x \in DOMAIN fdMap /\ UNCHANGED <<pollFds, fdMap, wake>>
         \/ /\ x \notin DOMAIN fdMap /\ pollFds' = Append(pollFds, x)
            /\ fdMap' = Extended(fdMap, x, Len(pollFds) + 1)
            /\ wake' = (wake \/ poller # "exit")
  BY DEF WsWatch, Wakeup, CanWake
<1>2. /\ ConnOK /\ LoopOK /\ SigOK /\ WsOK /\ HandlesOK /\ OpenOK /\ Handshake /\ Mailbox /\ Stopping
      /\ Indexed /\ WsWatched
  BY DEF PollersInv, TypeOK
<1>3. loop.conn \in Conn /\ x \in Handle /\ x \in Open
  BY <1>1, <1>2 DEF HandlesOK, ConnOK, Open
<1> HIDE DEF x
<1>4. /\ ConnOK' /\ state'[loop.conn] = "open"
      /\ \A d \in Conn : d # loop.conn => state'[d] = state[d]
  BY <1>1, <1>2, <1>3 DEF ConnOK
<1>5. LoopOK' /\ loop'.pc = "try" /\ loop'.conn = loop.conn
  BY <1>1, <1>2 DEF LoopOK
<1>6. SigOK' /\ Mailbox' /\ KqWatched'
  BY <1>1, <1>2, Zenon DEF SigOK, Mailbox, KqWatched, Event
<1>7. HandlesOK'
  BY <1>1, <1>2, <1>4, <1>5, <1>3, ScenariosAssumption DEF HandlesOK
<1>8. OpenOK' /\ Handshake' /\ Stopping'
  BY <1>1, <1>2, <1>5 DEF OpenOK, Handshake, Stopping, ErrorReported, stopVars, openVars
<1>9. WsOK' /\ Indexed' /\ DOMAIN fdMap' = DOMAIN fdMap \cup {x}
  <2>1. CASE x \in DOMAIN fdMap /\ UNCHANGED <<pollFds, fdMap>>
    BY <1>1, <1>2, <2>1, Zenon DEF WsOK, Indexed
  <2>2. CASE /\ x \notin DOMAIN fdMap /\ pollFds' = Append(pollFds, x)
             /\ fdMap' = Extended(fdMap, x, Len(pollFds) + 1)
    <3> DEFINE n == Len(pollFds)
    <3>1. /\ n \in Nat /\ DOMAIN pollFds = 1 .. n
          /\ pollFds' \in Seq(Handle) /\ DOMAIN pollFds' = 1 .. n + 1
          /\ pollFds'[n + 1] = x /\ \A i \in 1 .. n : pollFds'[i] = pollFds[i]
      BY <1>2, <1>3, <2>2 DEF WsOK
    <3> HIDE DEF n
    <3>2. /\ DOMAIN fdMap' = DOMAIN fdMap \cup {x} /\ fdMap'[x] = n + 1
          /\ \A y \in DOMAIN fdMap : fdMap'[y] = fdMap[y]
          /\ fdMap' \in [DOMAIN fdMap' -> Nat]
      BY <1>2, <2>2, <3>1 DEF Extended, n, WsOK
    <3>3. WsOK'
      BY <1>1, <1>2, <1>3, <3>1, <3>2 DEF WsOK
    <3>4. \A y \in DOMAIN fdMap' : fdMap'[y] \in DOMAIN pollFds' /\ pollFds'[fdMap'[y]] = y
      BY <1>2, <3>1, <3>2 DEF Indexed
    <3>5. \A i \in DOMAIN pollFds' : pollFds'[i] \in DOMAIN fdMap' /\ fdMap'[pollFds'[i]] = i
      <4>1. \A i \in 1 .. n : pollFds'[i] \in DOMAIN fdMap' /\ fdMap'[pollFds'[i]] = i
        BY <1>2, <3>1, <3>2 DEF Indexed
      <4>2. QED
        BY <3>1, <3>2, <4>1
    <3>6. QED
      BY <3>2, <3>3, <3>4, <3>5 DEF Indexed
  <2>3. QED
    BY <1>1, <2>1, <2>2
<1>10. WsWatched'
  <2>1. Open' = Open
    BY <1>1 DEF Open
  <2>2. QED
    BY <1>1, <1>2, <1>3, <1>4, <1>9, <2>1 DEF WsWatched, x
<1>11. QED
  BY <1>1, <1>4, <1>5, <1>6, <1>7, <1>8, <1>9, <1>10, Frame
     DEF PollersInv, TypeOK, affVars, stopVars, kqVars

\* The kernel forgets the filters of closed handles only.
Forgotten(X) ==
  /\ KqOK' /\ UNCHANGED <<watchQueue, changes>>
  /\ \A x \in Handle \ X : note'[x] = note[x]

\* So does a close, whether or not there is a kqueue.
LEMMA ClosedKq ==
  ASSUME KqOK, NEW X,
         \/ KqCloses(X) /\ UNCHANGED <<watchQueue, changes, bad>>
         \/ UNCHANGED kqVars
  PROVE  Forgotten(X)
BY DEF KqOK, KqCloses, Forgotten, kqVars

\* releaseConn.
LEMMA LoopReleaseInv ==
  ASSUME PollersInv, NEW c \in Conn, LoopRelease(c), UNCHANGED <<wsVars, openVars>>,
         Forgotten({handle[c]})
  PROVE  PollersInv'
<1>1. /\ loop.pc = "select" /\ state[c] = "open"
      /\ state' = [state EXCEPT ![c] = "gone"] /\ handle' = [handle EXCEPT ![c] = None]
      /\ queue' = [queue EXCEPT ![c] = [o \in Op |-> 0]]
      /\ early' = [early EXCEPT ![c] = {}] /\ can' = [can EXCEPT ![c] = Op]
      /\ UNCHANGED <<run, used, eof, budget, loop, poller, sigVars, affVars, stopVars,
                     wsVars, openVars>>
  BY Zenon DEF LoopRelease
<1>2. ConnOK /\ KqOK /\ HandlesOK /\ KqWatched /\ WsWatched
  BY DEF PollersInv, TypeOK
<1>3. /\ state' \in [Conn -> {"new", "open", "gone"}] /\ handle' \in [Conn -> Handle \cup {None}]
      /\ state'[c] = "gone" /\ handle'[c] = None
      /\ \A d \in Conn : d # c => state'[d] = state[d] /\ handle'[d] = handle[d]
  BY <1>1, <1>2 DEF ConnOK
<1>4. queue' \in [Conn -> [Op -> Nat]]
  <2>1. [o \in Op |-> 0] \in [Op -> Nat]
    OBVIOUS
  <2>2. QED
    BY <1>1, <1>2, <2>1 DEF ConnOK
<1>5. ConnOK'
  BY <1>1, <1>2, <1>3, <1>4 DEF ConnOK
<1>6. HandlesOK'
  BY <1>1, <1>2, <1>3 DEF HandlesOK
<1>7. KqOK'
  BY DEF Forgotten
<1>8. KqWatched'
  <2> SUFFICES ASSUME run.platform = "kqueue", poller # "exit", NEW d \in Conn, Accepted(d)'
               PROVE  Submitted(handle[d])' /\ handle'[d] = handle[d]
    BY <1>1, Zenon DEF KqWatched, Submitted
  <2>1. d # c /\ state[d] = "open"
    BY <1>1, <1>3 DEF Accepted
  <2>2. handle'[d] = handle[d] /\ handle[d] \in Handle /\ handle[d] # handle[c]
    BY <1>1, <1>2, <1>3, <2>1 DEF HandlesOK, ConnOK
  <2>3. Submitted(handle[d])
    BY <1>2, <2>1 DEF KqWatched, Accepted
  <2>4. note'[handle[d]] = note[handle[d]]
    BY <2>2, Zenon DEF Forgotten
  <2>5. UNCHANGED <<watchQueue, changes, poller>>
    BY <1>1, Zenon DEF Forgotten
  <2>6. QED
    BY <2>2, <2>3, <2>4, <2>5, Zenon DEF Submitted
<1>9. WsWatched'
  <2>1. Open' \subseteq Open
    BY <1>3, Zenon DEF Open
  <2>2. QED
    BY <1>1, <1>2, <1>3, <2>1, Zenon DEF WsWatched, wsVars
<1>10. QED
  BY <1>1, <1>5, <1>6, <1>7, <1>8, <1>9, Frame
     DEF PollersInv, TypeOK, sigVars, affVars, wsVars, openVars

\* The deferred cleanup of the loop.
LEMMA LoopExitInv ==
  ASSUME PollersInv, LoopExit, UNCHANGED <<wsVars, openVars>>, KqOK'
  PROVE  PollersInv'
<1>1. /\ loop.pc = "exit"
      /\ loop' = [loop EXCEPT !.pc = "done", !.conn = None, !.op = "read", !.todo = {}]
      /\ state' = [c \in Conn |-> IF state[c] = "open" THEN "gone" ELSE state[c]]
      /\ handle' = [c \in Conn |-> None]
      /\ queue' = [c \in Conn |-> [o \in Op |-> 0]] /\ early' = [c \in Conn |-> {}]
      /\ UNCHANGED <<run, used, can, eof, budget, poller, sigVars, affVars, stopVars, wsVars, openVars>>
  BY DEF LoopExit
<1>2. ConnOK /\ LoopOK /\ OpenOK /\ Handshake /\ Stopping /\ WsWatched
  BY DEF PollersInv, TypeOK
<1>3. /\ state' \in [Conn -> {"new", "open", "gone"}] /\ handle' \in [Conn -> Handle \cup {None}]
      /\ \A d \in Conn : state'[d] # "open" /\ handle'[d] = None
  BY <1>1, <1>2 DEF ConnOK
<1>4. queue' \in [Conn -> [Op -> Nat]]
  <2>1. [o \in Op |-> 0] \in [Op -> Nat]
    OBVIOUS
  <2>2. QED
    BY <1>1, <2>1
<1>5. ConnOK'
  BY <1>1, <1>2, <1>3, <1>4 DEF ConnOK
<1>6. LoopOK' /\ loop'.pc = "done"
  BY <1>1, <1>2, Zenon DEF LoopOK, Op
<1>7. HandlesOK'
  BY <1>3, <1>6 DEF HandlesOK
<1>8. OpenOK' /\ Handshake' /\ Stopping'
  BY <1>1, <1>2, <1>6
     DEF OpenOK, Handshake, Stopping, ErrorReported, sigVars, stopVars, openVars
<1>9. KqWatched'
  BY <1>3, <1>6 DEF KqWatched, Accepted
<1>10. WsWatched'
  <2>1. Open' = {}
    BY <1>3 DEF Open
  <2>2. QED
    BY <1>1, <1>2, <1>3, <2>1 DEF WsWatched, wsVars
<1>11. QED
  BY <1>1, <1>5, <1>6, <1>7, <1>8, <1>9, <1>10, Frame
     DEF PollersInv, TypeOK, sigVars, affVars, wsVars

\* What the peers do.
LEMMA PeerInv ==
  ASSUME PollersInv, NEW c \in Conn, PeerCloses(c) \/ \E o \in Op : PeerEnables(c, o),
         UNCHANGED <<wsVars, openVars>>,
         UNCHANGED active \/ \E F : KqTriggers(c, F), UNCHANGED <<watchQueue, changes, bad, note>>
  PROVE  PollersInv'
<1>1. /\ UNCHANGED <<run, state, handle, used, queue, early, budget, loop, poller, sigVars, affVars,
                     stopVars, wsVars, openVars>>
      /\ UNCHANGED eof \/ eof' = [eof EXCEPT ![c] = TRUE]
      /\ \E S \in SUBSET Op : can' = [can EXCEPT ![c] = S]
  <2>1. ConnOK
    BY DEF PollersInv, TypeOK
  <2>2. can[c] \subseteq Op
    BY <2>1 DEF ConnOK
  <2>3. QED
    BY <2>2, Zenon DEF PeerCloses, PeerEnables
<1>2. ConnOK'
  <2>1. ConnOK
    BY DEF PollersInv, TypeOK
  <2>2. QED
    BY <1>1, <2>1, ZenonT(30) DEF ConnOK
<1>3. KqOK'
  <2>1. KqOK
    BY DEF PollersInv, TypeOK
  <2>2. active' \in [Handle -> SUBSET Op]
    BY <2>1 DEF KqOK, KqTriggers
  <2>3. QED
    BY <2>1, <2>2 DEF KqOK
<1>4. QED
  BY <1>1, <1>2, <1>3, Frame DEF PollersInv, TypeOK, sigVars, affVars, stopVars, wsVars, openVars

-----------------------------------------------------------------------------
(* The kqueue poller.                                                      *)

\* Its steps are not visible to the loop, except through the channel and the
\* acknowledgement.
LEMMA KqPollerRest ==
  ASSUME KqPoller
  PROVE  UNCHANGED <<connVars, loop, setter, stopVars>>
BY Zenon DEF KqPoller, KqTop, KqLoadCPU, KqClearCPU, KqApply, KqReturn, KqInterrupted, KqSend, KqAck,
       KqExit, LoadCPU, ClearCPU, PollerSend, PollerAck, affVars

\* Types, and the exchange of batches.
LEMMA KqPollerType ==
  ASSUME PollersInv, KqPoller
  PROVE  SigOK' /\ KqOK' /\ Handshake' /\ poller # "off" /\ poller' # "off"
         /\ cpuid' \in {cpuid, None}
<1>1. ConnOK /\ SigOK /\ KqOK /\ Handshake
  BY DEF PollersInv, TypeOK
<1>2. UNCHANGED <<connVars, loop>>
  BY KqPollerRest
<1> USE DEF Goto
<1>3. CASE KqTop
  BY <1>1, <1>3 DEF KqTop, SigOK, KqOK, Handshake, sigVars, affVars, Event
<1>4. CASE KqLoadCPU
  BY <1>1, <1>4 DEF KqLoadCPU, LoadCPU, SigOK, KqOK, Handshake, sigVars, affVars, kqVars, Event
<1>5. CASE KqClearCPU
  BY <1>1, <1>5 DEF KqClearCPU, ClearCPU, SigOK, KqOK, Handshake, sigVars, kqVars, Event
<1>6. CASE KqApply
  <2>1. KqOK'
    <3>1. \A x \in Open : can[Owner(x)] \subseteq Op
      BY <1>1, OwnerIs DEF ConnOK
    <3>2. note' \in [Handle -> SUBSET Op]
      BY <1>1, <1>6, Zenon DEF KqApply, KqOK
    <3>3. active' \in [Handle -> SUBSET Op]
      <4>1. \A x \in Handle :
              (IF x \in changes \cap Open THEN active[x] \cup can[Owner(x)] ELSE active[x]) \in SUBSET Op
        BY <1>1, <3>1 DEF KqOK
      <4>2. QED
        BY <1>6, <4>1, Zenon DEF KqApply
    <3>4. QED
      BY <1>1, <1>6, <3>2, <3>3, Zenon DEF KqApply, KqOK
  <2>2. QED
    BY <1>1, <1>6, <2>1 DEF KqApply, SigOK, Handshake, sigVars, affVars, Event
<1>7. CASE KqReturn
  <2>1. KqOK'
    BY <1>1, <1>7, Zenon DEF KqReturn, KqOK
  <2>2. events' \subseteq Event
    <3>1. \A x \in Handle : \A o \in Triggered(x) : KqEvent(x, o) \in Event
      <4> SUFFICES ASSUME NEW x \in Handle, NEW o \in Triggered(x) PROVE KqEvent(x, o) \in Event
        OBVIOUS
      <4>1. o \in Op
        BY <1>1 DEF Triggered, KqOK
      <4>2. QED
        BY <4>1 DEF KqEvent, Event
    <3>2. \A x \in bad : [ident |-> x, ev |-> Op] \in Event
      BY <1>1 DEF KqOK, Event
    <3>3. events \subseteq Event
      BY <1>1 DEF SigOK
    <3>4. events' = events \cup {[ident |-> x, ev |-> Op] : x \in bad}
                           \cup UNION {{KqEvent(x, o) : o \in Triggered(x)} : x \in Handle}
      BY <1>7 DEF KqReturn
    <3> HIDE DEF Goto
    <3>5. QED
      BY <3>1, <3>2, <3>3, <3>4
  <2>3. QED
    BY <1>1, <1>7, <2>1, <2>2, Zenon DEF KqReturn, SigOK, Handshake, affVars
<1>8. CASE KqInterrupted
  BY <1>1, <1>8 DEF KqInterrupted, SigOK, KqOK, Handshake, sigVars, affVars, Event
<1>9. CASE KqSend
  BY <1>1, <1>9 DEF KqSend, PollerSend, SigOK, KqOK, Handshake, affVars, kqVars, Event
<1>10. CASE KqAck
  BY <1>1, <1>10, Zenon DEF KqAck, PollerAck, SigOK, KqOK, Handshake, affVars, kqVars, Event
<1>11. CASE KqExit
  BY <1>1, <1>11, Zenon DEF KqExit, SigOK, KqOK, Handshake, sigVars, affVars, Event
<1>12. QED
  BY <1>3, <1>4, <1>5, <1>6, <1>7, <1>8, <1>9, <1>10, <1>11 DEF KqPoller

\* A queued handle stays on its way, and is registered when the change list is
\* given up.
LEMMA KqPollerWatched ==
  ASSUME PollersInv, KqPoller, run.platform = "kqueue"
  PROVE  KqWatched'
<1>1. ConnOK /\ KqOK /\ HandlesOK /\ KqWatched
  BY DEF PollersInv, TypeOK
<1>2. UNCHANGED <<connVars, loop>>
  BY KqPollerRest
<1> SUFFICES ASSUME poller # "exit", poller' # "exit", NEW x \in Open, Submitted(x)
             PROVE  Submitted(x)'
  <2>1. poller' # "exit" => poller # "exit"
    BY DEF KqPoller, KqTop, KqLoadCPU, KqClearCPU, KqApply, KqReturn, KqInterrupted, KqSend, KqAck,
           KqExit, LoadCPU, ClearCPU, PollerAck, Goto
  <2>2. \A c \in Conn : Accepted(c)' => Accepted(c) /\ handle'[c] = handle[c] /\ handle[c] \in Open
    BY <1>1, <1>2, Zenon DEF Accepted, HandlesOK, Open, connVars
  <2>3. \A c \in Conn : Accepted(c)' /\ poller' # "exit" => Submitted(handle[c])'
    BY <1>1, <1>2, <2>1, <2>2 DEF KqWatched, connVars
  <2>4. QED
    BY <2>3 DEF KqWatched
<1>4. x \in Handle
  BY <1>1 DEF ConnOK, Open
<1>6. CASE KqTop
  BY <1>6 DEF KqTop, Submitted, Goto
<1>7. CASE KqLoadCPU \/ KqClearCPU \/ KqSend \/ KqAck
  BY <1>7 DEF KqLoadCPU, LoadCPU, KqClearCPU, ClearCPU, KqSend, KqAck, PollerAck,
                          Submitted, Goto, kqVars
<1>8. CASE KqApply
  BY <1>4, <1>8, Zenon DEF KqApply, Submitted, Goto
<1>9. CASE KqReturn
  BY <1>9, Zenon DEF KqReturn, Submitted, Goto
<1>10. CASE KqInterrupted
  BY <1>10, Zenon DEF KqInterrupted, Submitted, Goto
<1>11. CASE KqExit
  BY <1>11 DEF KqExit, Goto
<1>12. QED
  BY <1>6, <1>7, <1>8, <1>9, <1>10, <1>11 DEF KqPoller

\* The mailbox is looked at after every return of kevent.
LEMMA KqPollerMailbox ==
  ASSUME PollersInv, KqPoller
  PROVE  Mailbox'
<1>1. Mailbox
  BY DEF PollersInv
<1>2. UNCHANGED <<connVars, setter>>
  BY KqPollerRest
<1>3. CASE KqTop \/ KqReturn \/ KqInterrupted \/ KqSend \/ KqAck \/ KqExit
  BY <1>3, Zenon DEF KqTop, KqReturn, KqInterrupted, KqSend, KqAck, PollerAck, KqExit, Mailbox, Goto
<1>4. CASE KqLoadCPU
  BY <1>1, <1>2, <1>4 DEF KqLoadCPU, LoadCPU, Mailbox, Goto, affVars
<1>5. CASE KqClearCPU
  BY <1>5 DEF KqClearCPU, ClearCPU, Mailbox
<1>6. CASE KqApply
  BY <1>1, <1>2, <1>6, Zenon DEF KqApply, Mailbox, Goto, affVars, sigVars, connVars
<1>7. QED
  BY <1>3, <1>4, <1>5, <1>6 DEF KqPoller

\* Every step of the kqueue poller.
LEMMA KqPollerInv ==
  ASSUME PollersInv, KqPoller, run.platform = "kqueue", UNCHANGED <<wsVars, openVars>>
  PROVE  PollersInv'
<1>1. UNCHANGED <<connVars, loop, setter, stopVars>>
  BY KqPollerRest
<1>2. UsersOK'
  BY KqPollerType, <1>1 DEF PollersInv, TypeOK, UsersOK, stopVars
<1>3. WsOK'
  <2>1. DOMAIN revents = {}
    BY DEF PollersInv, TypeOK, WsOK
  <2>2. QED
    BY <2>1 DEF PollersInv, TypeOK, WsOK, wsVars
<1>4. OpenOK'
  BY KqPollerType DEF PollersInv, OpenOK, openVars
<1>5. QED
  BY <1>1, <1>2, <1>3, <1>4, KqPollerType, KqPollerWatched, KqPollerMailbox, Frame, Zenon
     DEF PollersInv, TypeOK, connVars, wsVars, openVars

-----------------------------------------------------------------------------
(* The WSAPoll poller.                                                     *)

\* Its steps are not visible to the loop either.
LEMMA WsPollerRest ==
  ASSUME WsPoller
  PROVE  UNCHANGED <<connVars, loop, setter, stopVars>>
BY Zenon DEF WsPoller, WsTop, WsPoll, WsLoadCPU, WsClearCPU, WsDrain, WsUnwatch, WsBuild, WsSend, WsAck,
       WsFails, WsSendError, WsExit, LoadCPU, ClearCPU, PollerSend, PollerAck, affVars

\* Types, and the exchange of batches.
LEMMA WsPollerType ==
  ASSUME PollersInv, WsPoller
  PROVE  SigOK' /\ Handshake' /\ poller # "off" /\ poller' # "off" /\ cpuid' \in {cpuid, None}
<1>1. SigOK /\ WsOK /\ Handshake
  BY DEF PollersInv, TypeOK
<1>2. UNCHANGED <<connVars, loop>>
  BY WsPollerRest
<1> USE DEF Goto, SigOK, Handshake, Event
<1>3. CASE WsTop
  BY <1>1, <1>3 DEF WsTop, sigVars, affVars
<1>4. CASE WsPoll
  <2>1. poller = "poll" /\ poller' \in {"affinity", "top"} /\ UNCHANGED <<loop, sigVars, affVars>>
    BY <1>4, Zenon DEF WsPoll
  <2>2. QED
    BY <1>1, <2>1 DEF sigVars, affVars
<1>5. CASE WsLoadCPU
  BY <1>1, <1>5 DEF WsLoadCPU, LoadCPU, sigVars, affVars
<1>6. CASE WsClearCPU
  BY <1>1, <1>6 DEF WsClearCPU, ClearCPU, sigVars
<1>7. CASE WsDrain
  BY <1>1, <1>7 DEF WsDrain, affVars
<1>8. CASE WsUnwatch
  BY <1>1, <1>8 DEF WsUnwatch, sigVars, affVars
<1>9. CASE WsBuild
  <2>1. events' \subseteq Event
    <3>1. \A x \in DOMAIN revents : x \in Handle /\ revents[x] \subseteq Op
      BY <1>1, <1>9 DEF WsBuild, WsOK, Invalid
    <3>2. \A x \in DOMAIN revents : [ident |-> x, ev |-> revents[x]] \in Event
      BY <3>1
    <3>3. events' = {[ident |-> x, ev |-> revents[x]] : x \in {y \in DOMAIN revents : revents[y] # {}}}
      BY <1>9 DEF WsBuild
    <3> HIDE DEF Event
    <3>4. QED
      BY <3>2, <3>3
  <2>2. /\ poller = "build" /\ poller' \in {"top", "send"}
        /\ UNCHANGED <<loop, chSignal, done, wake, affVars>>
    BY <1>9 DEF WsBuild
  <2>3. QED
    BY <1>1, <2>1, <2>2 DEF affVars
<1>10. CASE WsSend
  BY <1>1, <1>10 DEF WsSend, PollerSend, affVars
<1>11. CASE WsAck
  BY <1>1, <1>11, Zenon DEF WsAck, PollerAck, affVars
<1>12. CASE WsFails
  BY <1>1, <1>12 DEF WsFails, sigVars, affVars
<1>13. CASE WsSendError
  BY <1>1, <1>13 DEF WsSendError, PollerSend, affVars
<1>14. CASE WsExit
  BY <1>1, <1>14 DEF WsExit, sigVars, affVars
<1>15. QED
  BY <1>3, <1>4, <1>5, <1>6, <1>7, <1>8, <1>9, <1>10, <1>11, <1>12, <1>13, <1>14, Zenon DEF WsPoller

\* unwatch: the last entry takes the place of the removed one, in the poll set
\* and in its index.
LEMMA UnwatchIndexed ==
  ASSUME WsOK, Indexed, NEW x \in DOMAIN fdMap, Unwatch(x)
  PROVE  /\ Indexed' /\ pollFds' \in Seq(Handle)
         /\ DOMAIN fdMap' = DOMAIN fdMap \ {x} /\ fdMap' \in [DOMAIN fdMap' -> Nat]
<1> DEFINE n == Len(pollFds)
           k == fdMap[x]
           last == pollFds[n]
<1>1. /\ n \in Nat /\ DOMAIN pollFds = 1 .. n /\ pollFds \in Seq(Handle)
      /\ k \in 1 .. n /\ pollFds[k] = x /\ \A i \in 1 .. n : pollFds[i] \in Handle
  BY DEF WsOK, Indexed
<1>2. n > 0 /\ n \in 1 .. n /\ n - 1 \in Nat
  BY <1>1
<1>3. last \in DOMAIN fdMap /\ fdMap[last] = n /\ last \in Handle
  BY <1>1, <1>2 DEF Indexed
<1>4. /\ pollFds' = SubSeq([pollFds EXCEPT ![k] = last], 1, n - 1)
      /\ fdMap' = Without(Extended(fdMap, last, k), x)
  BY DEF Unwatch
<1> HIDE DEF n, k, last
<1>5. /\ pollFds' \in Seq(Handle) /\ DOMAIN pollFds' = 1 .. n - 1
      /\ \A i \in 1 .. n - 1 : pollFds'[i] = IF i = k THEN last ELSE pollFds[i]
  <2> DEFINE s == [pollFds EXCEPT ![k] = last]
  <2>1. s \in Seq(Handle) /\ Len(s) = n /\ \A i \in 1 .. n : s[i] = IF i = k THEN last ELSE pollFds[i]
    BY <1>1, <1>3 DEF n
  <2> HIDE DEF s
  <2>2. /\ SubSeq(s, 1, n - 1) \in Seq(Handle) /\ Len(SubSeq(s, 1, n - 1)) = n - 1
        /\ \A i \in 1 .. n - 1 : SubSeq(s, 1, n - 1)[i] = s[i]
    BY <1>1, <1>2, <2>1
  <2>3. pollFds' = SubSeq(s, 1, n - 1)
    BY <1>4 DEF s
  <2>4. QED
    BY <1>1, <1>2, <2>1, <2>2, <2>3, SMTT(30)
<1>6. /\ DOMAIN fdMap' = DOMAIN fdMap \ {x}
      /\ \A y \in DOMAIN fdMap' : fdMap'[y] = IF y = last THEN k ELSE fdMap[y]
      /\ fdMap' \in [DOMAIN fdMap' -> Nat]
  <2>1. DOMAIN fdMap' = DOMAIN fdMap \ {x}
    BY <1>3, <1>4 DEF Without, Extended
  <2>2. \A y \in DOMAIN fdMap' : fdMap'[y] = IF y = last THEN k ELSE fdMap[y]
    BY <1>4, <2>1 DEF Without, Extended
  <2>3. \A y \in DOMAIN fdMap : fdMap[y] \in Nat
    BY DEF WsOK
  <2>4. QED
    BY <1>1, <1>4, <2>1, <2>2, <2>3, SMTT(30) DEF Without
<1>7. \A y \in DOMAIN fdMap' : fdMap'[y] \in DOMAIN pollFds' /\ pollFds'[fdMap'[y]] = y
  <2> SUFFICES ASSUME NEW y \in DOMAIN fdMap'
               PROVE  fdMap'[y] \in DOMAIN pollFds' /\ pollFds'[fdMap'[y]] = y
    OBVIOUS
  <2>1. y \in DOMAIN fdMap /\ y # x /\ fdMap[y] \in 1 .. n /\ pollFds[fdMap[y]] = y
    BY <1>1, <1>6 DEF Indexed
  <2>2. fdMap[y] # k
    BY <1>1, <2>1
  <2>3. CASE y = last
    <3>1. k # n
      BY <1>1, <1>3, <2>1, <2>2, <2>3
    <3>2. k \in 1 .. n - 1
      BY <1>1, <3>1
    <3>3. QED
      BY <1>5, <1>6, <2>3, <3>2
  <2>4. CASE y # last
    <3>1. fdMap[y] # n
      BY <2>1, <2>4 DEF last
    <3>2. fdMap[y] \in 1 .. n - 1
      BY <1>1, <2>1, <3>1
    <3>3. QED
      BY <1>5, <1>6, <2>1, <2>2, <2>4, <3>2
  <2>5. QED
    BY <2>3, <2>4
<1>8. \A i \in DOMAIN pollFds' : pollFds'[i] \in DOMAIN fdMap' /\ fdMap'[pollFds'[i]] = i
  <2> SUFFICES ASSUME NEW i \in 1 .. n - 1
               PROVE  pollFds'[i] \in DOMAIN fdMap' /\ fdMap'[pollFds'[i]] = i
    BY <1>5
  <2>1. i \in 1 .. n /\ i # n /\ pollFds[i] \in DOMAIN fdMap /\ fdMap[pollFds[i]] = i
    BY <1>1 DEF Indexed
  <2>2. CASE i = k
    <3>1. last # x
      BY <1>1, <1>3, <2>1, <2>2 DEF k
    <3>2. QED
      BY <1>3, <1>5, <1>6, <2>2, <3>1
  <2>3. CASE i # k
    <3>1. pollFds[i] # x /\ pollFds[i] # last
      BY <1>3, <2>1, <2>3 DEF k
    <3>2. QED
      BY <1>5, <1>6, <2>1, <2>3, <3>1
  <2>4. QED
    BY <2>2, <2>3
<1>9. QED
  BY <1>5, <1>6, <1>7, <1>8 DEF Indexed

\* What the poll set, its index and the snapshot hold after a step.
LEMMA WsPollerMaps ==
  ASSUME PollersInv, WsPoller, run.platform = "wsapoll"
  PROVE  WsOK' /\ Indexed' /\ WsWatched'
<1>1. ConnOK /\ WsOK /\ Indexed /\ WsWatched /\ None \notin Handle
  BY ScenariosAssumption DEF PollersInv, TypeOK
<1>2. UNCHANGED connVars /\ run' = run /\ Open' = Open
  BY WsPollerRest DEF connVars, Open
<1> USE DEF Goto
<1>3. ASSUME UNCHANGED <<pollFds, fdMap, revents>>,
             None \in DOMAIN revents => poller' \in {"affinity", "clear", "drain"}
      PROVE  WsOK' /\ Indexed' /\ WsWatched'
  BY <1>1, <1>2, <1>3, Zenon DEF WsOK, Indexed, WsWatched, connVars
<1>4. ASSUME UNCHANGED <<pollFds, fdMap>>, DOMAIN revents' = {}, revents' = <<>>
      PROVE  WsOK' /\ Indexed' /\ WsWatched'
  <2>1. revents' \in [DOMAIN revents' -> (SUBSET Op) \cup {{"invalid"}}]
    BY <1>4
  <2>2. QED
    BY <1>1, <1>2, <1>4, <2>1 DEF WsOK, Indexed, WsWatched, connVars
<1>5. CASE WsTop
  <2>1. UNCHANGED <<pollFds, fdMap>> /\ revents' = [x \in DOMAIN fdMap |-> {}] /\ poller' = "poll"
    BY <1>5 DEF WsTop
  <2>2. DOMAIN revents' = DOMAIN fdMap /\ \A x \in DOMAIN revents' : revents'[x] = {}
    BY <2>1
  <2>3. revents' \in [DOMAIN revents' -> (SUBSET Op) \cup {{"invalid"}}]
    BY <2>1
  <2>4. WsOK'
    BY <1>1, <1>2, <2>1, <2>2, <2>3 DEF WsOK
  <2>5. WsWatched'
    BY <1>1, <1>2, <2>1, <2>2 DEF WsWatched, WsOK, connVars
  <2>6. QED
    BY <1>1, <2>1, <2>4, <2>5, Zenon DEF Indexed
<1>6. CASE WsPoll
  <2> DEFINE found == [x \in DOMAIN revents |-> Reported(x)]
             byte == IF wake THEN {"read"} ELSE {}
  <2>1. CASE revents' = <<>> /\ UNCHANGED <<pollFds, fdMap>>
    BY <1>4, <2>1
  <2>2. CASE /\ revents' = Extended(found, None, byte) /\ UNCHANGED <<pollFds, fdMap>>
             /\ poller' = "affinity"
    <3>1. \A x \in DOMAIN revents : Reported(x) \in (SUBSET Op) \cup {{"invalid"}}
      BY <1>1, OwnerIs DEF Reported, ConnOK
    <3>2. \A x \in DOMAIN revents : Reported(x) = {"invalid"} => x \notin Open
      <4>1. "invalid" \notin Op
        BY DEF Op
      <4>2. \A x \in Open : Reported(x) \subseteq Op
        BY <1>1, OwnerIs DEF Reported, ConnOK
      <4>3. QED
        BY <4>1, <4>2
    <3>3. /\ DOMAIN revents' = DOMAIN revents \cup {None} /\ revents'[None] = byte
          /\ \A x \in DOMAIN revents : x # None => revents'[x] = Reported(x)
          /\ revents' \in [DOMAIN revents' -> (SUBSET Op) \cup {{"invalid"}}]
      <4>1. byte \in SUBSET Op /\ byte # {"invalid"}
        BY DEF Op
      <4> HIDE DEF byte
      <4>2. DOMAIN found = DOMAIN revents /\ \A x \in DOMAIN revents : found[x] = Reported(x)
        OBVIOUS
      <4> HIDE DEF found
      <4>3. revents' = [y \in DOMAIN revents \cup {None} |-> IF y = None THEN byte ELSE found[y]]
        BY <2>2, <4>2 DEF Extended
      <4>4. QED
        BY <3>1, <4>1, <4>2, <4>3
    <3>4. byte \in SUBSET Op /\ byte # {"invalid"}
      BY DEF Op
    <3> HIDE DEF byte, found
    <3>5. WsOK'
      BY <1>1, <1>2, <2>2, <3>3, <3>4 DEF WsOK
    <3>6. WsWatched'
      BY <1>1, <1>2, <2>2, <3>2, <3>3, <3>4 DEF WsWatched, connVars
    <3>7. QED
      BY <1>1, <2>2, <3>5, <3>6, Zenon DEF Indexed
  <2>3. QED
    BY <1>6, <2>1, <2>2, Zenon DEF WsPoll
<1>7. CASE WsLoadCPU \/ WsClearCPU
  BY <1>3, <1>7 DEF WsLoadCPU, WsClearCPU, LoadCPU, ClearCPU, wsVars
<1>8. CASE WsDrain
  <2>1. UNCHANGED <<pollFds, fdMap>> /\ revents' = Without(revents, None)
    BY <1>8 DEF WsDrain
  <2>2. /\ DOMAIN revents' = DOMAIN revents \ {None}
        /\ \A x \in DOMAIN revents' : revents'[x] = revents[x]
        /\ revents' \in [DOMAIN revents' -> (SUBSET Op) \cup {{"invalid"}}]
    BY <1>1, <2>1 DEF Without, WsOK
  <2>3. QED
    BY <1>1, <1>2, <2>1, <2>2, Zenon DEF WsOK, Indexed, WsWatched, connVars
<1>9. CASE WsUnwatch
  <2>1. PICK x \in Invalid : Unwatch(x) /\ revents' = Without(revents, x) /\ poller' = poller
    BY <1>9 DEF WsUnwatch
  <2>2. /\ x \in DOMAIN revents /\ revents[x] = {"invalid"} /\ x \in Handle
    BY <1>1, <1>9 DEF WsUnwatch, WsOK, Invalid
  <2>3. /\ DOMAIN revents' = DOMAIN revents \ {x}
        /\ \A y \in DOMAIN revents' : revents'[y] = revents[y]
        /\ revents' \in [DOMAIN revents' -> (SUBSET Op) \cup {{"invalid"}}]
    BY <1>1, <2>1 DEF Without, WsOK
  <2>4. /\ Indexed' /\ pollFds' \in Seq(Handle)
        /\ DOMAIN fdMap' = DOMAIN fdMap \ {x} /\ fdMap' \in [DOMAIN fdMap' -> Nat]
    <3>1. CASE x \in DOMAIN fdMap
      BY <1>1, <2>1, <3>1, UnwatchIndexed, Zenon
    <3>2. CASE x \notin DOMAIN fdMap
      <4>1. pollFds' = pollFds /\ fdMap' = fdMap
        BY <2>1, <3>2 DEF Unwatch
      <4>2. QED
        <5>1. DOMAIN fdMap \ {x} = DOMAIN fdMap
          BY <3>2
        <5>2. Indexed'
          BY <1>1, <4>1 DEF Indexed
        <5>3. QED
          BY <1>1, <4>1, <5>1, <5>2 DEF WsOK
    <3>3. QED
      BY <3>1, <3>2
  <2>5. WsOK'
    BY <1>1, <1>2, <2>1, <2>2, <2>3, <2>4, Zenon DEF WsOK
  <2>6. WsWatched'
    <3> SUFFICES ASSUME "reuse" \notin run.env PROVE WsWatched'
      BY <1>2, Zenon DEF WsWatched
    <3>1. x \notin Open
      BY <1>1, <2>2 DEF WsWatched
    <3>2. \A c \in Conn : state[c] = "open" => handle[c] \in DOMAIN fdMap /\ handle[c] \in Open
      BY <1>1, Zenon DEF WsWatched, Open, PollersInv, HandlesOK
    <3>3. QED
      BY <1>1, <1>2, <2>3, <2>4, <3>1, <3>2 DEF WsWatched, connVars
  <2>7. QED
    BY <2>4, <2>5, <2>6
<1>10. CASE WsBuild \/ WsFails \/ WsExit
  <2>1. UNCHANGED <<pollFds, fdMap>> /\ revents' = <<>>
    BY <1>10, Zenon DEF WsBuild, WsFails, WsExit
  <2>2. QED
    BY <1>4, <2>1
<1>11. CASE WsSend \/ WsAck \/ WsSendError
  <2>1. UNCHANGED <<pollFds, fdMap, revents>> /\ None \notin DOMAIN revents
    BY <1>1, <1>11 DEF WsSend, WsAck, PollerAck, WsSendError, wsVars, WsOK
  <2>2. QED
    BY <1>3, <2>1
<1>12. QED
  BY <1>5, <1>6, <1>7, <1>8, <1>9, <1>10, <1>11 DEF WsPoller

\* Every step of the WSAPoll poller.
LEMMA WsPollerInv ==
  ASSUME PollersInv, WsPoller, run.platform = "wsapoll", UNCHANGED <<kqVars, openVars>>
  PROVE  PollersInv'
<1>1. UNCHANGED <<connVars, loop, setter, stopVars>>
  BY WsPollerRest
<1>2. UsersOK'
  BY WsPollerType, <1>1 DEF PollersInv, TypeOK, UsersOK, stopVars
<1>3. Mailbox' /\ KqWatched'
  BY <1>1 DEF Mailbox, KqWatched, connVars
<1>4. OpenOK'
  BY WsPollerType DEF PollersInv, OpenOK, openVars
<1>5. QED
  BY <1>1, <1>2, <1>3, <1>4, WsPollerType, WsPollerMaps, Frame, Zenon
     DEF PollersInv, TypeOK, connVars, kqVars, openVars

-----------------------------------------------------------------------------
(* The theorems.                                                           *)

\* openPoll: poller and loop start together, at the end.
LEMMA OpenStepInv ==
  ASSUME PollersInv, OpenStep \/ AcceptFails, run.platform = "wsapoll", UNCHANGED <<kqVars, wsVars>>
  PROVE  PollersInv'
<1>1. LoopOK /\ SigOK /\ WsOK /\ HandlesOK /\ OpenOK /\ Handshake /\ Stopping
  BY DEF PollersInv, TypeOK
<1>2. UNCHANGED <<connVars, sigVars, affVars, stopVars, kqVars, wsVars>>
  BY Zenon DEF OpenStep, Listen, Dial, Accept, AcceptFails, DialResult, PairFails, PairDone, DialedCollected, Duplicate,
         OpenRest
<1>3. CASE UNCHANGED <<loop, poller>> /\ (setup # "opened" \/ setup' = setup)
  <2>1. OpenOK'
    BY <1>1, <1>3 DEF OpenOK
  <2>2. QED
    BY <1>2, <1>3, <2>1, Frame, Zenon DEF PollersInv, TypeOK, connVars, sigVars, affVars, kqVars, wsVars
<1>4. CASE setup = "check" /\ setup' = "opened" /\ loop' = AtSelect /\ poller' = "top"
  <2>1. loop.pc = "off" /\ poller = "off"
    BY <1>1, <1>4 DEF OpenOK
  <2>2. LoopOK' /\ loop'.pc = "select"
    BY <1>4, Zenon DEF LoopOK, AtSelect, Op, Event
  <2>3. SigOK' /\ WsOK'
    BY <1>1, <1>2, <1>4, <2>1 DEF SigOK, WsOK, sigVars, wsVars, connVars, Event
  <2>4. HandlesOK'
    BY <1>1, <1>2, <2>1, <2>2, Zenon DEF HandlesOK, connVars
  <2>5. OpenOK' /\ Handshake' /\ Stopping'
    BY <1>1, <1>2, <1>4, <2>1, <2>2
       DEF OpenOK, Handshake, Stopping, ErrorReported, sigVars, stopVars
  <2>6. Mailbox' /\ KqWatched'
    BY <1>2 DEF Mailbox, KqWatched, connVars
  <2>7. QED
    BY <1>2, <2>2, <2>3, <2>4, <2>5, <2>6, Frame, Zenon DEF PollersInv, TypeOK, connVars, kqVars, wsVars
<1>5. QED
  <2>1. CASE PairDone
    BY <1>3, <1>4, <2>1 DEF PairDone
  <2>2. CASE Listen \/ Dial \/ Accept \/ AcceptFails \/ DialResult \/ PairFails \/ DialedCollected
    BY <1>3, <2>2 DEF Listen, Dial, Accept, AcceptFails, DialResult, PairFails, DialedCollected, OpenRest
  <2>3. CASE \/ Duplicate("accepted", "reader", "reader", "writer")
             \/ Duplicate("dialed", "writer", "writer", "check")
    BY <1>3, <2>3 DEF Duplicate, OpenRest
  <2>4. QED
    BY <2>1, <2>2, <2>3 DEF OpenStep

\* newPoller: nothing is open, watched, queued or reported.
LEMMA StartInv ==
  ASSUME Start
  PROVE  PollersInv
<1>1. run \in [platform : {"kqueue", "wsapoll"}, conns : SUBSET Conn, env : SUBSET Fault,
               reqs : Nat, cpus : Nat]
  BY ScenariosAssumption DEF Start, Init
<1>2. ConnOK
  BY <1>1 DEF Start, Init, ConnOK, Op
<1>3. LoopOK /\ SigOK /\ loop.pc \in {"off", "select"}
  BY Zenon DEF Start, Init, LoopOK, SigOK, AtSelect, Op, Event
<1>4. UsersOK /\ KqOK
  BY <1>1 DEF Start, Init, KqInit, UsersOK, KqOK
<1>5. pollFds = <<>> /\ fdMap = <<>> /\ revents = <<>> /\ poller \in {"off", "top"}
  BY DEF Start, Init, WsInit
<1>6. DOMAIN fdMap = {} /\ DOMAIN revents = {} /\ DOMAIN pollFds = {}
  BY <1>5
<1>7. WsOK /\ Indexed
  <2>1. /\ fdMap \in [DOMAIN fdMap -> Nat]
        /\ revents \in [DOMAIN revents -> (SUBSET Op) \cup {{"invalid"}}]
    BY <1>5, <1>6
  <2>2. QED
    BY <1>5, <1>6, <2>1 DEF WsOK, Indexed
<1>8. /\ \A c \in Conn : state[c] = "new" /\ handle[c] = None
      /\ chSignal = "empty" /\ ~ done /\ cpuid = None
      /\ stop = 0 /\ stopper = None /\ waiter = "wait"
  BY DEF Start, Init
<1>9. HandlesOK /\ KqWatched
  BY <1>3, <1>8 DEF HandlesOK, KqWatched, Accepted
<1>10. WsWatched
  BY <1>6, <1>8 DEF WsWatched, Open
<1>11. OpenOK
  BY DEF Start, Init, OpenInit, OpenOK
<1>12. Handshake /\ Mailbox /\ Stopping
  BY <1>3, <1>8, ScenariosAssumption DEF Handshake, Mailbox, Stopping, ErrorReported
<1>13. QED
  BY <1>2, <1>3, <1>4, <1>7, <1>9, <1>10, <1>11, <1>12 DEF PollersInv, TypeOK

\* The steps that concern no platform in particular.
LEMMA ClientInv ==
  ASSUME PollersInv, ClientStep, UNCHANGED <<kqVars, wsVars, openVars>>
  PROVE  PollersInv'
<1>1. CASE \E c \in Conn, o \in Op : LoopRequest(c, o)
  BY <1>1, LoopRequestInv
<1>2. CASE LoopTry \/ LoopEvent
  BY <1>2, LoopServesInv
<1>3. CASE LoopSignal \/ LoopEventsEnd \/ LoopError \/ LoopStop \/ LoopDie
  BY <1>3, LoopMovesInv
<1>4. CASE UserClose \/ StopStep \/ WaitEnds \/ StoreCPU \/ WakeForCPU
  BY <1>4, UsersInv
<1>5. QED
  BY <1>1, <1>2, <1>3, <1>4 DEF ClientStep

\* Every step.
LEMMA NextInv ==
  ASSUME PollersInv, [Next]_vars
  PROVE  PollersInv'
<1>1. CASE run.platform = "kqueue" /\ KqNext /\ UNCHANGED <<wsVars, openVars>>
  <2>1. CASE ClientStep /\ UNCHANGED kqVars
    BY <1>1, <2>1, ClientInv
  <2>2. CASE KqWatch
    BY <1>1, <2>2, KqWatchInv
  <2>3. CASE KqWatchWakes
    BY <1>1, <2>3, KqWatchWakesInv
  <2>4. CASE KqLoopExit
    <3>1. Forgotten(Handle)
      BY <2>4, ClosedKq DEF PollersInv, TypeOK, KqLoopExit
    <3>2. KqOK'
      BY <3>1 DEF Forgotten
    <3>3. QED
      BY <1>1, <2>4, <3>2, LoopExitInv DEF KqLoopExit
  <2>5. CASE KqPoller
    BY <1>1, <2>5, KqPollerInv
  <2>6. ASSUME NEW c \in Conn, NEW o \in Op, PeerEnables(c, o), KqTriggers(c, {o}),
               UNCHANGED <<watchQueue, changes, bad, note>>
        PROVE  PollersInv'
    BY <1>1, <2>6, PeerInv
  <2>7. ASSUME NEW c \in Conn, PeerCloses(c), KqTriggers(c, {"read"}),
               UNCHANGED <<watchQueue, changes, bad, note>>
        PROVE  PollersInv'
    BY <1>1, <2>7, PeerInv
  <2>8. ASSUME NEW c \in Conn, LoopRelease(c), KqCloses({handle[c]}),
               UNCHANGED <<watchQueue, changes, bad>>
        PROVE  PollersInv'
    <3>1. Forgotten({handle[c]})
      BY <2>8, ClosedKq DEF PollersInv, TypeOK
    <3>2. QED
      BY <1>1, <2>8, <3>1, LoopReleaseInv
  <2>9. QED
    BY <1>1, <2>1, <2>2, <2>3, <2>4, <2>5, <2>6, <2>7, <2>8, Zenon DEF KqNext
<1>2. CASE run.platform = "wsapoll" /\ WsNext /\ UNCHANGED <<kqVars, openVars>>
  <2>1. CASE ClientStep /\ UNCHANGED wsVars
    BY <1>2, <2>1, ClientInv
  <2>2. CASE WsWatch
    BY <1>2, <2>2, WsWatchInv
  <2>3. CASE WsLoopExit
    <3>1. KqOK'
      BY <1>2, Frame
    <3>2. QED
      BY <1>2, <2>3, <3>1, LoopExitInv DEF WsLoopExit
  <2>4. CASE WsPoller
    BY <1>2, <2>4, WsPollerInv
  <2>5. ASSUME NEW c \in Conn, PeerCloses(c) \/ \E o \in Op : PeerEnables(c, o), UNCHANGED wsVars
        PROVE  PollersInv'
    BY <1>2, <2>5, PeerInv DEF kqVars
  <2>6. ASSUME NEW c \in Conn, LoopRelease(c), UNCHANGED wsVars
        PROVE  PollersInv'
    <3>1. Forgotten({handle[c]})
      BY <1>2, ClosedKq DEF PollersInv, TypeOK
    <3>2. QED
      BY <1>2, <2>6, <3>1, LoopReleaseInv
  <2>7. QED
    BY <1>2, <2>1, <2>2, <2>3, <2>4, <2>5, <2>6 DEF WsNext
<1>3. CASE run.platform = "wsapoll" /\ (OpenStep \/ AcceptFails) /\ UNCHANGED <<kqVars, wsVars>>
  BY <1>3, OpenStepInv
<1>4. CASE UNCHANGED vars
  BY <1>4, Frame, Zenon DEF vars, PollersInv, TypeOK, connVars, sigVars, affVars, stopVars, kqVars, wsVars, openVars
<1>5. QED
  BY <1>1, <1>2, <1>3, <1>4 DEF Next

\* On either platform the inductive invariant holds throughout.
THEOREM PollersInvariant == Spec => []PollersInv
<1>1. Start => PollersInv
  BY StartInv
<1>2. PollersInv /\ [Next]_vars => PollersInv'
  BY NextInv
<1>3. QED
  BY <1>1, <1>2, PTL DEF Spec

\* Wait and loop share eventSet without a lock: no step of the poller changes
\* the slice between the receipt from chSignal and the acknowledgement.
THEOREM AlwaysBatchStable == Spec => BatchStable
<1>1. ASSUME PollersInv, [Next]_vars
      PROVE  [loop.pc = "events" /\ loop'.pc = "events" => events' = events]_vars
  <2> SUFFICES ASSUME loop.pc = "events", loop'.pc = "events", Next
               PROVE  events' = events
    BY <1>1 DEF vars, sigVars
  <2>1. poller \in {"ack", "exit"} /\ ~ done
    BY <1>1 DEF PollersInv, Handshake
  <2>2. CASE ClientStep
    BY <2>2 DEF ClientStep, LoopRequest, LoopTry, LoopSignal, LoopEvent, LoopEventsEnd, LoopError,
                LoopStop, LoopDie, UserClose, StopStep, WaitEnds, StoreCPU, WakeForCPU, sigVars
  <2>3. CASE KqWatch \/ KqWatchWakes \/ KqLoopExit \/ WsWatch \/ WsLoopExit
    BY <2>3 DEF KqWatch, KqWatchWakes, KqLoopExit, WsWatch, WsLoopExit, LoopExit, Wakeup, sigVars
  <2>4. CASE KqPoller
    BY <2>1, <2>4, Zenon DEF KqPoller, KqTop, KqLoadCPU, KqClearCPU, KqApply, KqReturn, KqInterrupted,
                      KqSend, KqAck, KqExit, LoadCPU, ClearCPU, PollerSend, PollerAck, sigVars
  <2>5. CASE WsPoller
    BY <2>1, <2>5, Zenon DEF WsPoller, WsTop, WsPoll, WsLoadCPU, WsClearCPU, WsDrain, WsUnwatch, WsBuild,
                      WsSend, WsAck, WsFails, WsSendError, WsExit, LoadCPU, ClearCPU, PollerSend,
                      PollerAck, sigVars
  <2>6. CASE \E c \in Conn : PeerCloses(c) \/ LoopRelease(c) \/ \E o \in Op : PeerEnables(c, o)
    BY <2>6, Zenon DEF PeerCloses, LoopRelease, PeerEnables, sigVars
  <2>7. CASE OpenStep \/ AcceptFails
    BY <2>7, Zenon DEF OpenStep, Listen, Dial, Accept, AcceptFails, DialResult, PairFails, PairDone, DialedCollected,
                Duplicate, OpenRest, sigVars
  <2>8. QED
    BY <2>2, <2>3, <2>4, <2>5, <2>6, <2>7, Zenon DEF Next, KqNext, WsNext
<1>2. QED
  BY <1>1, PollersInvariant, PTL DEF Spec, BatchStable

\* SetPollerAffinity stores its request before it wakes the poller, and Wait
\* looks at the mailbox before it blocks: kevent never blocks over a request.
THEOREM AlwaysAffinityNoticed == Spec => []AffinityNoticed
<1>1. PollersInv => AffinityNoticed
  BY DEF PollersInv, Mailbox, AffinityNoticed
<1>2. QED
  BY <1>1, PollersInvariant, PTL

\* loop stores the poller's error before it calls stop, so that WaitIO returns
\* that error unless a user has closed the watcher.
THEOREM AlwaysErrorReported == Spec => []ErrorReported
<1>1. PollersInv => ErrorReported
  BY DEF PollersInv, Stopping
<1>2. QED
  BY <1>1, PollersInvariant, PTL

\* Watch and unwatch keep fdMap and pollFds in step.
THEOREM AlwaysPollSetIndexed == Spec => []PollSetIndexed
<1>1. PollersInv => PollSetIndexed
  BY DEF PollersInv, Indexed, PollSetIndexed
<1>2. QED
  BY <1>1, PollersInvariant, PTL

\* No step changes the scenario.
LEMMA RunKept ==
  ASSUME [Next]_vars
  PROVE  run' = run
<1>1. CASE ClientStep
  BY <1>1, Zenon DEF ClientStep, LoopRequest, LoopTry, LoopSignal, LoopEvent, LoopEventsEnd, LoopError,
              LoopStop, LoopDie, UserClose, StopStep, WaitEnds, StoreCPU, WakeForCPU, connVars
<1>2. CASE KqWatch \/ KqWatchWakes \/ KqLoopExit \/ WsWatch \/ WsLoopExit
  BY <1>2 DEF KqWatch, KqWatchWakes, KqLoopExit, WsWatch, WsLoopExit, LoopExit, connVars
<1>3. CASE KqPoller \/ WsPoller
  BY <1>3, KqPollerRest, WsPollerRest DEF connVars
<1>4. CASE \E c \in Conn : PeerCloses(c) \/ LoopRelease(c) \/ \E o \in Op : PeerEnables(c, o)
  BY <1>4, Zenon DEF PeerCloses, LoopRelease, PeerEnables
<1>5. CASE OpenStep \/ AcceptFails
  BY <1>5, Zenon DEF OpenStep, Listen, Dial, Accept, AcceptFails, DialResult, PairFails, PairDone, DialedCollected,
              Duplicate, OpenRest, connVars
<1>6. QED
  BY <1>1, <1>2, <1>3, <1>4, <1>5, Zenon DEF Next, KqNext, WsNext, vars, connVars

\* A connection whose Watch has returned stays watched while the poller runs.
\* On Windows that rests on handles that are not given out again: a stale entry
\* of the poll set would otherwise pass for the new connection's, and be
\* removed.
THEOREM AlwaysStaysWatched ==
  ASSUME \A s \in Scenarios : s.platform = "wsapoll" => "reuse" \notin s.env
  PROVE  Spec => []StaysWatched
<1> DEFINE Chosen == run \in Scenarios
<1>1. Start => Chosen
  BY DEF Start, Init
<1>2. ASSUME PollersInv, Chosen, [Next]_vars
      PROVE  Chosen'
  BY <1>2, RunKept
<1>3. PollersInv /\ Chosen => StaysWatched
  <2> SUFFICES ASSUME PollersInv, Chosen PROVE StaysWatched
    OBVIOUS
  <2>1. CASE run.platform = "kqueue"
    BY <2>1 DEF StaysWatched, PollersInv, KqWatched, Accepted, Submitted
  <2>2. CASE run.platform = "wsapoll"
    BY <2>2, Zenon DEF StaysWatched, PollersInv, WsWatched
  <2>3. run.platform \in {"kqueue", "wsapoll"}
    BY ScenariosAssumption
  <2>4. QED
    BY <2>1, <2>2, <2>3
<1> HIDE DEF Chosen
<1>4. QED
  BY <1>1, <1>2, <1>3, PollersInvariant, PTL DEF Spec

-----------------------------------------------------------------------------
(* No lost readiness.                                                      *)

\* Requests are queued for registered connections only; after the end of the
\* stream both operations return at once.
QueueOK ==
  /\ \A c \in Conn, o \in Op : queue[c][o] > 0 => state[c] = "open"
  /\ loop.pc = "try" => state[loop.conn] = "open"
  /\ \A c \in Conn : eof[c] => can[c] = Op

\* The head of a queue could go on, and has not given up.
Due(c, o) == queue[c][o] > 0 /\ o \in can[c] /\ o \notin early[c]

\* An event for the operation is in a batch that the loop has yet to receive or
\* to handle.
Announced(x, o) ==
  \/ /\ poller = "send" \/ chSignal = "events"
     /\ \E e \in events : e.ident = x /\ o \in e.ev
  \/ loop.pc = "events" /\ \E e \in loop.todo : e.ident = x /\ o \in e.ev

\* The filter has been triggered; the one for reads also stands for writes
\* after the end of the stream.
Armed(c, o) ==
  o \in active[handle[c]] \/ (o = "write" /\ eof[c] /\ "read" \in active[handle[c]])

\* The filters are still to be registered.
ToRegister(x) == x \in watchQueue \/ (poller # "wait" /\ x \in changes)

\* A request that could go on will be looked at.
KqDue ==
  run.platform = "kqueue" /\ poller # "exit" =>
    \A c \in Conn, o \in Op :
      Due(c, o) => ToRegister(handle[c]) \/ Armed(c, o) \/ Announced(handle[c], o)

\* A handle that waits for registration keeps the poller from blocking.
KqFresh ==
  run.platform = "kqueue" /\ poller \in {"affinity", "clear", "kevent", "wait"} /\ ~ wake =>
    \A c \in Conn : state[c] = "open" => handle[c] \notin watchQueue

\* A handle that is not in the snapshot does so on Windows.
WsFresh ==
  run.platform = "wsapoll" /\ "reuse" \notin run.env =>
    /\ loop.pc = "watch" => handle[loop.conn] \notin DOMAIN fdMap
    /\ poller = "poll" /\ ~ wake =>
         \A c \in Conn : state[c] = "open" => handle[c] \in DOMAIN revents

ReadyInv == QueueOK /\ KqDue /\ KqFresh /\ WsFresh

\* A step that changes nothing of what ReadyInv is about, but may wake the
\* poller or leave a batch that has been handled.
LEMMA ReadySame ==
  ASSUME ReadyInv, UNCHANGED <<connVars, poller, chSignal, events, kqVars, wsVars>>,
         wake => wake',
         loop.pc = "events" => loop.todo = {} \/ loop' = loop,
         loop'.pc \in {"try", "watch"} => loop'.pc = loop.pc /\ loop'.conn = loop.conn
  PROVE  ReadyInv'
<1>1. QueueOK'
  BY Zenon DEF ReadyInv, QueueOK, connVars
<1>2. KqDue'
  <2> SUFFICES ASSUME run'.platform = "kqueue", poller' # "exit", NEW d \in Conn, NEW p \in Op,
                      Due(d, p)'
               PROVE  (ToRegister(handle[d]) \/ Armed(d, p) \/ Announced(handle[d], p))'
    BY Zenon DEF KqDue
  <2>1. /\ UNCHANGED <<run, handle, can, eof, queue, early, poller, chSignal, events>>
        /\ UNCHANGED <<watchQueue, changes, active>>
    BY Zenon DEF connVars, kqVars
  <2>2. Due(d, p)
    BY <2>1, Zenon DEF Due
  <2>3. ToRegister(handle[d]) \/ Armed(d, p) \/ Announced(handle[d], p)
    BY <2>1, <2>2, Zenon DEF ReadyInv, KqDue
  <2>4. QED
    BY <2>1, <2>3, Zenon DEF ToRegister, Armed, Announced
<1>3. KqFresh' /\ WsFresh'
  BY Zenon DEF ReadyInv, KqFresh, WsFresh, connVars, kqVars, wsVars
<1>4. QED
  BY <1>1, <1>2, <1>3, Zenon DEF ReadyInv

\* The loop goes on, receives a batch or acknowledges it; the users' calls.
LEMMA MovesReady ==
  ASSUME ReadyInv, \/ LoopSignal \/ LoopEventsEnd \/ LoopError \/ LoopStop \/ LoopDie
                   \/ UserClose \/ StopStep \/ WaitEnds \/ StoreCPU \/ WakeForCPU,
         PollersInv, UNCHANGED <<kqVars, wsVars>>
  PROVE  ReadyInv'
<1>1. LoopOK /\ SigOK /\ wake \in BOOLEAN
  BY DEF PollersInv, TypeOK, SigOK
<1>2. CASE LoopEventsEnd \/ LoopError \/ LoopStop \/ LoopDie
  <2>1. UNCHANGED <<connVars, poller, chSignal, events, wake>>
    BY <1>2 DEF LoopEventsEnd, LoopError, LoopStop, LoopDie, sigVars
  <2>2. loop.pc = "events" => loop.todo = {} \/ loop' = loop
    BY <1>2 DEF LoopEventsEnd, LoopError, LoopStop, LoopDie
  <2>3. loop'.pc \in {"try", "watch"} => loop'.pc = loop.pc /\ loop'.conn = loop.conn
    BY <1>1, <1>2 DEF LoopEventsEnd, LoopError, LoopStop, LoopDie, LoopOK, AtSelect
  <2>4. QED
    BY <2>1, <2>2, <2>3, ReadySame, Zenon
<1>3. CASE UserClose \/ StopStep \/ WaitEnds \/ StoreCPU \/ WakeForCPU
  <2>1. UNCHANGED <<connVars, poller, chSignal, events, loop>> /\ (wake => wake')
    BY <1>1, <1>3 DEF UserClose, StopStep, WaitEnds, StoreCPU, WakeForCPU, Wakeup, sigVars
  <2>2. QED
    BY <2>1, ReadySame, Zenon
<1>4. CASE LoopSignal
  <2>1. /\ UNCHANGED <<connVars, poller, events, wake>> /\ loop.pc = "select" /\ loop'.todo = events
        /\ loop'.pc = IF chSignal = "error" THEN "error" ELSE "events"
    BY <1>1, <1>4 DEF LoopSignal, LoopOK
  <2>2. chSignal' = "empty" /\ chSignal \in {"events", "error"}
    BY <1>1, <1>4 DEF LoopSignal, SigOK
  <2>3. QueueOK'
    BY <2>1, Zenon DEF ReadyInv, QueueOK, connVars
  <2>4. KqDue'
    BY <2>1, <2>2, Zenon DEF ReadyInv, KqDue, Due, ToRegister, Armed, Announced, connVars, kqVars,
                      PollersInv, Handshake
  <2>5. KqFresh' /\ WsFresh'
    BY <2>1, Zenon DEF ReadyInv, KqFresh, WsFresh, connVars, kqVars, wsVars
  <2>6. QED
    BY <2>3, <2>4, <2>5 DEF ReadyInv
<1>5. QED
  BY <1>2, <1>3, <1>4

\* A request is taken up: nothing is queued yet for a connection that gets its
\* handle, and the handle is not in the poll set.
LEMMA RequestReady ==
  ASSUME PollersInv, ReadyInv, NEW c \in Conn, NEW o \in Op, LoopRequest(c, o),
         UNCHANGED <<kqVars, wsVars>>
  PROVE  ReadyInv'
<1>1. LoopOK /\ ConnOK /\ Handshake /\ WsWatched
  BY DEF PollersInv, TypeOK
<1>2. /\ UNCHANGED <<run, state, can, eof, queue, early, poller, events, chSignal, wake>>
      /\ loop.pc = "select" /\ loop'.pc \in {"select", "try", "watch"}
  BY <1>1, Zenon DEF LoopRequest, sigVars, LoopOK
<1>3. /\ loop'.pc \in {"try", "watch"} => loop'.conn = c
      /\ loop'.pc = "try" => state[c] = "open"
  BY <1>1, <1>2, Zenon DEF LoopRequest, LoopOK
<1>4. \A d \in Conn : state[d] = "open" => handle'[d] = handle[d]
  BY <1>1 DEF LoopRequest, ConnOK
<1>5. QueueOK'
  BY <1>2, <1>3, Zenon DEF ReadyInv, QueueOK
<1>6. KqDue'
  BY <1>2, <1>4, Zenon DEF ReadyInv, QueueOK, KqDue, Due, ToRegister, Armed, Announced, kqVars
<1>7. KqFresh'
  BY <1>2, <1>4, Zenon DEF ReadyInv, KqFresh, kqVars
<1>8. WsFresh'
  <2> SUFFICES ASSUME run.platform = "wsapoll", "reuse" \notin run.env PROVE WsFresh'
    BY <1>2, Zenon DEF WsFresh
  <2>1. ASSUME loop'.pc = "watch" PROVE handle'[c] \notin DOMAIN fdMap
    <3>1. Unused # {} /\ handle' = [handle EXCEPT ![c] = Lowest(Unused)]
      BY <1>1, <1>2, <2>1, Zenon DEF LoopRequest, LoopOK
    <3>2. Unused \subseteq Nat /\ Unused \cap used = {}
      BY ScenariosAssumption, Zenon DEF Unused
    <3>3. Lowest(Unused) \in Unused
      BY <3>1, <3>2, LowestIn
    <3>4. QED
      BY <1>1, <3>1, <3>2, <3>3, Zenon DEF WsWatched, ConnOK
  <2>2. QED
    BY <1>2, <1>3, <1>4, <2>1, Zenon DEF ReadyInv, WsFresh, wsVars
<1>9. QED
  BY <1>5, <1>6, <1>7, <1>8 DEF ReadyInv

\* The attempt: a request is queued behind others, or because it would block, has
\* used up what made it possible, or gives up.
LEMMA TryReady ==
  ASSUME PollersInv, ReadyInv, LoopTry, UNCHANGED <<kqVars, wsVars>>
  PROVE  ReadyInv'
<1> DEFINE c == loop.conn
           o == loop.op
<1>1. ConnOK /\ c \in Conn /\ o \in Op /\ state[c] = "open"
  BY Zenon DEF PollersInv, TypeOK, LoopTry, HandlesOK, LoopOK, ReadyInv, QueueOK
<1>2. /\ UNCHANGED <<run, state, handle, eof, poller, events, chSignal, wake>>
      /\ loop.pc = "try" /\ loop'.pc = "select"
  BY Zenon DEF LoopTry, sigVars, AtSelect
<1>3. \/ /\ queue[c][o] > 0 \/ o \notin can[c]
         /\ queue' = [queue EXCEPT ![c][o] = @ + 1] /\ UNCHANGED <<can, early>>
      \/ /\ queue[c][o] = 0 /\ UNCHANGED <<queue, early>>
         /\ can' \in {can, [can EXCEPT ![c] = IF eof[c] THEN @ ELSE @ \ {o}]}
      \/ /\ ~ eof[c] /\ can' = [can EXCEPT ![c] = @ \ {o}] /\ UNCHANGED early
         /\ queue' = [queue EXCEPT ![c][o] = @ + 1]
      \/ /\ early' = [early EXCEPT ![c] = @ \cup {o}] /\ UNCHANGED can
         /\ queue' = [queue EXCEPT ![c][o] = @ + 1]
  BY Zenon DEF LoopTry
<1> HIDE DEF c, o
<1>4. /\ queue' = queue \/ queue' = [queue EXCEPT ![c][o] = @ + 1]
      /\ \A d \in Conn : can'[d] \subseteq can[d] /\ (eof[d] => can'[d] = can[d])
      /\ \A d \in Conn : early[d] \subseteq early'[d]
  <2>1. \A d \in Conn : can'[d] \subseteq can[d] /\ (eof[d] => can'[d] = can[d])
    BY <1>1, <1>3, Zenon DEF ConnOK
  <2>2. \A d \in Conn : early[d] \subseteq early'[d]
    BY <1>1, <1>3, Zenon DEF ConnOK
  <2>3. QED
    BY <1>3, <2>1, <2>2, Zenon
<1>5. \A d \in Conn, p \in Op : <<d, p>> # <<c, o>> => queue'[d][p] = queue[d][p]
  <2>1. CASE queue' = queue
    BY <2>1, Zenon
  <2>2. CASE queue' = [queue EXCEPT ![c][o] = @ + 1]
    <3>1. \A d \in Conn : d # c => queue'[d] = queue[d]
      BY <1>1, <2>2, Zenon DEF ConnOK
    <3>2. queue'[c] = [queue[c] EXCEPT ![o] = @ + 1] /\ queue[c] \in [Op -> Nat]
      BY <1>1, <2>2, Zenon DEF ConnOK
    <3>3. \A p \in Op : p # o => queue'[c][p] = queue[c][p]
      BY <3>2, Zenon
    <3>4. QED
      BY <3>1, <3>3, Zenon
  <2>3. QED
    BY <1>4, <2>1, <2>2, Zenon
<1>6. queue'[c][o] > 0 /\ o \in can'[c] /\ o \notin early'[c] => queue[c][o] > 0
  BY <1>1, <1>3 DEF ConnOK
<1>7. QueueOK'
  <2>1. \A d \in Conn, p \in Op : queue'[d][p] > 0 => state[d] = "open"
    BY <1>1, <1>5 DEF ReadyInv, QueueOK
  <2>2. QED
    BY <1>2, <1>4, <2>1 DEF ReadyInv, QueueOK
<1>8. ASSUME NEW d \in Conn, NEW p \in Op, Due(d, p)' PROVE Due(d, p)
  <2>1. queue[d][p] > 0
    <3>1. CASE <<d, p>> = <<c, o>>
      BY <1>6, <1>8, <3>1 DEF Due
    <3>2. CASE <<d, p>> # <<c, o>>
      BY <1>5, <1>8, <3>2 DEF Due
    <3>3. QED
      BY <3>1, <3>2
  <2>2. QED
    BY <1>4, <1>8, <2>1 DEF Due
<1>9. KqDue'
  BY <1>2, <1>8, Zenon DEF ReadyInv, KqDue, ToRegister, Armed, Announced, kqVars
<1>10. KqFresh' /\ WsFresh'
  BY <1>2, Zenon DEF ReadyInv, KqFresh, WsFresh, kqVars, wsVars
<1>11. QED
  BY <1>7, <1>9, <1>10 DEF ReadyInv

\* handleEvents: after the retries of an event, the head of its queues would
\* block, or has given up.
LEMMA EventReady ==
  ASSUME PollersInv, ReadyInv, LoopEvent, UNCHANGED <<kqVars, wsVars>>
  PROVE  ReadyInv'
<1>1. ConnOK /\ LoopOK /\ Handshake
  BY DEF PollersInv, TypeOK
<1>2. UNCHANGED <<run, state, handle, eof, poller, events, chSignal, wake>>
  BY DEF LoopEvent, sigVars
<1>3. PICK e \in loop.todo :
        /\ loop' = [loop EXCEPT !.todo = @ \ {e}]
        /\ IF e.ident \in Open
             THEN LET d == Owner(e.ident) IN
                  \E q \in [Op -> 0 .. run.reqs], more \in [Op -> BOOLEAN], stuck \in SUBSET e.ev :
                    /\ \A o \in Op :
                         IF o \in e.ev THEN Retry(d, o, q[o], more[o], o \in stuck)
                         ELSE q[o] = queue[d][o] /\ more[o] = (o \in can[d])
                    /\ queue' = [queue EXCEPT ![d] = q]
                    /\ can' = [can EXCEPT ![d] = {o \in Op : more[o]}]
                    /\ early' = [early EXCEPT ![d] = (@ \ (e.ev \ {"read"})) \cup stuck]
             ELSE UNCHANGED <<queue, can, early>>
  BY Zenon DEF LoopEvent
<1>4. /\ loop.pc = "events" /\ loop'.pc = "events" /\ loop'.todo = loop.todo \ {e}
      /\ chSignal = "empty" /\ poller # "send"
  BY <1>1, <1>3 DEF LoopEvent, LoopOK, Handshake
<1>5. /\ \A c \in Conn, o \in Op : queue'[c][o] > 0 => queue[c][o] > 0
      /\ \A c \in Conn : eof[c] /\ can[c] = Op => can'[c] = Op
      /\ \A c \in Conn, o \in Op : Due(c, o)' => Due(c, o) /\ ~ (handle[c] = e.ident /\ o \in e.ev)
  <2>1. CASE e.ident \notin Open
    <3>1. \A c \in Conn : handle[c] = e.ident => handle[c] = None
      BY <2>1 DEF Open
    <3>2. \A c \in Conn, o \in Op : queue[c][o] > 0 => handle[c] # None
      BY Zenon DEF ReadyInv, QueueOK, PollersInv, HandlesOK
    <3>3. UNCHANGED <<queue, can, early>>
      BY <1>3, <2>1
    <3>4. QED
      BY <3>1, <3>2, <3>3 DEF Due
  <2>2. CASE e.ident \in Open
    <3>1. PICK d \in Conn : d = Owner(e.ident) /\ handle[d] = e.ident /\ e.ident # None
      BY <1>1, <2>2, OwnerIs DEF Open
    <3>q. PICK q \in [Op -> 0 .. run.reqs], more \in [Op -> BOOLEAN], stuck \in SUBSET e.ev :
            /\ \A o \in Op :
                 IF o \in e.ev THEN Retry(Owner(e.ident), o, q[o], more[o], o \in stuck)
                 ELSE q[o] = queue[Owner(e.ident)][o] /\ more[o] = (o \in can[Owner(e.ident)])
            /\ queue' = [queue EXCEPT ![Owner(e.ident)] = q]
            /\ can' = [can EXCEPT ![Owner(e.ident)] = {o \in Op : more[o]}]
            /\ early' = [early EXCEPT ![Owner(e.ident)] = (@ \ (e.ev \ {"read"})) \cup stuck]
      BY <1>3, <2>2, Zenon
    <3>2. /\ \A o \in Op :
               IF o \in e.ev THEN Retry(d, o, q[o], more[o], o \in stuck)
               ELSE q[o] = queue[d][o] /\ more[o] = (o \in can[d])
          /\ queue' = [queue EXCEPT ![d] = q]
          /\ can' = [can EXCEPT ![d] = {o \in Op : more[o]}]
          /\ early' = [early EXCEPT ![d] = (@ \ (e.ev \ {"read"})) \cup stuck]
          /\ q \in [Op -> 0 .. run.reqs] /\ more \in [Op -> BOOLEAN] /\ stuck \subseteq e.ev
      BY <3>1, <3>q, Zenon
    <3>3. \A c \in Conn : c # d => /\ handle[c] # e.ident /\ queue'[c] = queue[c] /\ can'[c] = can[c]
                                   /\ early'[c] = early[c]
      <4>1. \A c \in Conn : c # d => handle[c] # e.ident
        BY <3>1, Zenon DEF PollersInv, HandlesOK
      <4>2. \A c \in Conn : c # d => queue'[c] = queue[c] /\ can'[c] = can[c]
        BY <1>1, <3>2, Zenon DEF ConnOK
      <4>3. \A c \in Conn : c # d => early'[c] = early[c]
        BY <1>1, <3>2, Zenon DEF ConnOK
      <4>4. QED
        BY <4>1, <4>2, <4>3, Zenon
    <3>4. \A o \in Op : queue'[d][o] = q[o] /\ (o \in can'[d] <=> more[o])
      BY <1>1, <3>1, <3>2, Zenon DEF ConnOK
    <3>5. ASSUME NEW o \in Op, o \in e.ev
          PROVE  /\ q[o] > 0 => queue[d][o] > 0
                 /\ eof[d] /\ o \in can[d] => more[o]
                 /\ q[o] > 0 /\ more[o] => o \in stuck
      <4>1. Retry(d, o, q[o], more[o], o \in stuck)
        BY <3>2, <3>5, Zenon
      <4>2. queue[d][o] \in Nat /\ q[o] \in Nat
        <5>1. q[o] \in 0 .. run.reqs
          BY <3>2, Zenon
        <5>2. queue[d] \in [Op -> Nat]
          BY <1>1, <3>1, Zenon DEF ConnOK
        <5>3. QED
          BY <5>1, <5>2
      <4>3. more[o] \in BOOLEAN
        BY <3>2, Zenon
      <4>4. QED
        BY <4>1, <4>2, <4>3, RetryFacts, Zenon
    <3>6. ASSUME NEW o \in Op, o \notin e.ev
          PROVE  q[o] = queue[d][o] /\ (more[o] <=> o \in can[d])
      BY <3>2, <3>6, Zenon
    <3>7. /\ \A o \in Op : queue'[d][o] > 0 => queue[d][o] > 0
          /\ eof[d] /\ can[d] = Op => can'[d] = Op
      <4>1. \A o \in Op : queue'[d][o] > 0 => queue[d][o] > 0
        BY <3>4, <3>5, <3>6, Zenon
      <4>2. eof[d] /\ can[d] = Op => \A o \in Op : o \in can'[d]
        BY <3>4, <3>5, <3>6, Zenon
      <4>3. can'[d] \subseteq Op
        BY <1>1, <3>1, <3>2, Zenon DEF ConnOK
      <4>4. QED
        BY <4>1, <4>2, <4>3, Zenon
    <3>8. ASSUME NEW o \in Op, Due(d, o)' PROVE Due(d, o) /\ o \notin e.ev
      <4>1. q[o] > 0 /\ more[o] /\ o \notin early'[d]
        BY <3>4, <3>8, Zenon DEF Due
      <4>2. early'[d] = (early[d] \ (e.ev \ {"read"})) \cup stuck
        BY <1>1, <3>1, <3>2, Zenon DEF ConnOK
      <4>3. o \notin e.ev
        BY <3>5, <4>1, <4>2, Zenon
      <4>4. o \notin early[d]
        BY <4>1, <4>2, <4>3, Zenon
      <4>5. QED
        BY <3>6, <4>1, <4>3, <4>4, Zenon DEF Due
    <3>9. QED
      BY <3>1, <3>3, <3>7, <3>8, Zenon DEF Due
  <2>3. QED
    BY <2>1, <2>2, Zenon
<1>6. QueueOK'
  BY <1>2, <1>4, <1>5, Zenon DEF ReadyInv, QueueOK
<1>7. KqDue'
  <2> SUFFICES ASSUME run.platform = "kqueue", poller # "exit", NEW c \in Conn, NEW o \in Op,
                      Due(c, o)'
               PROVE  (ToRegister(handle[c]) \/ Armed(c, o) \/ Announced(handle[c], o))'
    BY <1>2, Zenon DEF KqDue
  <2>1. Due(c, o) /\ ~ (handle[c] = e.ident /\ o \in e.ev)
    BY <1>5, Zenon
  <2>2. ToRegister(handle[c]) \/ Armed(c, o) \/ Announced(handle[c], o)
    BY <2>1, Zenon DEF ReadyInv, KqDue
  <2>3. CASE ToRegister(handle[c]) \/ Armed(c, o)
    BY <1>2, <2>3, Zenon DEF ToRegister, Armed, kqVars
  <2>4. CASE Announced(handle[c], o)
    BY <1>2, <1>4, <2>1, <2>4, Zenon DEF Announced
  <2>5. QED
    BY <2>2, <2>3, <2>4, Zenon
<1>8. KqFresh' /\ WsFresh'
  BY <1>2, <1>4, Zenon DEF ReadyInv, KqFresh, WsFresh, kqVars, wsVars
<1>9. QED
  BY <1>6, <1>7, <1>8 DEF ReadyInv

\* Watch: the wakeup follows the entry, and nothing is queued before.
LEMMA WatchReady ==
  ASSUME PollersInv, ReadyInv,
         \/ run.platform = "kqueue" /\ (KqWatch \/ KqWatchWakes) /\ UNCHANGED wsVars
         \/ run.platform = "wsapoll" /\ WsWatch /\ UNCHANGED kqVars
  PROVE  ReadyInv'
<1> DEFINE c == loop.conn
<1>1. /\ ConnOK /\ LoopOK /\ SigOK /\ WsOK /\ WsWatched
      /\ c \in Conn /\ handle[c] # None /\ state[c] = "new"
      /\ \A d \in Conn : d # c => handle[d] # handle[c]
  BY DEF PollersInv, TypeOK, HandlesOK, KqWatch, KqWatchWakes, WsWatch
<1>2. /\ UNCHANGED <<run, can, eof, queue, early, poller, events, chSignal>>
      /\ loop.pc # "events" /\ wake \in BOOLEAN
  BY <1>1 DEF KqWatch, KqWatchWakes, WsWatch, connVars, sigVars, SigOK
<1>3. CASE run.platform = "kqueue" /\ KqWatch /\ UNCHANGED wsVars
  <2>1. /\ UNCHANGED <<state, handle, wake, changes, bad, note, active>> /\ loop'.pc = "wakeup"
        /\ watchQueue' = watchQueue \cup {handle[c]}
    BY <1>1, <1>3 DEF KqWatch, connVars, sigVars, LoopOK
  <2>2. QueueOK' /\ WsFresh'
    BY <1>2, <1>3, <2>1, Zenon DEF ReadyInv, QueueOK, WsFresh
  <2>3. KqDue'
    BY <1>2, <2>1, Zenon DEF ReadyInv, KqDue, Due, ToRegister, Armed, Announced
  <2>4. KqFresh'
    BY <1>1, <1>2, <2>1, Zenon DEF ReadyInv, KqFresh
  <2>5. QED
    BY <2>2, <2>3, <2>4 DEF ReadyInv
<1>4. CASE run.platform = "kqueue" /\ KqWatchWakes /\ UNCHANGED wsVars
  <2>1. UNCHANGED kqVars /\ (poller # "exit" => wake')
    BY <1>2, <1>4, Zenon DEF KqWatchWakes, Wakeup, CanWake
  <2>2. /\ \A d \in Conn : d # c => state'[d] = state[d] /\ handle'[d] = handle[d]
        /\ loop'.pc \in {"try", "select"} /\ (loop'.pc = "try" => loop'.conn = c /\ state'[c] = "open")
        /\ \A o \in Op : ~ queue[c][o] > 0
    BY <1>1, <1>4 DEF KqWatchWakes, LoopOK, ConnOK, AtSelect, ReadyInv, QueueOK
  <2>3. QueueOK' /\ WsFresh'
    BY <1>2, <1>4, <2>2, Zenon DEF ReadyInv, QueueOK, WsFresh
  <2>4. KqDue'
    BY <1>2, <2>1, <2>2, Zenon DEF ReadyInv, KqDue, Due, ToRegister, Armed, Announced, kqVars
  <2>5. KqFresh'
    BY <1>2, <2>1 DEF KqFresh
  <2>6. QED
    BY <2>3, <2>4, <2>5 DEF ReadyInv
<1>5. CASE run.platform = "wsapoll" /\ WsWatch /\ UNCHANGED kqVars
  <2>1. /\ UNCHANGED <<handle, revents>> /\ state' = [state EXCEPT ![c] = "open"]
        /\ loop'.pc = "try" /\ loop'.conn = c
        /\ handle[c] \notin DOMAIN fdMap => wake' = (wake \/ CanWake)
    BY <1>1, <1>5 DEF WsWatch, Wakeup, LoopOK
  <2>2. QueueOK'
    BY <1>1, <1>2, <2>1, Zenon DEF ReadyInv, QueueOK, ConnOK
  <2>3. KqDue' /\ KqFresh'
    BY <1>2, <1>5, Zenon DEF KqDue, KqFresh
  <2>4. WsFresh'
    <3> SUFFICES ASSUME "reuse" \notin run.env, poller = "poll" PROVE wake'
      BY <1>2, <2>1, Zenon DEF WsFresh
    <3>1. handle[c] \notin DOMAIN fdMap
      BY <1>5 DEF ReadyInv, WsFresh, WsWatch
    <3>2. QED
      BY <2>1, <3>1, Zenon DEF CanWake
  <2>5. QED
    BY <2>2, <2>3, <2>4 DEF ReadyInv
<1>6. QED
  BY <1>3, <1>4, <1>5

\* Nothing is queued any more for a connection that is released.
LEMMA CloseReady ==
  ASSUME PollersInv, ReadyInv, UNCHANGED wsVars,
         \/ LoopExit
         \/ \E c \in Conn : LoopRelease(c) /\ (UNCHANGED kqVars \/ KqCloses({handle[c]})),
         UNCHANGED <<watchQueue, changes>>
  PROVE  ReadyInv'
<1>1. ConnOK /\ LoopOK
  BY DEF PollersInv, TypeOK
<1>2. CASE LoopExit
  <2>1. /\ \A c \in Conn : state'[c] # "open" /\ (\A o \in Op : queue'[c][o] = 0)
        /\ loop'.pc = "done" /\ UNCHANGED <<can, eof>>
    BY <1>1, <1>2 DEF LoopExit, LoopOK
  <2>2. ~ (0 > 0)
    OBVIOUS
  <2>3. \A c \in Conn, o \in Op : ~ (queue'[c][o] > 0)
    BY <2>1, <2>2, Zenon
  <2>4. QueueOK' /\ KqDue'
    BY <2>1, <2>3, Zenon DEF ReadyInv, QueueOK, KqDue, Due
  <2>5. KqFresh' /\ WsFresh'
    BY <2>1, Zenon DEF KqFresh, WsFresh
  <2>6. QED
    BY <2>4, <2>5, Zenon DEF ReadyInv
<1>3. ASSUME NEW c \in Conn, LoopRelease(c), UNCHANGED kqVars \/ KqCloses({handle[c]})
      PROVE  ReadyInv'
  <2>1. /\ UNCHANGED <<run, eof, loop, poller, events, chSignal, wake>>
        /\ loop.pc = "select" /\ state[c] = "open"
        /\ state'[c] = "gone" /\ (\A o \in Op : queue'[c][o] = 0) /\ can'[c] = Op
        /\ \A d \in Conn : d # c => /\ state'[d] = state[d] /\ handle'[d] = handle[d]
                                    /\ queue'[d] = queue[d] /\ early'[d] = early[d]
                                    /\ can'[d] = can[d]
    <3>1. /\ UNCHANGED <<run, eof, loop, poller, events, chSignal, wake>>
          /\ loop.pc = "select" /\ state[c] = "open"
          /\ state' = [state EXCEPT ![c] = "gone"] /\ handle' = [handle EXCEPT ![c] = None]
          /\ queue' = [queue EXCEPT ![c] = [o \in Op |-> 0]]
          /\ early' = [early EXCEPT ![c] = {}] /\ can' = [can EXCEPT ![c] = Op]
      BY <1>3, Zenon DEF LoopRelease, sigVars
    <3>2. queue'[c] = [o \in Op |-> 0]
      BY <1>1, <3>1, Zenon DEF ConnOK
    <3>3. state'[c] = "gone" /\ (\A o \in Op : queue'[c][o] = 0) /\ can'[c] = Op
      BY <1>1, <3>1, <3>2, Zenon DEF ConnOK
    <3>4. ASSUME NEW d \in Conn, d # c
          PROVE  /\ state'[d] = state[d] /\ handle'[d] = handle[d]
                 /\ queue'[d] = queue[d] /\ early'[d] = early[d] /\ can'[d] = can[d]
      BY <1>1, <3>1, <3>4, Zenon DEF ConnOK
    <3>5. QED
      BY <3>1, <3>3, <3>4, Zenon
  <2>2. \A d \in Conn : state[d] = "open" /\ d # c => active'[handle[d]] = active[handle[d]]
    <3>1. \A d \in Conn : state[d] = "open" /\ d # c => handle[d] \in Handle /\ handle[d] # handle[c]
      BY <1>1, Zenon DEF PollersInv, HandlesOK, ConnOK
    <3>2. QED
      BY <1>3, <3>1, Zenon DEF KqCloses, kqVars
  <2> ~ (0 > 0)
    OBVIOUS
  <2>3. QueueOK'
    <3>1. \A d \in Conn, p \in Op : queue'[d][p] > 0 => d # c /\ queue[d][p] > 0
      BY <2>1, Zenon
    <3>2. \A d \in Conn : eof'[d] => can'[d] = Op
      BY <2>1, Zenon DEF ReadyInv, QueueOK
    <3>3. \A d \in Conn, p \in Op : queue'[d][p] > 0 => state'[d] = "open"
      BY <2>1, <3>1, Zenon DEF ReadyInv, QueueOK
    <3>4. QED
      BY <2>1, <3>2, <3>3, Zenon DEF QueueOK
  <2>4. KqDue'
    <3> SUFFICES ASSUME run'.platform = "kqueue", poller' # "exit", NEW d \in Conn, NEW p \in Op,
                        Due(d, p)'
                 PROVE  (ToRegister(handle[d]) \/ Armed(d, p) \/ Announced(handle[d], p))'
      BY Zenon DEF KqDue
    <3>1. d # c /\ Due(d, p)
      BY <2>1, Zenon DEF Due
    <3>2. state[d] = "open"
      BY <3>1, Zenon DEF ReadyInv, QueueOK, Due
    <3>3. ToRegister(handle[d]) \/ Armed(d, p) \/ Announced(handle[d], p)
      BY <2>1, <3>1, Zenon DEF ReadyInv, KqDue
    <3>4. handle'[d] = handle[d] /\ active'[handle[d]] = active[handle[d]]
      BY <2>1, <2>2, <3>1, <3>2, Zenon
    <3>5. QED
      BY <2>1, <3>3, <3>4, Zenon DEF ToRegister, Armed, Announced
  <2>5. KqFresh'
    BY <2>1, Zenon DEF ReadyInv, KqFresh
  <2>6. WsFresh'
    BY <2>1, Zenon DEF ReadyInv, WsFresh, wsVars
  <2>7. QED
    BY <2>3, <2>4, <2>5, <2>6 DEF ReadyInv
<1>4. QED
  BY <1>2, <1>3, Zenon

\* The peer makes an operation possible: the filter is triggered, or is still to
\* be registered.
LEMMA PeerReady ==
  ASSUME PollersInv, ReadyInv, UNCHANGED wsVars, NEW c \in Conn,
         \/ \E o \in Op : PeerEnables(c, o) /\ (KqTriggers(c, {o}) \/ run.platform # "kqueue")
         \/ PeerCloses(c) /\ (KqTriggers(c, {"read"}) \/ run.platform # "kqueue"),
         UNCHANGED <<watchQueue, changes, bad, note>>
  PROVE  ReadyInv'
<1>1. ConnOK /\ HandlesOK /\ KqOK
  BY DEF PollersInv, TypeOK
<1>2. UNCHANGED <<run, state, handle, queue, early, loop, poller, events, chSignal, wake>>
  BY Zenon DEF PeerEnables, PeerCloses, sigVars
<1>3. /\ \A d \in Conn : d # c => can'[d] = can[d] /\ eof'[d] = eof[d]
      /\ \A d \in Conn : eof[d] /\ can[d] = Op => can'[d] = Op /\ eof'[d]
      /\ eof'[c] /\ ~ eof[c] => can'[c] = Op
  BY <1>1, Zenon DEF PeerEnables, PeerCloses, ConnOK
<1>4. QueueOK'
  <2>1. \A d \in Conn : eof'[d] => can'[d] = Op
    BY <1>3, Zenon DEF ReadyInv, QueueOK
  <2>2. QED
    BY <1>2, <2>1, Zenon DEF ReadyInv, QueueOK
<1>5. KqFresh' /\ WsFresh'
  BY <1>2, Zenon DEF ReadyInv, KqFresh, WsFresh, wsVars
<1>6. KqDue'
  <2> SUFFICES ASSUME run.platform = "kqueue", poller # "exit", NEW d \in Conn, NEW p \in Op,
                      Due(d, p)'
               PROVE  (ToRegister(handle[d]) \/ Armed(d, p) \/ Announced(handle[d], p))'
    BY <1>2 DEF KqDue
  <2>1. handle[d] \in Handle /\ state[d] = "open"
    <3>1. state[d] = "open"
      BY <1>2, Zenon DEF ReadyInv, QueueOK, Due
    <3>2. QED
      BY <1>1, <3>1, Zenon DEF HandlesOK, ConnOK
  <2>2. active[handle[d]] \subseteq active'[handle[d]] /\ (eof[d] => eof'[d])
    <3>1. eof' = eof \/ eof' = [eof EXCEPT ![c] = TRUE]
      BY Zenon DEF PeerEnables, PeerCloses
    <3>2. PICK F : KqTriggers(c, F)
      BY Zenon
    <3>3. active[handle[d]] \subseteq active'[handle[d]]
      BY <2>1, <3>2, Zenon DEF KqTriggers
    <3>4. QED
      BY <1>1, <3>1, <3>3, Zenon DEF ConnOK
  <2>3. CASE Due(d, p)
    <3>1. ToRegister(handle[d]) \/ Armed(d, p) \/ Announced(handle[d], p)
      BY <2>3 DEF ReadyInv, KqDue
    <3>2. QED
      BY <1>2, <2>2, <3>1, Zenon DEF ToRegister, Armed, Announced
  <2>4. CASE ~ Due(d, p)
    <3>1. p \in can'[d] /\ p \notin can[d]
      BY <1>2, <2>4, Zenon DEF Due
    <3>2. d = c
      BY <1>3, <3>1, Zenon
    <3>3. CASE ToRegister(handle[d])
      BY <1>2, <3>3 DEF ToRegister
    <3>4. CASE note[handle[d]] = Op
      <4>1. \/ p \in active'[handle[d]]
            \/ eof'[d] /\ "read" \in active'[handle[d]]
        <5>1. CASE \E o \in Op : PeerEnables(c, o) /\ KqTriggers(c, {o})
          <6>1. PICK o \in Op : PeerEnables(c, o) /\ KqTriggers(c, {o})
            BY <5>1, Zenon
          <6>2. p = o
            BY <1>1, <3>1, <3>2, <6>1, Zenon DEF PeerEnables, ConnOK
          <6>3. QED
            BY <2>1, <3>2, <3>4, <6>1, <6>2, Zenon DEF KqTriggers
        <5>2. CASE PeerCloses(c) /\ KqTriggers(c, {"read"})
          <6>1. eof'[d]
            BY <1>1, <3>2, <5>2, Zenon DEF PeerCloses, ConnOK
          <6>2. "read" \in active'[handle[d]]
            BY <2>1, <3>2, <3>4, <5>2, Zenon DEF KqTriggers, Op
          <6>3. QED
            BY <6>1, <6>2, Zenon
        <5>3. QED
          BY <5>1, <5>2, Zenon
      <4>2. QED
        BY <1>2, <4>1, Zenon DEF Armed, Op
    <3>5. QED
      BY <2>1, <3>3, <3>4, Zenon DEF PollersInv, KqWatched, Accepted, Submitted, ToRegister
  <2>5. QED
    BY <2>3, <2>4
<1>7. QED
  BY <1>4, <1>5, <1>6 DEF ReadyInv

\* The kqueue poller: what it takes off one list is on the next one, or in the
\* batch.
LEMMA KqPollerReady ==
  ASSUME PollersInv, ReadyInv, KqPoller, run.platform = "kqueue", UNCHANGED wsVars
  PROVE  ReadyInv'
<1>1. ConnOK /\ HandlesOK /\ KqOK /\ Handshake /\ SigOK
  BY DEF PollersInv, TypeOK
<1>2. UNCHANGED <<connVars, loop>>
  BY KqPollerRest
<1>3. QueueOK' /\ WsFresh'
  BY <1>2, Zenon DEF ReadyInv, QueueOK, WsFresh, connVars
<1>4. \A c \in Conn, o \in Op :
        Due(c, o) => /\ handle[c] \in Handle /\ handle[c] \in Open /\ Owner(handle[c]) = c
                     /\ o \in can[c] /\ (eof[c] => "read" \in can[c])
  <2> SUFFICES ASSUME NEW c \in Conn, NEW o \in Op, Due(c, o)
               PROVE  /\ handle[c] \in Handle /\ handle[c] \in Open /\ Owner(handle[c]) = c
                      /\ o \in can[c] /\ (eof[c] => "read" \in can[c])
    BY Zenon
  <2>1. state[c] = "open" /\ handle[c] \in Handle /\ handle[c] \in Open
    BY <1>1, Zenon DEF ReadyInv, QueueOK, Due, HandlesOK, ConnOK, Open
  <2>2. Owner(handle[c]) = c
    BY <1>1, <2>1, OwnerIs DEF HandlesOK, ConnOK
  <2>3. QED
    BY <2>1, <2>2, Zenon DEF Due, ReadyInv, QueueOK, Op
<1>5. SUFFICES KqDue' /\ KqFresh'
  BY <1>3 DEF ReadyInv
<1> USE DEF Goto
<1>6. ASSUME poller' # "exit",
             \A c \in Conn, o \in Op : Due(c, o) =>
               (ToRegister(handle[c]) \/ Armed(c, o) \/ Announced(handle[c], o))'
      PROVE  KqDue'
  BY <1>2, <1>6, Zenon DEF KqDue, Due, connVars
<1>7. \A c \in Conn, o \in Op : Due(c, o) /\ poller # "exit" =>
        ToRegister(handle[c]) \/ Armed(c, o) \/ Announced(handle[c], o)
  BY DEF ReadyInv, KqDue
<1>8. CASE KqTop
  <2>1. /\ poller = "top" /\ poller' = "affinity" /\ changes' = changes \cup watchQueue
        /\ watchQueue' = {} /\ UNCHANGED <<sigVars, active>>
    BY <1>8 DEF KqTop
  <2>2. KqDue'
    BY <1>2, <1>6, <1>7, <2>1, Zenon DEF ToRegister, Armed, Announced, connVars, sigVars
  <2>3. KqFresh'
    BY <2>1 DEF KqFresh
  <2>4. QED
    BY <2>2, <2>3
<1>9. CASE KqLoadCPU \/ KqClearCPU
  <2>1. /\ poller \in {"affinity", "clear"} /\ poller' \in {"clear", "kevent"}
        /\ UNCHANGED <<sigVars, kqVars>>
    BY <1>9 DEF KqLoadCPU, KqClearCPU, LoadCPU, ClearCPU
  <2>2. KqDue'
    BY <1>2, <1>6, <1>7, <2>1, Zenon DEF ToRegister, Armed, Announced, connVars, sigVars, kqVars
  <2>3. KqFresh'
    BY <1>2, <2>1, Zenon DEF ReadyInv, KqFresh, connVars, sigVars, kqVars
  <2>4. QED
    BY <2>2, <2>3
<1>10. CASE KqApply
  <2>1. /\ poller = "kevent" /\ poller' = "wait" /\ UNCHANGED <<sigVars, watchQueue, changes>>
        /\ active' = [x \in Handle |->
                        IF x \in changes \cap Open THEN active[x] \cup can[Owner(x)] ELSE active[x]]
    BY <1>10, Zenon DEF KqApply
  <2>2. KqDue'
    <3> SUFFICES ASSUME NEW c \in Conn, NEW o \in Op, Due(c, o)
                 PROVE  (ToRegister(handle[c]) \/ Armed(c, o) \/ Announced(handle[c], o))'
      BY <1>6, <2>1, Zenon
    <3>1. /\ active[handle[c]] \subseteq active'[handle[c]]
          /\ handle[c] \in changes => o \in active'[handle[c]]
      BY <1>4, <2>1, Zenon
    <3>2. QED
      BY <1>2, <1>7, <2>1, <3>1, Zenon DEF ToRegister, Armed, Announced, connVars, sigVars
  <2>3. KqFresh'
    BY <1>2, <2>1, Zenon DEF ReadyInv, KqFresh, connVars, sigVars
  <2>4. QED
    BY <2>2, <2>3
<1>11. CASE KqReturn
  <2>1. /\ poller = "wait" /\ poller' = "send" /\ UNCHANGED <<chSignal, watchQueue>>
        /\ \A x \in Handle : \A o \in Triggered(x) : KqEvent(x, o) \in events'
    BY <1>11 DEF KqReturn
  <2>2. KqDue'
    <3> SUFFICES ASSUME NEW c \in Conn, NEW o \in Op, Due(c, o)
                 PROVE  (ToRegister(handle[c]) \/ Armed(c, o) \/ Announced(handle[c], o))'
      BY <1>6, <2>1
    <3>1. ~ Announced(handle[c], o)
      BY <1>1, <2>1, Zenon DEF Announced, Handshake
    <3>2. CASE ToRegister(handle[c])
      BY <1>2, <2>1, <3>2 DEF ToRegister, connVars
    <3>3. CASE Armed(c, o)
      <4>1. \E e \in events' : e.ident = handle[c] /\ o \in e.ev
        <5>1. CASE o \in active[handle[c]]
          <6>1. o \in Triggered(handle[c])
            BY <1>4, <5>1, Zenon DEF Triggered
          <6>2. KqEvent(handle[c], o) \in events'
            BY <1>4, <2>1, <6>1, Zenon
          <6>3. KqEvent(handle[c], o).ident = handle[c] /\ o \in KqEvent(handle[c], o).ev
            BY DEF KqEvent
          <6>4. QED
            BY <6>2, <6>3
        <5>2. CASE eof[c] /\ "read" \in active[handle[c]]
          <6>1. "read" \in Triggered(handle[c])
            BY <1>4, <5>2, Zenon DEF Triggered
          <6>2. KqEvent(handle[c], "read") \in events'
            BY <1>4, <2>1, <6>1, Zenon
          <6>3. /\ KqEvent(handle[c], "read").ident = handle[c]
                /\ KqEvent(handle[c], "read").ev = Op
            BY <1>4, <5>2, Zenon DEF KqEvent
          <6>4. QED
            BY <6>2, <6>3, Zenon
        <5>3. QED
          BY <3>3, <5>1, <5>2, Zenon DEF Armed
      <4>2. QED
        BY <1>2, <2>1, <4>1, Zenon DEF Announced, connVars
    <3>4. QED
      BY <1>7, <2>1, <3>1, <3>2, <3>3, Zenon
  <2>3. KqFresh'
    BY <2>1 DEF KqFresh
  <2>4. QED
    BY <2>2, <2>3
<1>12. CASE KqInterrupted
  <2>1. poller = "wait" /\ poller' = "top" /\ UNCHANGED <<sigVars, watchQueue, changes, active>>
    BY <1>12 DEF KqInterrupted
  <2>2. KqDue'
    BY <1>2, <1>6, <1>7, <2>1, Zenon DEF ToRegister, Armed, Announced, connVars, sigVars
  <2>3. KqFresh'
    BY <2>1 DEF KqFresh
  <2>4. QED
    BY <2>2, <2>3
<1>13. CASE KqSend
  <2>1. poller = "send" /\ poller' = "ack" /\ chSignal' = "events" /\ UNCHANGED <<events, kqVars>>
    BY <1>13 DEF KqSend, PollerSend
  <2>2. KqDue'
    BY <1>2, <1>6, <1>7, <2>1, Zenon DEF ToRegister, Armed, Announced, connVars, kqVars
  <2>3. KqFresh'
    BY <2>1 DEF KqFresh
  <2>4. QED
    BY <2>2, <2>3
<1>14. CASE KqAck
  <2>1. poller = "ack" /\ done /\ poller' = "top" /\ UNCHANGED kqVars
    BY <1>14 DEF KqAck, PollerAck
  <2>2. KqDue'
    <3>1. \A x, o : ~ Announced(x, o)
      BY <1>1, <2>1, Zenon DEF Announced, Handshake
    <3>2. QED
      BY <1>2, <1>6, <1>7, <2>1, <3>1, Zenon DEF ToRegister, Armed, connVars, kqVars
  <2>3. KqFresh'
    BY <2>1, Zenon DEF KqFresh
  <2>4. QED
    BY <2>2, <2>3
<1>15. CASE KqExit
  BY <1>15, Zenon DEF KqExit, KqDue, KqFresh
<1>16. QED
  BY <1>8, <1>9, <1>10, <1>11, <1>12, <1>13, <1>14, <1>15 DEF KqPoller

\* The WSAPoll poller: the snapshot has every handle in the poll set.
LEMMA WsPollerReady ==
  ASSUME PollersInv, ReadyInv, WsPoller, run.platform = "wsapoll"
  PROVE  ReadyInv'
<1>1. UNCHANGED <<connVars, loop>> /\ WsOK /\ WsWatched
  BY WsPollerRest DEF PollersInv, TypeOK
<1>2. QueueOK' /\ KqDue' /\ KqFresh'
  BY <1>1, Zenon DEF ReadyInv, QueueOK, KqDue, KqFresh, connVars
<1>3. WsFresh'
  <2> SUFFICES ASSUME "reuse" \notin run.env PROVE WsFresh'
    BY <1>1, Zenon DEF WsFresh, connVars
  <2>1. DOMAIN fdMap' \subseteq DOMAIN fdMap
    <3>1. CASE fdMap' = fdMap
      BY <3>1
    <3>2. CASE WsUnwatch
      <4>1. PICK x \in Invalid : Unwatch(x)
        BY <3>2 DEF WsUnwatch
      <4>2. CASE x \in DOMAIN fdMap
        <5>1. DOMAIN fdMap' = DOMAIN fdMap \ {x}
          BY <1>1, <4>1, <4>2, UnwatchIndexed, Zenon DEF PollersInv
        <5>2. QED
          BY <5>1
      <4>3. CASE x \notin DOMAIN fdMap
        BY <4>1, <4>3 DEF Unwatch
      <4>4. QED
        BY <4>2, <4>3
    <3>3. QED
      BY <3>1, <3>2, Zenon DEF WsPoller, WsTop, WsPoll, WsLoadCPU, WsClearCPU, WsDrain, WsBuild, WsSend,
                        WsAck, WsFails, WsSendError, WsExit, wsVars
  <2>2. ASSUME poller' = "poll"
        PROVE  \A c \in Conn : state[c] = "open" => handle[c] \in DOMAIN revents'
    <3>1. DOMAIN revents' = DOMAIN fdMap
      <4>1. revents' = [x \in DOMAIN fdMap |-> {}]
        BY <2>2, Zenon DEF WsPoller, WsTop, WsPoll, WsLoadCPU, WsClearCPU, LoadCPU, ClearCPU, WsDrain,
                    WsUnwatch, WsBuild, WsSend, WsAck, PollerAck, WsFails, WsSendError, WsExit, Goto
      <4>2. QED
        BY <4>1
    <3>2. QED
      BY <1>1, <3>1 DEF WsWatched
  <2>3. QED
    BY <1>1, <2>1, <2>2, Zenon DEF ReadyInv, WsFresh, connVars
<1>4. QED
  BY <1>2, <1>3 DEF ReadyInv

\* Every step.
LEMMA NextReady ==
  ASSUME PollersInv, ReadyInv, [Next]_vars
  PROVE  ReadyInv'
<1>1. CASE run.platform = "kqueue" /\ KqNext /\ UNCHANGED <<wsVars, openVars>>
  <2>1. CASE ClientStep /\ UNCHANGED kqVars
    BY <1>1, <2>1, MovesReady, RequestReady, TryReady, EventReady DEF ClientStep
  <2>2. CASE KqWatch \/ KqWatchWakes
    BY <1>1, <2>2, WatchReady
  <2>3. CASE KqLoopExit
    BY <1>1, <2>3, CloseReady DEF KqLoopExit
  <2>4. CASE KqPoller
    BY <1>1, <2>4, KqPollerReady
  <2>5. ASSUME NEW c \in Conn,
               \/ \E o \in Op : PeerEnables(c, o) /\ KqTriggers(c, {o})
               \/ PeerCloses(c) /\ KqTriggers(c, {"read"}),
               UNCHANGED <<watchQueue, changes, bad, note>>
        PROVE  ReadyInv'
    BY <1>1, <2>5, PeerReady
  <2>6. ASSUME NEW c \in Conn, LoopRelease(c), KqCloses({handle[c]}),
               UNCHANGED <<watchQueue, changes, bad>>
        PROVE  ReadyInv'
    BY <1>1, <2>6, CloseReady
  <2>7. QED
    BY <1>1, <2>1, <2>2, <2>3, <2>4, <2>5, <2>6, Zenon DEF KqNext
<1>2. CASE run.platform = "wsapoll" /\ WsNext /\ UNCHANGED <<kqVars, openVars>>
  <2>1. UNCHANGED <<watchQueue, changes, bad, note>>
    BY <1>2 DEF kqVars
  <2>2. CASE ClientStep /\ UNCHANGED wsVars
    BY <1>2, <2>2, MovesReady, RequestReady, TryReady, EventReady DEF ClientStep
  <2>3. CASE WsWatch
    BY <1>2, <2>3, WatchReady
  <2>4. CASE WsLoopExit
    BY <2>1, <2>4, CloseReady DEF WsLoopExit
  <2>5. CASE WsPoller
    BY <1>2, <2>5, WsPollerReady
  <2>6. ASSUME NEW c \in Conn, PeerCloses(c) \/ \E o \in Op : PeerEnables(c, o), UNCHANGED wsVars
        PROVE  ReadyInv'
    BY <1>2, <2>1, <2>6, PeerReady
  <2>7. ASSUME NEW c \in Conn, LoopRelease(c), UNCHANGED wsVars
        PROVE  ReadyInv'
    BY <1>2, <2>1, <2>7, CloseReady
  <2>8. QED
    BY <1>2, <2>2, <2>3, <2>4, <2>5, <2>6, <2>7 DEF WsNext
<1>3. CASE run.platform = "wsapoll" /\ (OpenStep \/ AcceptFails) /\ UNCHANGED <<kqVars, wsVars>>
  <2>1. /\ UNCHANGED connVars
        /\ UNCHANGED <<loop, poller, sigVars>> \/ (poller' = "top" /\ loop' = AtSelect)
    BY <1>3, Zenon DEF OpenStep, Listen, Dial, Accept, AcceptFails, DialResult, PairFails, PairDone, DialedCollected,
                Duplicate, OpenRest
  <2>2. loop'.pc \in {"try", "watch"} => loop' = loop
    BY <2>1 DEF AtSelect
  <2>3. QueueOK'
    BY <2>1, <2>2, Zenon DEF ReadyInv, QueueOK, connVars
  <2>4. KqDue' /\ KqFresh'
    BY <1>3, <2>1, Zenon DEF KqDue, KqFresh, connVars
  <2>5. WsFresh'
    BY <1>3, <2>1, <2>2, Zenon DEF ReadyInv, WsFresh, connVars, sigVars, wsVars
  <2>6. QED
    BY <2>3, <2>4, <2>5 DEF ReadyInv
<1>4. CASE UNCHANGED vars
  BY <1>4, ReadySame, Zenon DEF vars, sigVars
<1>5. QED
  BY <1>1, <1>2, <1>3, <1>4 DEF Next

\* When kevent or WSAPoll blocks and the loop rests in its select, a queued
\* request would still block: late registration, EV_CLEAR, interrupted calls,
\* end of stream and retries lose no readiness.  The exceptions, with kqueue, are
\* a write that met ENOBUFS and a full read that took the last bytes of the stream
\* without being told of its end.
THEOREM AlwaysNoLostReadiness ==
  ASSUME \A s \in Scenarios : s.platform = "wsapoll" => "reuse" \notin s.env
  PROVE  Spec => []NoLostReadiness
<1> DEFINE Chosen == run \in Scenarios
<1>1. ASSUME Start PROVE ReadyInv /\ Chosen
  <2>1. /\ \A c \in Conn : /\ state[c] = "new" /\ ~ eof[c]
                           /\ \A o \in Op : queue[c][o] = 0
        /\ loop.pc \in {"off", "select"} /\ poller \in {"off", "top"} /\ run \in Scenarios
    BY <1>1 DEF Start, Init, AtSelect
  <2>2. ~ (0 > 0)
    OBVIOUS
  <2>3. \A c \in Conn, o \in Op : ~ (queue[c][o] > 0)
    BY <2>1, <2>2, Zenon
  <2>4. QueueOK /\ KqDue
    BY <2>1, <2>3, Zenon DEF QueueOK, KqDue, Due
  <2>5. KqFresh /\ WsFresh
    BY <2>1, Zenon DEF KqFresh, WsFresh
  <2>6. QED
    BY <2>1, <2>4, <2>5, Zenon DEF ReadyInv
<1>2. ASSUME PollersInv, ReadyInv, Chosen, [Next]_vars
      PROVE  (ReadyInv /\ Chosen)'
  BY <1>2, NextReady, RunKept
<1>3. PollersInv /\ ReadyInv /\ Chosen => NoLostReadiness
  <2> SUFFICES ASSUME PollersInv, ReadyInv, Chosen, Resting, NEW c \in Conn, NEW o \in Op,
                      queue[c][o] > 0, o \in can[c],
                      run.platform = "kqueue" => o \notin early[c]
               PROVE  FALSE
    BY Zenon DEF NoLostReadiness
  <2>1. ConnOK /\ HandlesOK /\ Handshake /\ state[c] = "open"
    <3>1. ConnOK /\ HandlesOK /\ Handshake
      BY Zenon DEF PollersInv, TypeOK
    <3>2. state[c] = "open"
      BY Zenon DEF ReadyInv, QueueOK
    <3>3. QED
      BY <3>1, <3>2, Zenon
  <2>2. handle[c] \in Handle /\ handle[c] \in Open
    BY <2>1 DEF HandlesOK, ConnOK, Open
  <2>3. Owner(handle[c]) = c
    <3>1. Owner(handle[c]) \in Conn /\ handle[Owner(handle[c])] = handle[c]
      BY <2>1, <2>2, OwnerIs, Zenon
    <3>2. handle[c] # None
      BY <2>1, Zenon DEF HandlesOK
    <3>3. QED
      BY <2>1, <3>1, <3>2, Zenon DEF HandlesOK
  <2>4. CASE run.platform = "kqueue"
    <3>1. /\ poller = "wait" /\ loop.pc = "select" /\ chSignal = "empty" /\ ~ wake
          /\ active[handle[c]] \cap can[c] = {}
      BY <2>2, <2>3, <2>4, Zenon DEF Resting, Triggered
    <3>2. ~ ToRegister(handle[c])
      BY <2>1, <2>4, <3>1, Zenon DEF ReadyInv, KqFresh, ToRegister
    <3>3. ~ Armed(c, o)
      BY <2>1, <3>1, Zenon DEF Armed, ReadyInv, QueueOK, Op
    <3>4. ~ Announced(handle[c], o)
      BY <3>1, Zenon DEF Announced
    <3>5. QED
      BY <2>4, <3>1, <3>2, <3>3, <3>4, Zenon DEF ReadyInv, KqDue, Due
  <2>5. CASE run.platform = "wsapoll"
    <3>1. poller = "poll" /\ ~ wake /\ \A x \in DOMAIN revents : Reported(x) = {}
      BY <2>5 DEF Resting
    <3>2. handle[c] \in DOMAIN revents
      BY <2>1, <2>5, <3>1 DEF ReadyInv, WsFresh
    <3>3. Reported(handle[c]) = can[c]
      BY <2>2, <2>3, Zenon DEF Reported
    <3>4. QED
      BY <3>1, <3>2, <3>3
  <2>6. QED
    BY <2>4, <2>5 DEF Resting
<1> HIDE DEF Chosen
<1>4. QED
  BY <1>1, <1>2, <1>3, PollersInvariant, PTL DEF Spec
=============================================================================
