------------------------------- MODULE Registry ------------------------------
(***************************************************************************)
(* Which connection a key stands for.  connIdents is keyed by the address  *)
(* of the net.Conn, descs by the number of the duplicated descriptor; both *)
(* kinds of keys are used again.  The module follows connections from      *)
(* their allocation to their collection: requests keep them reachable,     *)
(* finalizers hand unreachable ones to the loop.                           *)
(***************************************************************************)
EXTENDS Integers, Sequences, FiniteSets

CONSTANTS
  Object,    \* net.Conn objects, numbered in the order of their allocation
  Addr, Fd,  \* addresses and descriptor numbers
  None,
  Cap,       \* capacity of chResults
  Scenarios  \* bounds on objects, keys and requests, and what else users do

ASSUME KeysAssumption ==
  /\ Object \cup Addr \cup Fd \subseteq Nat /\ None \notin Object \cup Addr \cup Fd
  /\ Cap \in Nat \ {0}
  /\ Scenarios \subseteq [objs : SUBSET Object, addrs : SUBSET Addr, fds : SUBSET Fd,
                          reqs : Nat, users : SUBSET {"close", "affinity"}]

VARIABLES
  run,        \* the scenario
  addr,       \* address of each object, None before and after its life
  born,       \* objects allocated so far
  held,       \* objects the program refers to
  closed,     \* objects whose own descriptor is closed
  fin,        \* objects with a finalizer
  pending,    \* pendingCreate
  connIdents, descs,
  file,       \* the object whose socket a descriptor number refers to
  events,     \* descriptors of the batch that the poller has sent
  chResults, results,  \* objects of the completions in the channel, and returned
  gc, gcMutex, gcNotify, gcFound, gcClosed,
  finq, finalizer,     \* finalizers to run, and the one running
  budget, die, setter, \* requests left; the watcher is closed; SetLoopAffinity
  loop

heapVars == <<addr, born, held, closed, fin>>
mapVars == <<connIdents, descs, file>>
gcVars == <<gc, gcMutex, gcNotify, gcFound, gcClosed>>
finVars == <<finq, finalizer>>
apiVars == <<run, budget, die, setter>>

vars == <<heapVars, pending, mapVars, events, chResults, results, gcVars, finVars, apiVars, loop>>

AtSelect == [pc |-> "select", batch |-> <<>>, fd |-> None, back |-> "none", todo |-> {}]

Init ==
  /\ addr = [o \in Object |-> None] /\ born = {} /\ held = {} /\ closed = {} /\ fin = {}
  /\ pending = <<>> /\ connIdents = <<>> /\ descs = <<>> /\ file = [n \in Fd |-> None]
  /\ events = {} /\ chResults = <<>> /\ results = {}
  /\ gc = {} /\ gcMutex = FALSE /\ gcNotify = FALSE /\ gcFound = 0 /\ gcClosed = 0
  /\ finq = {} /\ finalizer = [pc |-> "idle", obj |-> None]
  /\ run \in Scenarios /\ budget = run.reqs /\ die = FALSE /\ setter = "idle" /\ loop = AtSelect

Lowest(S) == CHOOSE x \in S : \A y \in S : x <= y
Elems(s) == {s[i] : i \in DOMAIN s}
Without(f, x) == [y \in DOMAIN f \ {x} |-> f[y]]
Extended(f, x, v) == [y \in DOMAIN f \cup {x} |-> IF y = x THEN v ELSE f[y]]
-----------------------------------------------------------------------------
(* The program and the Go runtime.                                         *)

Queued == UNION {Elems(descs[n].queue) : n \in DOMAIN descs}

\* The references that keep an object from being collected: those of the
\* program, of requests wherever they are, of completions, of the gc list and
\* of its finalizer.  connIdents holds an address, which is none.
Reachable ==
  held \cup {r.conn : r \in Elems(pending) \cup Elems(loop.batch)} \cup Queued
  \cup Elems(chResults) \cup results \cup gc \cup finq \cup {finalizer.obj}

Allocate(o) ==
  /\ o \in run.objs \ born /\ o = Lowest(run.objs \ born)
  /\ LET free == run.addrs \ {addr[p] : p \in Object} IN
       free # {} /\ addr' = [addr EXCEPT ![o] = Lowest(free)]
  /\ born' = born \cup {o} /\ held' = held \cup {o}
  /\ UNCHANGED <<closed, fin, pending, mapVars, events, chResults, results, gcVars, finVars, apiVars, loop>>

Forget(o) ==
  /\ o \in held /\ held' = held \ {o}
  /\ UNCHANGED <<addr, born, closed, fin, pending, mapVars, events, chResults, results, gcVars,
                 finVars, apiVars, loop>>

\* The collector finds an object unreachable: its finalizer is due, or, if it
\* has none, its memory may be used again.
Collect(o) ==
  /\ addr[o] # None /\ o \notin Reachable
  /\ IF o \in fin
       THEN fin' = fin \ {o} /\ finq' = finq \cup {o} /\ UNCHANGED addr
       ELSE addr' = [addr EXCEPT ![o] = None] /\ UNCHANGED <<fin, finq>>
  /\ UNCHANGED <<born, held, closed, pending, mapVars, events, chResults, results, gcVars,
                 finalizer, apiVars, loop>>

\* One goroutine runs the finalizers: each queues its object under the lock ...
FinalizerStart ==
  /\ finalizer.pc = "idle"
  /\ \E o \in finq : finq' = finq \ {o} /\ finalizer' = [pc |-> "append", obj |-> o]
  /\ UNCHANGED <<heapVars, pending, mapVars, events, chResults, results, gcVars, apiVars, loop>>

\* With a mistake: the finalizer keeps only what handleGC looks up, and the
\* object is collected before.
FinalizerAppendNothing ==
  /\ finalizer.pc = "append" /\ ~ gcMutex
  /\ gcFound' = gcFound + 1
  /\ finalizer' = [finalizer EXCEPT !.pc = "notify"]
  /\ UNCHANGED <<heapVars, pending, mapVars, events, chResults, results, gc, gcMutex, gcNotify,
                 gcClosed, finq, apiVars, loop>>

FinalizerAppend ==
  /\ finalizer.pc = "append" /\ ~ gcMutex
  /\ gc' = gc \cup {finalizer.obj} /\ gcFound' = gcFound + 1
  /\ finalizer' = [finalizer EXCEPT !.pc = "notify"]
  /\ UNCHANGED <<heapVars, pending, mapVars, events, chResults, results, gcMutex, gcNotify,
                 gcClosed, finq, apiVars, loop>>

\* ... and notifies the loop after it.
FinalizerNotify ==
  /\ finalizer.pc = "notify"
  /\ gcNotify' = TRUE /\ finalizer' = [pc |-> "idle", obj |-> None]
  /\ UNCHANGED <<heapVars, pending, mapVars, events, chResults, results, gc, gcMutex, gcFound,
                 gcClosed, finq, apiVars, loop>>
-----------------------------------------------------------------------------
(* The watcher's users.                                                    *)

\* Read, Write or Free; the request records the object and its address.
Submit(o, op) ==
  /\ o \in held /\ budget > 0 /\ ~ die
  /\ budget' = budget - 1
  /\ pending' = Append(pending, [conn |-> o, ptr |-> addr[o], op |-> op])
  /\ UNCHANGED <<heapVars, mapVars, events, chResults, results, gcVars, finVars, run, die, setter, loop>>

\* WaitIO clears the results of the call before, and then returns with all that
\* is in the channel.
WaitCall ==
  /\ results # {} /\ results' = {}
  /\ UNCHANGED <<heapVars, pending, mapVars, events, chResults, gcVars, finVars, apiVars, loop>>

WaitReturn ==
  /\ results = {} /\ chResults # <<>>
  /\ results' = Elems(chResults) /\ chResults' = <<>>
  /\ UNCHANGED <<heapVars, pending, mapVars, events, gcVars, finVars, apiVars, loop>>

Close ==
  /\ "close" \in run.users /\ ~ die /\ die' = TRUE
  /\ UNCHANGED <<heapVars, pending, mapVars, events, chResults, results, gcVars, finVars, run, budget, setter, loop>>

SetLoopAffinity ==
  /\ "affinity" \in run.users /\ setter = "idle" /\ setter' = "calling"
  /\ UNCHANGED <<heapVars, pending, mapVars, events, chResults, results, gcVars, finVars, run, budget, die, loop>>

\* With a mistake: SetLoopAffinity waits for the loop only.
SetterDieNot ==
  /\ setter = "calling" /\ die /\ setter = "idle"
  /\ UNCHANGED vars

SetterDie ==
  /\ setter = "calling" /\ die /\ setter' = "ErrConnClosed"
  /\ UNCHANGED <<heapVars, pending, mapVars, events, chResults, results, gcVars, finVars, run, budget, die, loop>>
-----------------------------------------------------------------------------
(* The watcher loop.                                                       *)

Deliver(o) ==
  \/ Len(chResults) < Cap /\ chResults' = Append(chResults, o)
  \/ die /\ UNCHANGED chResults

Cur == Head(loop.batch)
Next1 == [loop EXCEPT !.pc = "handle", !.fd = None, !.batch = Append(Tail(@), [Cur EXCEPT !.op = "done"])]

\* The pending requests are taken; their records stay in pendingProcessing.
LoopPending ==
  /\ loop.pc = "select" /\ pending # <<>>
  /\ loop' = [loop EXCEPT !.pc = "handle", !.batch = pending] /\ pending' = <<>>
  /\ UNCHANGED <<heapVars, mapVars, events, chResults, results, gcVars, finVars, apiVars>>

Registered == Cur.ptr \in DOMAIN connIdents

HandleFree ==
  /\ loop.pc = "handle" /\ Cur.op = "free" /\ Registered
  /\ loop' = [Next1 EXCEPT !.pc = "release", !.fd = connIdents[Cur.ptr], !.back = "handle"]
  /\ UNCHANGED <<heapVars, pending, mapVars, events, chResults, results, gcVars, finVars, apiVars>>

Unused == {n \in run.fds : file[n] = None}

\* dupconn fails for an object that the watcher has closed before, or when there
\* are no more descriptors.
HandleDupFails ==
  /\ loop.pc = "handle" /\ Cur.op # "done" /\ ~ Registered
  /\ Cur.conn \in closed \/ Unused = {}
  /\ Deliver(Cur.conn) /\ loop' = Next1
  /\ UNCHANGED <<heapVars, pending, mapVars, events, results, gcVars, finVars, apiVars>>

\* With a mistake: no finalizer is set.
HandleRegisterOnly ==
  /\ loop.pc = "handle" /\ Cur.op # "done" /\ ~ Registered
  /\ Cur.conn \notin closed /\ Unused # {}
  /\ LET n == Lowest(Unused) IN
        /\ file' = [file EXCEPT ![n] = Cur.conn]
        /\ descs' = Extended(descs, n, [ptr |-> Cur.ptr, queue |-> <<>>])
        /\ connIdents' = Extended(connIdents, Cur.ptr, n)
        /\ loop' = [loop EXCEPT !.pc = "try", !.fd = n]
  /\ closed' = closed \cup {Cur.conn}
  /\ UNCHANGED <<addr, born, held, fin, pending, events, chResults, results, gcVars, finVars, apiVars>>

\* First request: duplicate and watch the descriptor, close the original, enter
\* both maps and set the finalizer.
HandleRegister ==
  /\ loop.pc = "handle" /\ Cur.op # "done" /\ ~ Registered
  /\ Cur.conn \notin closed /\ Unused # {}
  /\ LET n == Lowest(Unused) IN
        /\ file' = [file EXCEPT ![n] = Cur.conn]
        /\ descs' = Extended(descs, n, [ptr |-> Cur.ptr, queue |-> <<>>])
        /\ connIdents' = Extended(connIdents, Cur.ptr, n)
        /\ loop' = [loop EXCEPT !.pc = "try", !.fd = n]
  /\ closed' = closed \cup {Cur.conn} /\ fin' = fin \cup {Cur.conn}
  /\ UNCHANGED <<addr, born, held, pending, events, chResults, results, gcVars, finVars, apiVars>>

HandleRegistered ==
  /\ loop.pc = "handle" /\ Cur.op = "read" /\ Registered
  /\ loop' = [loop EXCEPT !.pc = "try", !.fd = connIdents[Cur.ptr]]
  /\ UNCHANGED <<heapVars, pending, mapVars, events, chResults, results, gcVars, finVars, apiVars>>

\* With a mistake: the queued record does not hold its connection.
HandleTryForgets ==
  /\ loop.pc = "try"
  /\ \/ Cur.op = "read" /\ descs[loop.fd].queue = <<>> /\ Deliver(Cur.conn) /\ UNCHANGED descs
     \/ Cur.op = "read" /\ descs' = [descs EXCEPT ![loop.fd].queue = Append(@, None)]
        /\ UNCHANGED chResults
     \/ Cur.op = "free" /\ UNCHANGED <<descs, chResults>>
  /\ loop' = Next1
  /\ UNCHANGED <<heapVars, pending, connIdents, file, events, results, gcVars, finVars, apiVars>>

\* The operation is attempted and completes, or is queued.  A Free that found its
\* connection unregistered has nothing more to do.
HandleTry ==
  /\ loop.pc = "try"
  /\ \/ Cur.op = "read" /\ descs[loop.fd].queue = <<>> /\ Deliver(Cur.conn) /\ UNCHANGED descs
     \/ Cur.op = "read" /\ descs' = [descs EXCEPT ![loop.fd].queue = Append(@, Cur.conn)]
        /\ UNCHANGED chResults
     \/ Cur.op = "free" /\ UNCHANGED <<descs, chResults>>
  /\ loop' = Next1
  /\ UNCHANGED <<heapVars, pending, connIdents, file, events, results, gcVars, finVars, apiVars>>

\* The references of the batch are dropped.
BatchEnd ==
  /\ loop.pc = "handle" /\ Cur.op = "done"
  /\ loop' = AtSelect
  /\ UNCHANGED <<heapVars, pending, mapVars, events, chResults, results, gcVars, finVars, apiVars>>

\* releaseConn: the queued requests fail, one at a time ...
ReleaseQueued ==
  /\ loop.pc = "release" /\ descs[loop.fd].queue # <<>>
  /\ Deliver(Head(descs[loop.fd].queue))
  /\ descs' = [descs EXCEPT ![loop.fd].queue = Tail(@)]
  /\ UNCHANGED <<heapVars, pending, connIdents, file, events, results, gcVars, finVars, apiVars, loop>>

\* ... then both keys are removed and the descriptor is closed.
ReleaseEnd ==
  /\ loop.pc = "release" /\ descs[loop.fd].queue = <<>>
  /\ descs' = Without(descs, loop.fd)
  /\ connIdents' = Without(connIdents, descs[loop.fd].ptr)
  /\ file' = [file EXCEPT ![loop.fd] = None]
  /\ loop' = [loop EXCEPT !.pc = loop.back, !.fd = None, !.back = "none"]
  /\ UNCHANGED <<heapVars, pending, events, chResults, results, gcVars, finVars, apiVars>>

\* A batch is taken from the poller.
LoopEvents ==
  /\ loop.pc = "select" /\ events # {}
  /\ loop' = [loop EXCEPT !.pc = "events", !.todo = events]
  /\ UNCHANGED <<heapVars, pending, mapVars, events, chResults, results, gcVars, finVars, apiVars>>

\* A queued request of an event's descriptor succeeds; numbers that are not
\* registered are skipped.
EventServed(n) ==
  /\ loop.pc = "events" /\ n \in loop.todo
  /\ n \in DOMAIN descs /\ descs[n].queue # <<>>
  /\ Deliver(Head(descs[n].queue))
  /\ descs' = [descs EXCEPT ![n].queue = Tail(@)]
  /\ UNCHANGED <<heapVars, pending, connIdents, file, events, results, gcVars, finVars, apiVars, loop>>

EventOver(n) ==
  /\ loop.pc = "events" /\ n \in loop.todo
  /\ loop' = [loop EXCEPT !.todo = @ \ {n}]
  /\ UNCHANGED <<heapVars, pending, mapVars, events, chResults, results, gcVars, finVars, apiVars>>

EventsEnd ==
  /\ loop.pc = "events" /\ loop.todo = {}
  /\ \/ events' = {} /\ loop' = AtSelect
     \/ die /\ loop' = [loop EXCEPT !.pc = "exit"] /\ UNCHANGED events
  /\ UNCHANGED <<heapVars, pending, mapVars, chResults, results, gcVars, finVars, apiVars>>

\* handleGC: under the lock ...
LoopGC ==
  /\ loop.pc = "select" /\ gcNotify
  /\ gcNotify' = FALSE /\ loop' = [loop EXCEPT !.pc = "lock"]
  /\ UNCHANGED <<heapVars, pending, mapVars, events, chResults, results, gc, gcMutex, gcFound,
                 gcClosed, finVars, apiVars>>

GCLock ==
  /\ loop.pc = "lock" /\ ~ gcMutex
  /\ gcMutex' = TRUE /\ loop' = [loop EXCEPT !.pc = "gc", !.todo = gc]
  /\ UNCHANGED <<heapVars, pending, mapVars, events, chResults, results, gc, gcNotify, gcFound,
                 gcClosed, finVars, apiVars>>

\* ... each object of the list is looked up by its address and released ...
GCRelease(o) ==
  /\ loop.pc = "gc" /\ o \in loop.todo
  /\ loop' = IF addr[o] \in DOMAIN connIdents
                THEN [loop EXCEPT !.todo = @ \ {o}, !.pc = "release", !.back = "gc",
                                  !.fd = connIdents[addr[o]]]
                ELSE [loop EXCEPT !.todo = @ \ {o}]
  /\ UNCHANGED <<heapVars, pending, mapVars, events, chResults, results, gcVars, finVars, apiVars>>

\* ... and the list is emptied.
GCEnd ==
  /\ loop.pc = "gc" /\ loop.todo = {}
  /\ gc' = {} /\ gcClosed' = gcClosed + Cardinality(gc) /\ gcMutex' = FALSE
  /\ loop' = AtSelect
  /\ UNCHANGED <<heapVars, pending, mapVars, events, chResults, results, gcNotify, gcFound,
                 finVars, apiVars>>

\* The loop meets a caller of SetLoopAffinity.
LoopCPU ==
  /\ loop.pc = "select" /\ setter = "calling" /\ setter' = "ok"
  /\ UNCHANGED <<heapVars, pending, mapVars, events, chResults, results, gcVars, finVars, run, budget, die, loop>>

LoopDie ==
  /\ loop.pc = "select" /\ die
  /\ loop' = [loop EXCEPT !.pc = "exit"]
  /\ UNCHANGED <<heapVars, pending, mapVars, events, chResults, results, gcVars, finVars, apiVars>>

\* The deferred cleanup: every connection is released, the channel drained and
\* the pending requests dropped.
LoopExit ==
  /\ loop.pc = "exit"
  /\ IF DOMAIN descs # {}
       THEN /\ \E n \in DOMAIN descs : loop' = [loop EXCEPT !.pc = "release", !.fd = n, !.back = "exit"]
            /\ UNCHANGED <<chResults, pending>>
       ELSE loop' = [loop EXCEPT !.pc = "done"] /\ chResults' = <<>> /\ pending' = <<>>
  /\ UNCHANGED <<heapVars, mapVars, events, results, gcVars, finVars, apiVars>>

\* The poller sends a batch for descriptors that are registered now; they may be
\* closed, and their numbers given to other sockets, before the loop handles it.
PollerReports ==
  /\ events = {} /\ \E S \in SUBSET DOMAIN descs : S # {} /\ events' = S
  /\ UNCHANGED <<heapVars, pending, mapVars, chResults, results, gcVars, finVars, apiVars, loop>>
-----------------------------------------------------------------------------
Runtime == FinalizerStart \/ FinalizerAppend \/ FinalizerNotify
WaitIO == WaitCall \/ WaitReturn

\* The loop once it has chosen a case of its select.
LoopBusy ==
  \/ HandleFree \/ HandleDupFails \/ HandleRegister \/ HandleRegistered \/ HandleTry \/ BatchEnd
  \/ ReleaseQueued \/ ReleaseEnd \/ EventsEnd \/ GCLock \/ GCEnd \/ LoopExit
  \/ \E n \in Fd : EventServed(n) \/ EventOver(n)
  \/ \E o \in Object : GCRelease(o)

Next ==
  \/ \E o \in Object : Allocate(o) \/ Forget(o) \/ Collect(o) \/ \E op \in {"read", "free"} : Submit(o, op)
  \/ Runtime \/ WaitIO \/ Close \/ SetLoopAffinity \/ SetterDie \/ PollerReports
  \/ LoopPending \/ LoopEvents \/ LoopGC \/ LoopCPU \/ LoopDie \/ LoopBusy

Spec == Init /\ [][Next]_vars

\* The goroutines run, the collector looks at every object again and again, the
\* program keeps calling WaitIO, and select chooses at random among the cases
\* that are ready, so that none is passed over for ever.
Fairness ==
  /\ \A o \in Object : WF_vars(Collect(o))
  /\ WF_vars(Runtime) /\ WF_vars(WaitIO) /\ WF_vars(LoopBusy)
  /\ SF_vars(LoopPending) /\ SF_vars(LoopGC) /\ SF_vars(LoopCPU) /\ WF_vars(SetterDie)

FairSpec == Spec /\ Fairness
-----------------------------------------------------------------------------
\* A key of connIdents always stands for the connection it was entered for: the
\* object whose socket the descriptor refers to still has that address, so no
\* other connection can have it, and both maps name each other's keys.  Requests
\* are queued under the descriptor of their own connection, also when a batch
\* names a number that was another connection's when it was sent.
IdentitySound ==
  loop.pc # "release" =>
    /\ \A a \in DOMAIN connIdents :
         LET n == connIdents[a] IN
         n \in DOMAIN descs /\ descs[n].ptr = a /\ file[n] # None /\ addr[file[n]] = a
    /\ \A n \in DOMAIN descs : descs[n].ptr \in DOMAIN connIdents /\ connIdents[descs[n].ptr] = n
    /\ \A n \in DOMAIN descs : Elems(descs[n].queue) \subseteq {file[n]}

\* handleGC never delivers a result: it could block on chResults while it holds
\* gcMutex, with finalizers and GetGC waiting for that.  A connection with a
\* queued request is not finalized because the request refers to it.
GCFindsIdle == loop.pc = "release" /\ loop.back = "gc" => descs[loop.fd].queue = <<>>

\* A registered connection to which nothing refers any more gives its descriptor
\* back, by its finalizer or because the watcher is closed.
Reclaimed ==
  \A o \in Object :
    ((\E n \in Fd : file[n] = o) /\ o \notin Reachable) ~> (\A n \in Fd : file[n] # o)

\* SetLoopAffinity returns, although the loop may be blocked in deliver, as long
\* as another goroutine calls WaitIO.
AffinityAnswered == setter = "calling" ~> setter \in {"ok", "ErrConnClosed"}
=============================================================================
