--------------------------- MODULE RegistryProofs ---------------------------
(* A key stands for the connection it was entered for, for any number of    *)
(* connections, addresses and descriptors.                                  *)
EXTENDS Registry, WellFoundedInduction, TLAPS

\* A request, wherever it is in pendingCreate or pendingProcessing.
Request == [conn : Object, ptr : Addr, op : {"read", "free", "done"}]
Requests == Elems(pending) \cup Elems(loop.batch)

HeapOK ==
  /\ addr \in [Object -> Addr \cup {None}]
  /\ born \subseteq Object /\ held \subseteq Object /\ closed \subseteq Object /\ fin \subseteq Object

MapsOK ==
  /\ DOMAIN connIdents \subseteq Addr /\ connIdents \in [DOMAIN connIdents -> Fd]
  /\ DOMAIN descs \subseteq Fd /\ descs \in [DOMAIN descs -> [ptr : Addr, queue : Seq(Object)]]
  /\ file \in [Fd -> Object \cup {None}]

FinOK ==
  /\ gc \subseteq Object /\ gcMutex \in BOOLEAN /\ finq \subseteq Object
  /\ finalizer \in [pc : {"idle", "append", "notify"}, obj : Object \cup {None}]
  /\ finalizer.pc = "idle" <=> finalizer.obj = None

\* The loop has a request at hand where it looks at one.
LoopOK ==
  /\ loop \in [pc : {"select", "handle", "try", "release", "events", "lock", "gc", "exit", "done"},
               batch : Seq(Request), fd : Fd \cup {None}, back : {"none", "handle", "gc", "exit"},
               todo : SUBSET (Object \cup Fd)]
  /\ loop.pc \in {"handle", "try"} => loop.batch # <<>>
  /\ loop.pc = "release" => loop.back # "none"
  /\ loop.pc = "release" /\ loop.back = "handle" => loop.batch # <<>>

TypeOK ==
  /\ HeapOK /\ MapsOK /\ FinOK /\ LoopOK
  /\ pending \in Seq(Request) /\ events \subseteq Fd
  /\ chResults \in Seq(Object) /\ results \subseteq Object /\ run \in Scenarios

\* What refers to an object other than its finalization, and what its finalizer
\* has on the way to the loop.
Live == held \cup {r.conn : r \in Requests} \cup Queued \cup Elems(chResults) \cup results
Dying == finq \cup gc \cup ({finalizer.obj} \ {None})

\* The finalizer is still to append it.
Appending == IF finalizer.pc = "append" THEN {finalizer.obj} ELSE {}

\* An object keeps its address, which is no other's, while anything refers to it
\* or its finalizer is set.  Nothing refers again to one that is being finalized.
Heap ==
  /\ \A o \in Object : addr[o] # None => o \in born
  /\ \A o, p \in Object : addr[o] = addr[p] /\ addr[o] # None => o = p
  /\ \A o \in Live \cup Dying \cup fin : addr[o] # None
  /\ \A o \in Live : o \notin Dying
  /\ \A r \in Requests : r.ptr = addr[r.conn]

\* A registered connection: both maps name each other's keys, requests are queued
\* under their own descriptor, and its finalizer is to come.
Entered(n) ==
  LET o == file[n] IN
  /\ o \in Object /\ descs[n].ptr = addr[o] /\ Elems(descs[n].queue) \subseteq {o}
  /\ o \in closed /\ o \in fin \cup finq \cup gc \cup Appending
  /\ addr[o] \in DOMAIN connIdents /\ connIdents[addr[o]] = n

Maps ==
  /\ \A n \in Fd : file[n] # None <=> n \in DOMAIN descs
  /\ \A n \in DOMAIN descs : Entered(n)
  /\ \A a \in DOMAIN connIdents : connIdents[a] \in DOMAIN descs /\ descs[connIdents[a]].ptr = a

\* handleGC holds the lock, and has released what is on the list but not to do.
Collecting == loop.pc = "gc" \/ (loop.pc = "release" /\ loop.back = "gc")

Control ==
  /\ loop.pc = "try" => loop.fd \in DOMAIN descs /\ file[loop.fd] = Cur.conn
  /\ loop.pc = "release" => loop.fd \in DOMAIN descs
  /\ loop.pc = "release" /\ loop.back = "gc" => file[loop.fd] \in gc
  /\ Collecting =>
       /\ gcMutex /\ loop.todo \subseteq gc
       /\ \A n \in DOMAIN descs :
            file[n] \in gc => file[n] \in loop.todo \/ (loop.pc = "release" /\ n = loop.fd)

RegistryInv == Heap /\ Maps /\ Control

-----------------------------------------------------------------------------
(* Sequences and least elements.                                           *)

\* The elements of a list.
LEMMA ListElems ==
  ASSUME NEW S, NEW s \in Seq(S)
  PROVE  Elems(s) \subseteq S /\ Elems(<<>>) = {}
BY DEF Elems

\* The empty list has none.
LEMMA NoElems ==
  Elems(<<>>) = {}
BY DEF Elems

\* Append adds one.
LEMMA AppendElems ==
  ASSUME NEW S, NEW s \in Seq(S), NEW x \in S
  PROVE  /\ Append(s, x) \in Seq(S) /\ Append(s, x) # <<>>
         /\ Elems(Append(s, x)) = Elems(s) \cup {x}
<1>1. /\ Append(s, x) \in Seq(S) /\ Len(s) \in Nat /\ DOMAIN s = 1 .. Len(s)
      /\ DOMAIN Append(s, x) = 1 .. Len(s) + 1
      /\ Append(s, x)[Len(s) + 1] = x /\ \A i \in 1 .. Len(s) : Append(s, x)[i] = s[i]
  OBVIOUS
<1>2. Append(s, x) # <<>>
  BY <1>1
<1>3. Elems(Append(s, x)) = Elems(s) \cup {x}
  BY <1>1 DEF Elems
<1>4. QED
  BY <1>1, <1>2, <1>3

\* Head is one, and Tail has no others.
LEMMA HeadElems ==
  ASSUME NEW S, NEW s \in Seq(S), s # <<>>
  PROVE  /\ Head(s) \in S /\ Head(s) \in Elems(s) /\ Tail(s) \in Seq(S)
         /\ Elems(Tail(s)) \subseteq Elems(s)
<1>1. /\ Len(s) \in Nat /\ DOMAIN s = 1 .. Len(s) /\ Len(s) > 0
      /\ Head(s) = s[1] /\ Tail(s) \in Seq(S)
      /\ DOMAIN Tail(s) = 1 .. Len(s) - 1 /\ \A i \in 1 .. Len(s) - 1 : Tail(s)[i] = s[i + 1]
  OBVIOUS
<1>2. QED
  BY <1>1 DEF Elems

\* A set of numbers that is not empty has a least one.
LEMMA LowestIn ==
  ASSUME NEW S \in SUBSET Nat, S # {}
  PROVE  Lowest(S) \in S
<1> DEFINE R == OpToRel(<, Nat)
<1>1. PICK x \in S : \A y \in S : ~ (<<y, x>> \in R)
  <2> HIDE DEF R
  <2>1. IsWellFoundedOn(R, Nat)
    BY NatLessThanWellFounded, Zenon DEF R
  <2>2. QED
    BY <2>1, WFMin, Zenon
<1>2. \A y \in S : x <= y
  <2>1. ASSUME NEW y \in S PROVE ~ (y < x)
    BY <1>1, <2>1, Zenon DEF OpToRel
  <2>2. QED
    BY <2>1
<1>3. QED
  BY <1>2, Zenon DEF Lowest

-----------------------------------------------------------------------------
(* The request at hand, and steps that leave the maps alone.               *)

\* Everything referred to is an object.
LEMMA LiveType ==
  ASSUME TypeOK
  PROVE  Live \cup Dying \cup fin \subseteq Object /\ Requests \subseteq Request
<1>1. Queued \subseteq Object /\ Elems(chResults) \subseteq Object
  BY ListElems DEF Queued, TypeOK, MapsOK
<1>2. Requests \subseteq Request
  BY ListElems DEF Requests, TypeOK, LoopOK
<1>3. QED
  BY <1>1, <1>2 DEF Live, Dying, TypeOK, HeapOK, FinOK, Request

\* The first request of the batch refers to its connection, by its address.
LEMMA CurFacts ==
  ASSUME TypeOK, RegistryInv, loop.batch # <<>>
  PROVE  /\ Cur \in Request /\ Cur \in Requests /\ Cur.conn \in Object /\ Cur.conn \in Live
         /\ Cur.ptr \in Addr /\ Cur.ptr = addr[Cur.conn]
<1>1. loop.batch \in Seq(Request)
  BY DEF TypeOK, LoopOK
<1>2. Cur \in Elems(loop.batch) /\ Cur \in Request
  BY <1>1, HeadElems, Zenon DEF Cur
<1>3. Cur \in Requests /\ Cur.conn \in Object /\ Cur.ptr \in Addr
  BY <1>2 DEF Requests, Request
<1>4. QED
  BY <1>2, <1>3 DEF RegistryInv, Heap, Live

\* The requests of the next state are those of this one, some of them done.
SameRequests == \A r \in Requests' : \E q \in Requests : r.conn = q.conn /\ r.ptr = q.ptr

\* The step to the next request of the batch.
LEMMA NextFacts ==
  ASSUME TypeOK, loop.batch # <<>>
  PROVE  /\ Next1.pc = "handle" /\ Next1.fd = None
         /\ Next1.back = loop.back /\ Next1.todo = loop.todo
         /\ Next1 \in [pc : {"handle"}, batch : Seq(Request), fd : Fd \cup {None},
                       back : {"none", "handle", "gc", "exit"}, todo : SUBSET (Object \cup Fd)]
         /\ Next1.batch \in Seq(Request) /\ Next1.batch # <<>>
         /\ \A r \in Elems(Next1.batch) :
              \E q \in Elems(loop.batch) : r.conn = q.conn /\ r.ptr = q.ptr
<1> DEFINE d == [Cur EXCEPT !.op = "done"]
           b == Append(Tail(loop.batch), d)
<1>1. /\ loop.batch \in Seq(Request) /\ loop.fd \in Fd \cup {None}
      /\ loop.back \in {"none", "handle", "gc", "exit"} /\ loop.todo \in SUBSET (Object \cup Fd)
  BY DEF TypeOK, LoopOK
<1>2. /\ Cur \in Elems(loop.batch) /\ Cur \in Request /\ Tail(loop.batch) \in Seq(Request)
      /\ Elems(Tail(loop.batch)) \subseteq Elems(loop.batch)
  BY <1>1, HeadElems, Zenon DEF Cur
<1>3. d \in Request /\ d.conn = Cur.conn /\ d.ptr = Cur.ptr
  BY <1>2 DEF Request
<1> HIDE DEF d
<1>4. b \in Seq(Request) /\ b # <<>> /\ Elems(b) = Elems(Tail(loop.batch)) \cup {d}
  <2>1. \A t \in Seq(Request), x \in Request :
          /\ Append(t, x) \in Seq(Request) /\ Append(t, x) # <<>>
          /\ Elems(Append(t, x)) = Elems(t) \cup {x}
    BY AppendElems, Zenon
  <2>2. QED
    BY <1>2, <1>3, <2>1, Zenon
<1>5. \A r \in Elems(b) : \E q \in Elems(loop.batch) : r.conn = q.conn /\ r.ptr = q.ptr
  BY <1>2, <1>3, <1>4
<1> HIDE DEF b
<1>6. Next1 = [loop EXCEPT !.pc = "handle", !.fd = None, !.batch = b]
  BY DEF Next1, b, d
<1>7. /\ Next1.pc = "handle" /\ Next1.fd = None /\ Next1.batch = b
      /\ Next1.back = loop.back /\ Next1.todo = loop.todo
      /\ Next1 \in [pc : {"handle"}, batch : Seq(Request), fd : Fd \cup {None},
                    back : {"none", "handle", "gc", "exit"}, todo : SUBSET (Object \cup Fd)]
  BY <1>4, <1>6, Zenon DEF TypeOK, LoopOK
<1>8. QED
  BY <1>4, <1>5, <1>7

\* Nothing new is referred to.
LEMMA LiveShrinks ==
  ASSUME held' \subseteq held, SameRequests, Queued' \subseteq Queued,
         Elems(chResults') \subseteq Live, results' \subseteq Live
  PROVE  Live' \subseteq Live
BY DEF Live, SameRequests

\* A result in the channel is of an object that something referred to.
LEMMA DeliverLive ==
  ASSUME TypeOK, NEW o \in Object, o \in Live, Deliver(o)
  PROVE  chResults' \in Seq(Object) /\ Elems(chResults') \subseteq Live
<1>1. CASE chResults' = Append(chResults, o)
  BY <1>1, AppendElems DEF TypeOK, Live
<1>2. CASE UNCHANGED chResults
  BY <1>2 DEF TypeOK, Live
<1>3. QED
  BY <1>1, <1>2 DEF Deliver

\* Heap depends on few variables.
LEMMA HeapSame ==
  ASSUME TypeOK, Heap, UNCHANGED <<addr, born, fin, finq, gc, finalizer>>,
         Live' \subseteq Live, SameRequests
  PROVE  Heap'
<1>1. Dying' = Dying
  BY DEF Dying
<1>2. \A r \in Requests' : r.ptr = addr[r.conn]
  BY DEF Heap, SameRequests
<1>3. QED
  BY <1>1, <1>2 DEF Heap

\* So does Maps.
LEMMA MapsSame ==
  ASSUME TypeOK, Maps, UNCHANGED <<file, connIdents, closed>>, DOMAIN descs' = DOMAIN descs,
         \A n \in DOMAIN descs :
           /\ addr'[file[n]] = addr[file[n]] /\ descs'[n].ptr = descs[n].ptr
           /\ Elems(descs'[n].queue) \subseteq {file[n]}
           /\ file[n] \in (fin \cup finq \cup gc \cup Appending)'
  PROVE  Maps'
<1>1. \A n \in DOMAIN descs : Entered(n)'
  BY ZenonT(30) DEF Maps, Entered
<1>2. \A a \in DOMAIN connIdents : descs'[connIdents[a]].ptr = descs[connIdents[a]].ptr
  BY DEF Maps
<1>3. QED
  BY <1>1, <1>2 DEF Maps

\* Control, if the loop does not move.
LEMMA ControlSame ==
  ASSUME Control, UNCHANGED <<loop, file, gc, gcMutex>>, DOMAIN descs' = DOMAIN descs
  PROVE  Control'
BY DEF Control, Collecting, Cur

\* The heap, the maps and the finalizers are not touched.
Quiet == UNCHANGED <<addr, born, fin, closed, mapVars, gc, finVars>>

\* A step that touches none of them and refers to nothing new.
LEMMA QuietInv ==
  ASSUME TypeOK, RegistryInv, Quiet, held' \subseteq held, SameRequests,
         Elems(chResults') \subseteq Live, results' \subseteq Live
  PROVE  Heap' /\ Maps'
<1>1. Queued' = Queued
  BY DEF Quiet, mapVars, Queued
<1>2. Live' \subseteq Live
  BY <1>1, LiveShrinks
<1>3. Heap'
  BY <1>2, HeapSame DEF RegistryInv, Quiet, finVars
<1>4. Maps'
  BY DEF RegistryInv, Quiet, mapVars, finVars, Maps, Entered, Appending
<1>5. QED
  BY <1>3, <1>4

-----------------------------------------------------------------------------
(* The program, its users and the poller.                                  *)

\* Dropping a reference, WaitIO, Close, SetLoopAffinity and the poller.
LEMMA UsersInv ==
  ASSUME TypeOK, RegistryInv,
         \/ WaitIO \/ Close \/ SetLoopAffinity \/ SetterDie \/ LoopCPU \/ PollerReports
         \/ \E o \in Object : Forget(o)
  PROVE  TypeOK' /\ RegistryInv'
<1>1. /\ Quiet /\ UNCHANGED <<pending, loop, gcMutex, run>> /\ held' \subseteq held
      /\ Elems(chResults') \subseteq Live /\ results' \subseteq Live
      /\ chResults' \in Seq(Object) /\ results' \subseteq Object /\ events' \subseteq Fd
  <2>1. Elems(<<>>) = {} /\ Elems(chResults) \subseteq Object
    BY ListElems DEF TypeOK
  <2>2. ASSUME NEW o \in Object, Forget(o)
        PROVE  /\ Quiet /\ UNCHANGED <<pending, loop, gcMutex, run, chResults, results, events>>
               /\ held' \subseteq held
    BY <2>2 DEF Forget, Quiet, mapVars, gcVars, finVars, apiVars
  <2>3. CASE Close \/ SetLoopAffinity \/ SetterDie \/ LoopCPU
    BY <2>3 DEF Close, SetLoopAffinity, SetterDie, LoopCPU, Quiet, heapVars, mapVars, gcVars,
                finVars, TypeOK, Live
  <2>4. CASE PollerReports
    BY <2>4 DEF PollerReports, Quiet, heapVars, mapVars, gcVars, finVars, apiVars, TypeOK, Live,
                MapsOK
  <2>5. CASE WaitCall
    BY <2>5 DEF WaitCall, Quiet, heapVars, mapVars, gcVars, finVars, apiVars, TypeOK, Live
  <2>6. CASE WaitReturn
    BY <2>1, <2>6 DEF WaitReturn, Quiet, heapVars, mapVars, gcVars, finVars, apiVars, TypeOK, Live
  <2>7. QED
    BY <2>2, <2>3, <2>4, <2>5, <2>6 DEF WaitIO, TypeOK, Live
<1>2. SameRequests
  BY <1>1 DEF SameRequests, Requests
<1>3. Heap' /\ Maps'
  BY <1>1, <1>2, QuietInv
<1>4. Control'
  BY <1>1, ControlSame DEF RegistryInv, Quiet, mapVars
<1>5. TypeOK'
  BY <1>1 DEF TypeOK, HeapOK, MapsOK, FinOK, LoopOK, Quiet, mapVars, finVars
<1>6. QED
  BY <1>3, <1>4, <1>5 DEF RegistryInv

\* Read, Write and Free name a connection that the program holds.
LEMMA SubmitInv ==
  ASSUME TypeOK, RegistryInv, NEW o \in Object, NEW op \in {"read", "free"}, Submit(o, op)
  PROVE  TypeOK' /\ RegistryInv'
<1> DEFINE q == [conn |-> o, ptr |-> addr[o], op |-> op]
<1>1. /\ Quiet /\ o \in held /\ pending' = Append(pending, q)
      /\ UNCHANGED <<held, events, chResults, results, loop, gcMutex, run>>
  BY DEF Submit, Quiet, heapVars, mapVars, gcVars, finVars
<1>2. o \in Live /\ addr[o] \in Addr
  BY <1>1 DEF Live, RegistryInv, Heap, TypeOK, HeapOK
<1>3. q \in Request /\ q.conn = o /\ q.ptr = addr[o]
  BY <1>2 DEF Request
<1> HIDE DEF q
<1>4. pending' \in Seq(Request) /\ Requests' = Requests \cup {q}
  BY <1>1, <1>3, AppendElems DEF TypeOK, Requests
<1>5. Queued' = Queued /\ Dying' = Dying
  BY <1>1 DEF Quiet, mapVars, finVars, Queued, Dying
<1>6. Live' = Live
  BY <1>1, <1>2, <1>3, <1>4, <1>5 DEF Live
<1>7. Heap'
  BY <1>1, <1>3, <1>4, <1>5, <1>6 DEF RegistryInv, Heap, Quiet
<1>8. Maps' /\ Control'
  BY <1>1, ControlSame DEF RegistryInv, Quiet, mapVars, finVars, Maps, Entered, Appending
<1>9. TypeOK'
  BY <1>1, <1>4 DEF TypeOK, HeapOK, MapsOK, FinOK, LoopOK, Quiet, mapVars, finVars
<1>10. QED
  BY <1>7, <1>8, <1>9 DEF RegistryInv

\* A new object gets an address that no other one has.
LEMMA AllocateInv ==
  ASSUME TypeOK, RegistryInv, NEW o \in Object, Allocate(o)
  PROVE  TypeOK' /\ RegistryInv'
<1> DEFINE free == run.addrs \ {addr[p] : p \in Object}
           a == Lowest(free)
<1>1. /\ o \notin born /\ free # {} /\ addr' = [addr EXCEPT ![o] = a]
      /\ born' = born \cup {o} /\ held' = held \cup {o}
      /\ UNCHANGED <<closed, fin, pending, mapVars, events, chResults, results, gcVars, finVars,
                     run, loop>>
  BY DEF Allocate, apiVars
<1>2. a \in free /\ a \in Addr /\ a # None
  <2>1. run.addrs \subseteq Addr /\ Addr \subseteq Nat /\ None \notin Addr
    BY KeysAssumption DEF TypeOK
  <2>2. free \in SUBSET Nat
    BY <2>1
  <2> HIDE DEF free
  <2>3. a \in free
    BY <1>1, <2>2, LowestIn
  <2>4. QED
    BY <2>1, <2>3 DEF free
<1>3. addr[o] = None /\ addr \in [Object -> Addr \cup {None}]
  BY <1>1 DEF RegistryInv, Heap, TypeOK, HeapOK
<1>4. \A p \in Object : addr[p] # a
  BY <1>2
<1> HIDE DEF free, a
<1>5. /\ addr' \in [Object -> Addr \cup {None}] /\ addr'[o] = a
      /\ \A p \in Object : p # o => addr'[p] = addr[p]
  BY <1>1, <1>2, <1>3
<1>6. Live' = Live \cup {o} /\ Requests' = Requests /\ Dying' = Dying
  <2>1. Queued' = Queued /\ Requests' = Requests
    BY <1>1 DEF mapVars, Queued, Requests
  <2>2. QED
    BY <1>1, <2>1 DEF Live, gcVars, finVars, Dying
<1>7. o \notin Live \cup Dying \cup fin
  BY <1>3 DEF RegistryInv, Heap
<1>8. Live \cup Dying \cup fin \subseteq Object
  BY LiveType
<1>9. Heap'
  <2>1. \A r \in Requests : r.conn \in Live
    BY DEF Live
  <2>2. \A r \in Requests : r.ptr = addr'[r.conn]
    BY <1>5, <1>7, <1>8, <2>1 DEF RegistryInv, Heap
  <2>3. \A p, q \in Object : addr'[p] = addr'[q] /\ addr'[p] # None => p = q
    BY <1>4, <1>5 DEF RegistryInv, Heap
  <2>4. \A p \in Live' \cup Dying' \cup fin' : addr'[p] # None
    BY <1>1, <1>2, <1>5, <1>6, <1>7, <1>8 DEF RegistryInv, Heap
  <2>5. QED
    BY <1>1, <1>3, <1>5, <1>6, <1>7, <2>2, <2>3, <2>4 DEF RegistryInv, Heap
<1>10. Maps'
  <2>1. \A n \in DOMAIN descs : file[n] \in Object /\ addr[file[n]] \in Addr
    BY DEF RegistryInv, Maps, Entered, TypeOK, MapsOK
  <2>2. \A n \in DOMAIN descs : addr'[file[n]] = addr[file[n]]
    BY <1>3, <1>5, <2>1, KeysAssumption
  <2>3. QED
    BY <1>1, <2>2, MapsSame DEF RegistryInv, Maps, Entered, mapVars, gcVars, finVars, Appending
<1>11. Control'
  BY <1>1, ControlSame DEF RegistryInv, mapVars, gcVars
<1>12. TypeOK'
  BY <1>1, <1>5 DEF TypeOK, HeapOK, MapsOK, FinOK, LoopOK, mapVars, gcVars, finVars
<1>13. QED
  BY <1>9, <1>10, <1>11, <1>12 DEF RegistryInv

-----------------------------------------------------------------------------
(* The collector and the finalizers.                                       *)

\* What is not reachable is neither referred to nor being finalized.
LEMMA ReachableIs ==
  ASSUME TypeOK, NEW o \in Object, o \notin Reachable
  PROVE  o \notin Live /\ o \notin Dying
BY DEF Reachable, Live, Dying, Requests

\* The collector frees an address only when no key stands for it: a registered
\* connection has a finalizer, which comes first.
LEMMA CollectInv ==
  ASSUME TypeOK, RegistryInv, NEW o \in Object, Collect(o)
  PROVE  TypeOK' /\ RegistryInv'
<1>1. /\ o \notin Live /\ o \notin Dying
      /\ UNCHANGED <<born, held, closed, pending, mapVars, events, chResults, results, gcVars,
                     finalizer, run, loop>>
      /\ \/ o \in fin /\ fin' = fin \ {o} /\ finq' = finq \cup {o} /\ UNCHANGED addr
         \/ o \notin fin /\ addr' = [addr EXCEPT ![o] = None] /\ UNCHANGED <<fin, finq>>
  BY ReachableIs DEF Collect, apiVars
<1>2. addr \in [Object -> Addr \cup {None}] /\ (o \in fin => addr[o] # None)
  BY DEF TypeOK, HeapOK, RegistryInv, Heap
<1>3. Live' = Live /\ Requests' = Requests
  <2>1. Queued' = Queued /\ Requests' = Requests
    BY <1>1 DEF mapVars, Queued, Requests
  <2>2. QED
    BY <1>1, <2>1 DEF Live
<1>4. \A r \in Requests : r.conn \in Live /\ r.conn \in Object
  BY LiveType DEF Live, Request
<1>5. CASE o \in fin
  <2>1. /\ fin' = fin \ {o} /\ finq' = finq \cup {o} /\ UNCHANGED addr
        /\ Dying' = Dying \cup {o}
    BY <1>1, <1>5 DEF Dying, gcVars
  <2>2. Heap'
    BY <1>1, <1>2, <1>3, <1>5, <2>1 DEF RegistryInv, Heap
  <2>3. Maps'
    BY <1>1, <2>1, Zenon DEF RegistryInv, Maps, Entered, mapVars, gcVars, Appending
  <2>4. QED
    BY <1>1, <2>1, <2>2, <2>3, ControlSame
       DEF RegistryInv, mapVars, gcVars, TypeOK, HeapOK, MapsOK, FinOK, LoopOK
<1>6. CASE o \notin fin
  <2>1. /\ UNCHANGED <<fin, finq>> /\ Dying' = Dying /\ addr' \in [Object -> Addr \cup {None}]
        /\ addr'[o] = None /\ \A p \in Object : p # o => addr'[p] = addr[p]
    BY <1>1, <1>2, <1>6 DEF Dying, gcVars
  <2>2. Heap'
    <3>1. \A r \in Requests : r.ptr = addr'[r.conn]
      BY <1>1, <1>4, <2>1 DEF RegistryInv, Heap
    <3>2. \A p \in Live \cup Dying \cup fin : addr'[p] # None
      BY <1>1, <1>6, <2>1, LiveType DEF RegistryInv, Heap
    <3>3. \A p, q \in Object : addr'[p] = addr'[q] /\ addr'[p] # None => p = q
      BY <2>1 DEF RegistryInv, Heap
    <3>4. QED
      BY <1>1, <1>3, <2>1, <3>1, <3>2, <3>3 DEF RegistryInv, Heap
  <2>3. Maps'
    <3>1. \A n \in DOMAIN descs : file[n] \in Object /\ file[n] \in fin \cup finq \cup gc \cup Appending
      BY DEF RegistryInv, Maps, Entered
    <3>2. \A n \in DOMAIN descs : file[n] # o
      <4>1. o \notin finq \cup gc /\ (finalizer.obj # None => o # finalizer.obj)
        BY <1>1 DEF Dying
      <4>2. o \notin Appending
        BY <4>1 DEF Appending, TypeOK, FinOK
      <4>3. QED
        BY <1>6, <3>1, <4>1, <4>2
    <3>3. \A n \in DOMAIN descs : addr'[file[n]] = addr[file[n]]
      BY <2>1, <3>1, <3>2
    <3>4. QED
      BY <1>1, <2>1, <3>3, MapsSame DEF RegistryInv, Maps, Entered, mapVars, gcVars, Appending
  <2>4. QED
    BY <1>1, <2>1, <2>2, <2>3, ControlSame
       DEF RegistryInv, mapVars, gcVars, TypeOK, HeapOK, MapsOK, FinOK, LoopOK
<1>7. QED
  BY <1>5, <1>6

\* The finalizer goroutine passes objects on: from its queue to the gc list, which
\* it does not touch while handleGC holds the lock.
LEMMA FinalizerInv ==
  ASSUME TypeOK, RegistryInv, Runtime
  PROVE  TypeOK' /\ RegistryInv'
<1>1. /\ UNCHANGED <<heapVars, pending, mapVars, events, chResults, results, gcMutex, run, loop>>
      /\ gc' \subseteq Object /\ finq' \subseteq Object
      /\ finalizer' \in [pc : {"idle", "append", "notify"}, obj : Object \cup {None}]
      /\ finalizer'.pc = "idle" <=> finalizer'.obj = None
      /\ Dying' \subseteq Dying /\ finq \cup gc \cup Appending \subseteq (finq \cup gc \cup Appending)'
      /\ (gc' = gc \/ ~ gcMutex)
  <2> USE KeysAssumption DEF TypeOK, FinOK
  <2>1. CASE FinalizerStart
    <3>1. PICK o \in finq : finq' = finq \ {o} /\ finalizer' = [pc |-> "append", obj |-> o]
      BY <2>1, Zenon DEF FinalizerStart
    <3>2. finalizer.pc = "idle" /\ UNCHANGED <<gc, gcMutex>>
      BY <2>1 DEF FinalizerStart, gcVars
    <3>3. QED
      BY <2>1, <3>1, <3>2 DEF FinalizerStart, Dying, Appending, apiVars
  <2>2. CASE FinalizerAppend
    <3>1. /\ finalizer.pc = "append" /\ ~ gcMutex /\ gc' = gc \cup {finalizer.obj}
          /\ finalizer'.pc = "notify" /\ finalizer'.obj = finalizer.obj
          /\ finalizer' \in [pc : {"idle", "append", "notify"}, obj : Object \cup {None}]
          /\ UNCHANGED <<gcMutex, finq>>
      BY <2>2 DEF FinalizerAppend
    <3>2. QED
      BY <2>2, <3>1 DEF FinalizerAppend, Dying, Appending, apiVars
  <2>3. CASE FinalizerNotify
    <3>1. /\ finalizer.pc = "notify" /\ finalizer' = [pc |-> "idle", obj |-> None]
          /\ UNCHANGED <<gc, gcMutex, finq>>
      BY <2>3 DEF FinalizerNotify
    <3>2. QED
      BY <2>3, <3>1 DEF FinalizerNotify, Dying, Appending, apiVars
  <2>4. QED
    BY <2>1, <2>2, <2>3 DEF Runtime
<1>2. Live' = Live /\ Requests' = Requests
  <2>1. Queued' = Queued /\ Requests' = Requests
    BY <1>1 DEF mapVars, Queued, Requests
  <2>2. QED
    BY <1>1, <2>1 DEF Live, heapVars
<1>3. Heap'
  BY <1>1, <1>2 DEF RegistryInv, Heap, heapVars
<1>4. Maps'
  BY <1>1 DEF RegistryInv, Maps, Entered, heapVars, mapVars
<1>5. Control'
  BY <1>1, Zenon DEF RegistryInv, Control, Collecting, Cur, mapVars
<1>6. TypeOK'
  BY <1>1 DEF TypeOK, HeapOK, MapsOK, FinOK, LoopOK, heapVars, mapVars
<1>7. QED
  BY <1>3, <1>4, <1>5, <1>6 DEF RegistryInv

-----------------------------------------------------------------------------
(* The loop.                                                               *)

\* The cases of the select, and the steps between requests, events and objects
\* that change no map.
LEMMA LoopMoves ==
  ASSUME TypeOK, RegistryInv, Quiet,
         UNCHANGED <<held, results, run>>, events' \subseteq Fd, gcMutex' \in BOOLEAN,
         pending' \in Seq(Request), chResults' \in Seq(Object),
         Elems(chResults') \subseteq Live, SameRequests, LoopOK', Control'
  PROVE  TypeOK' /\ RegistryInv'
<1>1. Heap' /\ Maps'
  <2>1. results \subseteq Live
    BY DEF Live
  <2>2. QED
    BY <2>1, QuietInv
<1>2. TypeOK'
  BY DEF TypeOK, HeapOK, MapsOK, FinOK, Quiet, mapVars, finVars
<1>3. QED
  BY <1>1, <1>2 DEF RegistryInv

\* LoopPending, LoopEvents, LoopGC and LoopDie: a case is chosen.
LEMMA SelectInv ==
  ASSUME TypeOK, RegistryInv, LoopPending \/ LoopEvents \/ LoopGC \/ LoopDie
  PROVE  TypeOK' /\ RegistryInv'
<1>1. /\ Quiet /\ UNCHANGED <<held, events, chResults, results, gcMutex, run>> /\ loop.pc = "select"
      /\ loop'.pc \in {"handle", "events", "lock", "exit"}
  BY Zenon DEF LoopPending, LoopEvents, LoopGC, LoopDie, Quiet, heapVars, mapVars, gcVars, finVars,
         apiVars, TypeOK, LoopOK
<1>2. LoopOK' /\ pending' \in Seq(Request)
  <2>1. CASE LoopPending
    <3>1. /\ pending \in Seq(Request) /\ pending # <<>> /\ pending' = <<>>
          /\ loop' = [loop EXCEPT !.pc = "handle", !.batch = pending]
      BY <2>1 DEF LoopPending, TypeOK
    <3>2. LoopOK'
      BY <3>1, Zenon DEF TypeOK, LoopOK
    <3>3. QED
      BY <3>1, <3>2
  <2>2. CASE LoopEvents
    <3>1. events \in SUBSET (Object \cup Fd)
      BY DEF TypeOK
    <3>2. QED
      BY <2>2, <3>1, Zenon DEF LoopEvents, TypeOK, LoopOK
  <2>3. CASE LoopGC \/ LoopDie
    BY <2>3 DEF LoopGC, LoopDie, TypeOK, LoopOK
  <2>4. QED
    BY <2>1, <2>2, <2>3
<1>3. Requests' \subseteq Requests
  <2>1. CASE LoopPending
    <3>1. pending' = <<>> /\ loop'.batch = pending
      BY <2>1 DEF LoopPending, TypeOK, LoopOK
    <3>2. QED
      BY <3>1 DEF Requests, Elems
  <2>2. CASE LoopEvents \/ LoopGC \/ LoopDie
    BY <2>2, Zenon DEF LoopEvents, LoopGC, LoopDie, Requests, TypeOK, LoopOK
  <2>3. QED
    BY <2>1, <2>2
<1>4. SameRequests
  BY <1>3 DEF SameRequests
<1>5. Control'
  BY <1>1 DEF Control, Collecting
<1>6. QED
  BY <1>1, <1>2, <1>4, <1>5, LoopMoves DEF TypeOK, FinOK, Live

\* BatchEnd, EventOver and EventsEnd.
LEMMA OverInv ==
  ASSUME TypeOK, RegistryInv, BatchEnd \/ EventsEnd \/ \E n \in Fd : EventOver(n)
  PROVE  TypeOK' /\ RegistryInv'
<1>1. /\ Quiet /\ UNCHANGED <<held, pending, chResults, results, gcMutex, run>>
      /\ events' \subseteq Fd /\ loop'.pc \in {"select", "events", "exit"}
      /\ loop'.batch = <<>> \/ loop'.batch = loop.batch
  BY DEF BatchEnd, EventsEnd, EventOver, AtSelect, Quiet, heapVars, mapVars, gcVars, finVars,
         apiVars, TypeOK, LoopOK
<1>2. LoopOK'
  <2>1. CASE loop' = AtSelect
    BY <2>1 DEF AtSelect, LoopOK
  <2>2. ASSUME NEW n \in Fd, EventOver(n) PROVE LoopOK'
    <3>1. loop.todo \ {n} \in SUBSET (Object \cup Fd) /\ loop.pc = "events"
      BY <2>2 DEF EventOver, TypeOK, LoopOK
    <3>2. QED
      BY <2>2, <3>1, Zenon DEF EventOver, TypeOK, LoopOK
  <2>3. CASE loop' = [loop EXCEPT !.pc = "exit"]
    BY <2>3, Zenon DEF TypeOK, LoopOK
  <2>4. QED
    BY <2>1, <2>2, <2>3, Zenon DEF BatchEnd, EventsEnd
<1>3. SameRequests
  BY <1>1 DEF SameRequests, Requests, Elems
<1>4. Control'
  BY <1>1 DEF Control, Collecting
<1>5. QED
  BY <1>1, <1>2, <1>3, <1>4, LoopMoves DEF TypeOK, FinOK, Live

\* The address of the request at hand leads to its own connection.
LEMMA RegisteredIs ==
  ASSUME TypeOK, RegistryInv, NEW o \in Object, addr[o] \in DOMAIN connIdents
  PROVE  connIdents[addr[o]] \in DOMAIN descs /\ file[connIdents[addr[o]]] = o
<1> DEFINE n == connIdents[addr[o]]
<1>1. n \in DOMAIN descs /\ descs[n].ptr = addr[o] /\ addr[o] # None
  BY KeysAssumption DEF RegistryInv, Maps, TypeOK, MapsOK
<1>2. file[n] \in Object /\ descs[n].ptr = addr[file[n]]
  BY <1>1 DEF RegistryInv, Maps, Entered
<1>3. QED
  BY <1>1, <1>2, Zenon DEF RegistryInv, Heap

\* Free of a registered connection begins its release.
LEMMA HandleFreeInv ==
  ASSUME TypeOK, RegistryInv, HandleFree
  PROVE  TypeOK' /\ RegistryInv'
<1>1. /\ Quiet /\ UNCHANGED <<held, pending, events, chResults, results, gcMutex, run>>
      /\ loop.batch # <<>> /\ Cur.ptr \in DOMAIN connIdents
      /\ loop' = [Next1 EXCEPT !.pc = "release", !.fd = connIdents[Cur.ptr], !.back = "handle"]
  BY DEF HandleFree, Registered, Quiet, heapVars, mapVars, gcVars, finVars, apiVars, TypeOK, LoopOK
<1>2. Cur.ptr = addr[Cur.conn] /\ Cur.conn \in Object
  BY <1>1, CurFacts
<1>3. connIdents[Cur.ptr] \in DOMAIN descs /\ connIdents[Cur.ptr] \in Fd
  BY <1>1, <1>2, RegisteredIs, Zenon DEF TypeOK, MapsOK
<1>4. LoopOK' /\ loop'.pc = "release" /\ loop'.back = "handle" /\ loop'.batch = Next1.batch
      /\ loop'.fd = connIdents[Cur.ptr]
  BY <1>1, <1>3, NextFacts, Zenon DEF LoopOK
<1>5. SameRequests
  BY <1>1, <1>4, NextFacts DEF SameRequests, Requests
<1>6. Control'
  BY <1>1, <1>3, <1>4 DEF Control, Collecting, Quiet, mapVars
<1>7. QED
  BY <1>1, <1>4, <1>5, <1>6, LoopMoves DEF TypeOK, FinOK, Live

\* dupconn fails, and the request is delivered with the error.
LEMMA HandleDupFailsInv ==
  ASSUME TypeOK, RegistryInv, HandleDupFails
  PROVE  TypeOK' /\ RegistryInv'
<1>1. /\ Quiet /\ UNCHANGED <<held, pending, events, results, gcMutex, run>>
      /\ loop.batch # <<>> /\ Deliver(Cur.conn) /\ loop' = Next1 /\ loop.pc = "handle"
  BY DEF HandleDupFails, Quiet, heapVars, mapVars, gcVars, finVars, apiVars, TypeOK, LoopOK
<1>2. Cur.conn \in Object /\ Cur.conn \in Live
  BY <1>1, CurFacts
<1>3. chResults' \in Seq(Object) /\ Elems(chResults') \subseteq Live
  BY <1>1, <1>2, DeliverLive
<1>4. LoopOK' /\ loop'.pc = "handle"
  BY <1>1, NextFacts DEF LoopOK
<1>5. SameRequests
  BY <1>1, NextFacts DEF SameRequests, Requests
<1>6. Control'
  BY <1>4 DEF Control, Collecting
<1>7. QED
  BY <1>1, <1>3, <1>4, <1>5, <1>6, LoopMoves DEF TypeOK, FinOK

\* A request on a registered connection finds its descriptor.
LEMMA HandleRegisteredInv ==
  ASSUME TypeOK, RegistryInv, HandleRegistered
  PROVE  TypeOK' /\ RegistryInv'
<1>1. /\ Quiet /\ UNCHANGED <<held, pending, events, chResults, results, gcMutex, run>>
      /\ loop.batch # <<>> /\ Cur.ptr \in DOMAIN connIdents
      /\ loop' = [loop EXCEPT !.pc = "try", !.fd = connIdents[Cur.ptr]]
  BY DEF HandleRegistered, Registered, Quiet, heapVars, mapVars, gcVars, finVars, apiVars,
         TypeOK, LoopOK
<1>2. Cur.ptr = addr[Cur.conn] /\ Cur.conn \in Object
  BY <1>1, CurFacts
<1>3. /\ connIdents[Cur.ptr] \in DOMAIN descs /\ connIdents[Cur.ptr] \in Fd
      /\ file[connIdents[Cur.ptr]] = Cur.conn
  BY <1>1, <1>2, RegisteredIs DEF TypeOK, MapsOK
<1>4. LoopOK' /\ loop'.pc = "try" /\ loop'.batch = loop.batch /\ loop'.fd = connIdents[Cur.ptr]
  BY <1>1, <1>3, Zenon DEF TypeOK, LoopOK
<1>5. SameRequests
  BY <1>1, <1>4 DEF SameRequests, Requests
<1>6. Control'
  BY <1>1, <1>3, <1>4 DEF Control, Collecting, Quiet, mapVars, Cur
<1>7. QED
  BY <1>1, <1>4, <1>5, <1>6, LoopMoves DEF TypeOK, FinOK, Live

\* A queue changes, but only holds requests of its own connection.
LEMMA QueueInv ==
  ASSUME TypeOK, RegistryInv, NEW n \in DOMAIN descs, NEW q \in Seq(Object),
         Elems(q) \subseteq {file[n]}, Elems(q) \subseteq Live,
         descs' = [descs EXCEPT ![n].queue = q],
         UNCHANGED <<heapVars, connIdents, file, gc, finVars, results>>,
         Elems(chResults') \subseteq Live, SameRequests
  PROVE  Heap' /\ Maps' /\ MapsOK' /\ DOMAIN descs' = DOMAIN descs
<1>1. /\ DOMAIN descs \subseteq Fd
      /\ descs \in [DOMAIN descs -> [ptr : Addr, queue : Seq(Object)]]
  BY DEF TypeOK, MapsOK
<1>2. /\ DOMAIN descs' = DOMAIN descs
      /\ descs' \in [DOMAIN descs -> [ptr : Addr, queue : Seq(Object)]]
      /\ descs'[n].queue = q /\ descs'[n].ptr = descs[n].ptr
      /\ \A m \in DOMAIN descs : m # n => descs'[m] = descs[m]
  BY <1>1
<1>3. MapsOK'
  BY <1>2 DEF TypeOK, MapsOK
<1>4. Live' \subseteq Live
  <2>1. Queued' \subseteq Queued \cup Elems(q)
    BY <1>2 DEF Queued
  <2>2. QED
    BY <2>1 DEF Live, SameRequests, heapVars
<1>5. Heap'
  BY <1>4, HeapSame DEF RegistryInv, heapVars, finVars
<1>6. \A m \in DOMAIN descs : descs'[m].ptr = descs[m].ptr /\ Elems(descs'[m].queue) \subseteq {file[m]}
  BY <1>2, Zenon DEF RegistryInv, Maps, Entered
<1>7. Maps'
  BY <1>2, <1>6, MapsSame, Zenon DEF RegistryInv, Maps, Entered, heapVars, finVars, Appending
<1>8. QED
  BY <1>2, <1>3, <1>5, <1>7

\* The queue of a registered connection holds that connection only.
LEMMA QueueFacts ==
  ASSUME TypeOK, RegistryInv, NEW n \in DOMAIN descs
  PROVE  /\ file[n] \in Object /\ descs[n].queue \in Seq(Object)
         /\ Elems(descs[n].queue) \subseteq {file[n]} /\ Elems(descs[n].queue) \subseteq Live
<1>1. Elems(descs[n].queue) \subseteq Queued
  BY DEF Queued
<1>2. QED
  BY <1>1, Zenon DEF RegistryInv, Maps, Entered, TypeOK, MapsOK, Live

\* The first request of a queue is completed, by an event or by the release.
LEMMA PopInv ==
  ASSUME TypeOK, RegistryInv, ReleaseQueued \/ \E n \in Fd : EventServed(n)
  PROVE  TypeOK' /\ RegistryInv'
<1>1. PICK n \in DOMAIN descs : /\ descs[n].queue # <<>> /\ Deliver(Head(descs[n].queue))
                               /\ descs' = [descs EXCEPT ![n].queue = Tail(@)]
  <2>1. ReleaseQueued => loop.fd \in DOMAIN descs
    BY DEF ReleaseQueued, RegistryInv, Control
  <2>2. QED
    BY <2>1 DEF ReleaseQueued, EventServed
<1>2. UNCHANGED <<heapVars, pending, connIdents, file, events, results, gcVars, finVars, run, loop>>
  BY DEF ReleaseQueued, EventServed, apiVars
<1> DEFINE s == descs[n].queue
           q == Tail(s)
<1>3. /\ s \in Seq(Object) /\ Elems(s) \subseteq {file[n]} /\ Elems(s) \subseteq Live
  BY QueueFacts
<1>4. /\ Head(s) \in Object /\ Head(s) \in Elems(s) /\ q \in Seq(Object) /\ Elems(q) \subseteq Elems(s)
  BY <1>1, <1>3, HeadElems, Zenon
<1>5. chResults' \in Seq(Object) /\ Elems(chResults') \subseteq Live
  BY <1>1, <1>3, <1>4, DeliverLive
<1>6. SameRequests
  BY <1>2 DEF SameRequests, Requests
<1>7. Heap' /\ Maps' /\ MapsOK' /\ DOMAIN descs' = DOMAIN descs
  <2>1. descs' = [descs EXCEPT ![n].queue = q]
    BY <1>1
  <2> HIDE DEF q, s
  <2>2. QED
    BY <1>2, <1>3, <1>4, <1>5, <1>6, <2>1, QueueInv, Zenon DEF gcVars
<1>8. Control'
  BY <1>2, <1>7, ControlSame DEF RegistryInv, gcVars
<1>9. TypeOK'
  BY <1>2, <1>5, <1>7 DEF TypeOK, HeapOK, FinOK, LoopOK, heapVars, gcVars, finVars
<1>10. QED
  BY <1>7, <1>8, <1>9 DEF RegistryInv

\* The operation at hand completes at once or is queued under its own descriptor.
LEMMA HandleTryInv ==
  ASSUME TypeOK, RegistryInv, HandleTry
  PROVE  TypeOK' /\ RegistryInv'
<1> DEFINE n == loop.fd
           s == descs[n].queue
           q == Append(s, Cur.conn)
<1>1. /\ loop.batch # <<>> /\ n \in DOMAIN descs /\ file[n] = Cur.conn /\ loop' = Next1
      /\ UNCHANGED <<heapVars, pending, connIdents, file, events, results, gcVars, finVars, run>>
  BY DEF HandleTry, TypeOK, LoopOK, RegistryInv, Control, apiVars
<1>2. Cur.conn \in Object /\ Cur.conn \in Live
  BY <1>1, CurFacts
<1>3. LoopOK' /\ loop'.pc = "handle"
  BY <1>1, NextFacts DEF LoopOK
<1>4. SameRequests
  BY <1>1, NextFacts DEF SameRequests, Requests
<1>5. Control'
  BY <1>3 DEF Control, Collecting
<1>6. CASE UNCHANGED descs /\ (Deliver(Cur.conn) \/ UNCHANGED chResults)
  <2>1. chResults' \in Seq(Object) /\ Elems(chResults') \subseteq Live
    BY <1>2, <1>6, DeliverLive DEF TypeOK, Live
  <2>2. Quiet /\ UNCHANGED <<held, gcMutex>>
    BY <1>1, <1>6 DEF Quiet, heapVars, mapVars, gcVars
  <2>3. QED
    BY <1>1, <1>3, <1>4, <1>5, <2>1, <2>2, LoopMoves DEF TypeOK, FinOK
<1>7. CASE descs' = [descs EXCEPT ![n].queue = Append(@, Cur.conn)] /\ UNCHANGED chResults
  <2>1. s \in Seq(Object) /\ Elems(s) \subseteq {file[n]} /\ Elems(s) \subseteq Live
    BY <1>1, QueueFacts, Zenon
  <2>2. q \in Seq(Object) /\ Elems(q) = Elems(s) \cup {Cur.conn}
    <3>1. \A t \in Seq(Object), x \in Object :
            Append(t, x) \in Seq(Object) /\ Elems(Append(t, x)) = Elems(t) \cup {x}
      BY AppendElems
    <3>2. QED
      BY <1>2, <2>1, <3>1
  <2>3. descs' = [descs EXCEPT ![n].queue = q]
    BY <1>7
  <2>4. Elems(chResults') \subseteq Live
    BY <1>7 DEF Live
  <2> HIDE DEF n, s, q
  <2>5. Heap' /\ Maps' /\ MapsOK'
    BY <1>1, <1>2, <1>4, <2>1, <2>2, <2>3, <2>4, QueueInv, Zenon DEF gcVars
  <2>6. TypeOK'
    BY <1>1, <1>3, <1>7, <2>5 DEF TypeOK, HeapOK, FinOK, heapVars, gcVars, finVars
  <2>7. QED
    BY <1>5, <2>5, <2>6 DEF RegistryInv
<1>8. QED
  BY <1>6, <1>7 DEF HandleTry

\* The first request on a connection enters it in both maps, at a key that nobody
\* has, and sets its finalizer.
LEMMA HandleRegisterInv ==
  ASSUME TypeOK, RegistryInv, HandleRegister
  PROVE  TypeOK' /\ RegistryInv'
<1> DEFINE n == Lowest(Unused)
           o == Cur.conn
           a == Cur.ptr
<1>1. /\ loop.batch # <<>> /\ a \notin DOMAIN connIdents /\ o \notin closed /\ Unused # {}
      /\ file' = [file EXCEPT ![n] = o]
      /\ descs' = Extended(descs, n, [ptr |-> a, queue |-> <<>>])
      /\ connIdents' = Extended(connIdents, a, n)
      /\ loop' = [loop EXCEPT !.pc = "try", !.fd = n]
      /\ closed' = closed \cup {o} /\ fin' = fin \cup {o}
      /\ UNCHANGED <<addr, born, held, pending, events, chResults, results, gcVars, finVars, run>>
  BY DEF HandleRegister, Registered, apiVars, TypeOK, LoopOK
<1>2. o \in Object /\ o \in Live /\ a \in Addr /\ a = addr[o]
  BY <1>1, CurFacts
<1>3. n \in Fd /\ file[n] = None
  <2>1. Unused \in SUBSET Nat /\ Unused \subseteq Fd
    BY KeysAssumption DEF Unused, TypeOK
  <2>2. n \in Unused
    BY <1>1, <2>1, LowestIn
  <2>3. QED
    BY <2>1, <2>2 DEF Unused
<1>4. n \notin DOMAIN descs
  BY <1>3 DEF RegistryInv, Maps
<1> HIDE DEF n, o, a
<1>5. /\ file \in [Fd -> Object \cup {None}] /\ DOMAIN descs \subseteq Fd
      /\ descs \in [DOMAIN descs -> [ptr : Addr, queue : Seq(Object)]]
      /\ DOMAIN connIdents \subseteq Addr /\ connIdents \in [DOMAIN connIdents -> Fd]
  BY DEF TypeOK, MapsOK
<1>6. /\ file' \in [Fd -> Object \cup {None}] /\ file'[n] = o
      /\ \A m \in Fd : m # n => file'[m] = file[m]
  BY <1>1, <1>2, <1>3, <1>5
<1>7. /\ DOMAIN descs' = DOMAIN descs \cup {n}
      /\ descs'[n].ptr = a /\ descs'[n].queue = <<>>
      /\ \A m \in DOMAIN descs : descs'[m] = descs[m]
  BY <1>1, <1>4 DEF Extended
<1>8. /\ DOMAIN connIdents' = DOMAIN connIdents \cup {a} /\ connIdents'[a] = n
      /\ \A b \in DOMAIN connIdents : connIdents'[b] = connIdents[b]
  BY <1>1 DEF Extended
<1>9. MapsOK'
  <2>1. descs' \in [DOMAIN descs' -> [ptr : Addr, queue : Seq(Object)]]
    <3>1. [ptr |-> a, queue |-> <<>>] \in [ptr : Addr, queue : Seq(Object)]
      BY <1>2
    <3>2. QED
      BY <1>1, <1>5, <3>1 DEF Extended
  <2>2. connIdents' \in [DOMAIN connIdents' -> Fd]
    BY <1>1, <1>3, <1>5 DEF Extended
  <2>3. QED
    BY <1>2, <1>3, <1>5, <1>6, <1>7, <1>8, <2>1, <2>2 DEF MapsOK
<1>10. LoopOK' /\ loop'.pc = "try" /\ loop'.fd = n /\ loop'.batch = loop.batch
  BY <1>1, <1>3, Zenon DEF TypeOK, LoopOK
<1>11. Live' \subseteq Live /\ Requests' = Requests /\ Dying' = Dying
  <2>1. Requests' = Requests /\ Dying' = Dying
    BY <1>1, <1>10 DEF Requests, Dying, gcVars, finVars
  <2>2. Queued' \subseteq Queued
    BY <1>7 DEF Queued, Elems
  <2>3. QED
    BY <1>1, <2>1, <2>2 DEF Live
<1>12. Heap'
  BY <1>1, <1>2, <1>11 DEF RegistryInv, Heap
<1>13. Maps'
  <2>1. \A m \in DOMAIN descs : Entered(m) /\ file[m] \in Object /\ m \in Fd /\ m # n
    BY <1>4, <1>5, Zenon DEF RegistryInv, Maps, Entered
  <2>2. \A m \in DOMAIN descs : Entered(m)'
    BY <1>1, <1>6, <1>7, <1>8, <2>1 DEF Entered, gcVars, finVars, Appending
  <2>3. \A m \in Fd : m = n => Entered(m)'
    <3> SUFFICES ASSUME NEW m \in Fd, m = n PROVE Entered(m)'
      OBVIOUS
    <3>1. file'[m] = o /\ descs'[m].ptr = addr'[o] /\ connIdents'[addr'[o]] = m
      BY <1>1, <1>2, <1>6, <1>7, <1>8
    <3>2. Elems(descs'[m].queue) = {}
      BY <1>7, NoElems
    <3>3. o \in closed' /\ o \in fin' /\ addr'[o] \in DOMAIN connIdents'
      BY <1>1, <1>2, <1>8
    <3>4. QED
      BY <1>2, <3>1, <3>2, <3>3 DEF Entered
  <2>4. \A b \in DOMAIN connIdents' :
          connIdents'[b] \in DOMAIN descs' /\ descs'[connIdents'[b]].ptr = b
    BY <1>7, <1>8 DEF RegistryInv, Maps
  <2>5. \A m \in Fd : file'[m] # None <=> m \in DOMAIN descs'
    BY <1>2, <1>6, <1>7, KeysAssumption DEF RegistryInv, Maps
  <2>6. QED
    BY <1>3, <1>7, <2>2, <2>3, <2>4, <2>5 DEF Maps
<1>14. Control'
  BY <1>6, <1>7, <1>10 DEF Control, Collecting, Cur, o
<1>15. TypeOK'
  BY <1>1, <1>2, <1>9, <1>10 DEF TypeOK, HeapOK, FinOK, gcVars, finVars
<1>16. QED
  BY <1>12, <1>13, <1>14, <1>15 DEF RegistryInv

\* Two descriptors are of two connections.
LEMMA FilesDiffer ==
  ASSUME TypeOK, RegistryInv, NEW m \in DOMAIN descs, NEW n \in DOMAIN descs, file[m] = file[n]
  PROVE  m = n
BY DEF RegistryInv, Maps, Entered

\* The end of releaseConn: both keys and the descriptor are given back.
LEMMA ReleaseEndInv ==
  ASSUME TypeOK, RegistryInv, ReleaseEnd
  PROVE  TypeOK' /\ RegistryInv'
<1> DEFINE n == loop.fd
           o == file[n]
           a == descs[n].ptr
<1>1. /\ loop.pc = "release" /\ n \in DOMAIN descs
      /\ descs' = Without(descs, n) /\ connIdents' = Without(connIdents, a)
      /\ file' = [file EXCEPT ![n] = None]
      /\ loop' = [loop EXCEPT !.pc = loop.back, !.fd = None, !.back = "none"]
      /\ UNCHANGED <<heapVars, pending, events, chResults, results, gcVars, finVars, run>>
  BY DEF ReleaseEnd, RegistryInv, Control, apiVars
<1>2. Entered(n) /\ o \in Object /\ a = addr[o] /\ a \in DOMAIN connIdents /\ connIdents[a] = n
  BY <1>1 DEF RegistryInv, Maps, Entered
<1>3. /\ file \in [Fd -> Object \cup {None}] /\ DOMAIN descs \subseteq Fd
      /\ descs \in [DOMAIN descs -> [ptr : Addr, queue : Seq(Object)]]
      /\ DOMAIN connIdents \subseteq Addr /\ connIdents \in [DOMAIN connIdents -> Fd]
  BY DEF TypeOK, MapsOK
<1>4. /\ loop'.pc = loop.back /\ loop'.batch = loop.batch /\ loop'.todo = loop.todo
      /\ loop'.back = "none" /\ loop.back \in {"handle", "gc", "exit"} /\ LoopOK'
  BY <1>1, Zenon DEF TypeOK, LoopOK
<1>5. \A m \in DOMAIN descs : m # n => file[m] # o /\ addr[file[m]] # a /\ file[m] \in Object
  <2> SUFFICES ASSUME NEW m \in DOMAIN descs, m # n
               PROVE  file[m] # o /\ addr[file[m]] # a /\ file[m] \in Object
    OBVIOUS
  <2>1. Entered(m)
    BY DEF RegistryInv, Maps
  <2>2. QED
    BY <1>1, <1>2, <2>1, FilesDiffer DEF Entered
<1> HIDE DEF n, o, a
<1>6. /\ file' \in [Fd -> Object \cup {None}] /\ file'[n] = None
      /\ \A m \in Fd : m # n => file'[m] = file[m]
  BY <1>1, <1>3
<1>7. /\ DOMAIN descs' = DOMAIN descs \ {n} /\ \A m \in DOMAIN descs' : descs'[m] = descs[m]
      /\ descs' \in [DOMAIN descs' -> [ptr : Addr, queue : Seq(Object)]]
  BY <1>1, <1>3 DEF Without
<1>8. /\ DOMAIN connIdents' = DOMAIN connIdents \ {a}
      /\ \A b \in DOMAIN connIdents' : connIdents'[b] = connIdents[b]
      /\ connIdents' \in [DOMAIN connIdents' -> Fd]
  BY <1>1, <1>3 DEF Without
<1>9. MapsOK'
  BY <1>3, <1>6, <1>7, <1>8 DEF MapsOK
<1>10. Heap'
  <2>1. Queued' \subseteq Queued
    BY <1>7 DEF Queued
  <2>2. SameRequests /\ Requests' = Requests
    BY <1>1, <1>4 DEF SameRequests, Requests
  <2>3. Live' \subseteq Live
    BY <1>1, <2>1, <2>2 DEF Live, heapVars
  <2>4. QED
    BY <1>1, <2>2, <2>3, HeapSame DEF RegistryInv, heapVars, gcVars, finVars
<1>11. Maps'
  <2>1. \A m \in DOMAIN descs' : Entered(m)'
    <3> SUFFICES ASSUME NEW m \in DOMAIN descs' PROVE Entered(m)'
      OBVIOUS
    <3>1. m \in DOMAIN descs /\ m # n /\ m \in Fd
      BY <1>3, <1>7
    <3>2. Entered(m) /\ file'[m] = file[m] /\ descs'[m] = descs[m] /\ addr[file[m]] # a
      BY <1>5, <1>6, <1>7, <3>1 DEF RegistryInv, Maps
    <3>3. addr[file[m]] \in DOMAIN connIdents'
      BY <1>8, <3>2 DEF Entered
    <3>4. connIdents'[addr[file[m]]] = m
      BY <1>8, <3>2, <3>3 DEF Entered
    <3>5. QED
      BY <1>1, <3>2, <3>3, <3>4 DEF Entered, heapVars, gcVars, finVars, Appending
  <2>2. \A b \in DOMAIN connIdents' :
          connIdents'[b] \in DOMAIN descs' /\ descs'[connIdents'[b]].ptr = b
    <3> SUFFICES ASSUME NEW b \in DOMAIN connIdents'
                 PROVE  connIdents'[b] \in DOMAIN descs' /\ descs'[connIdents'[b]].ptr = b
      OBVIOUS
    <3>1. b \in DOMAIN connIdents /\ b # a /\ connIdents'[b] = connIdents[b]
      BY <1>8
    <3>2. connIdents[b] \in DOMAIN descs /\ descs[connIdents[b]].ptr = b
      BY <3>1 DEF RegistryInv, Maps
    <3>3. connIdents[b] # n
      BY <3>1, <3>2 DEF a
    <3>4. QED
      BY <1>7, <3>1, <3>2, <3>3
  <2>3. \A m \in Fd : file'[m] # None <=> m \in DOMAIN descs'
    BY <1>6, <1>7 DEF RegistryInv, Maps
  <2>4. QED
    BY <2>1, <2>2, <2>3 DEF Maps
<1>12. Control'
  <2>1. CASE loop.back # "gc"
    BY <1>4, <2>1 DEF Control, Collecting
  <2>2. CASE loop.back = "gc"
    <3>1. /\ gcMutex /\ loop.todo \subseteq gc
          /\ \A m \in DOMAIN descs : file[m] \in gc => file[m] \in loop.todo \/ m = n
      BY <1>1, <2>2 DEF RegistryInv, Control, Collecting, n
    <3>2. \A m \in DOMAIN descs' : m \in DOMAIN descs /\ m # n /\ file'[m] = file[m]
      BY <1>3, <1>6, <1>7
    <3>3. QED
      BY <1>1, <1>4, <2>2, <3>1, <3>2 DEF Control, Collecting, gcVars
  <2>3. QED
    BY <2>1, <2>2
<1>13. TypeOK'
  BY <1>1, <1>4, <1>9 DEF TypeOK, HeapOK, FinOK, heapVars, gcVars, finVars
<1>14. QED
  BY <1>10, <1>11, <1>12, <1>13 DEF RegistryInv

\* handleGC takes the lock: all that is on the list is to do.
LEMMA GCLockInv ==
  ASSUME TypeOK, RegistryInv, GCLock
  PROVE  TypeOK' /\ RegistryInv'
<1>1. /\ loop.pc = "lock" /\ gcMutex' = TRUE /\ loop' = [loop EXCEPT !.pc = "gc", !.todo = gc]
      /\ UNCHANGED <<heapVars, pending, mapVars, events, chResults, results, gc, finVars, run>>
  BY DEF GCLock, apiVars
<1>2. LoopOK' /\ loop'.pc = "gc" /\ loop'.todo = gc /\ loop'.batch = loop.batch
  BY <1>1, Zenon DEF TypeOK, LoopOK, FinOK
<1>3. SameRequests
  BY <1>1, <1>2 DEF SameRequests, Requests
<1>4. Control'
  BY <1>1, <1>2 DEF Control, Collecting
<1>5. Quiet /\ UNCHANGED held
  BY <1>1 DEF Quiet, heapVars, gcVars
<1>6. chResults' \in Seq(Object) /\ Elems(chResults') \subseteq Live
  BY <1>1 DEF TypeOK, Live
<1>7. QED
  BY <1>1, <1>2, <1>3, <1>4, <1>5, <1>6, LoopMoves DEF TypeOK, FinOK

\* An object of the list is released under the key that it was entered with.
LEMMA GCReleaseInv ==
  ASSUME TypeOK, RegistryInv, NEW o \in Object, GCRelease(o)
  PROVE  TypeOK' /\ RegistryInv'
<1>1. /\ loop.pc = "gc" /\ o \in loop.todo
      /\ UNCHANGED <<heapVars, pending, mapVars, events, chResults, results, gcVars, finVars, run>>
  BY DEF GCRelease, apiVars
<1>2. /\ gcMutex /\ loop.todo \subseteq gc /\ o \in gc
      /\ \A n \in DOMAIN descs : file[n] \in gc => file[n] \in loop.todo
  BY <1>1, Zenon DEF RegistryInv, Control, Collecting
<1>3. addr[o] # None /\ addr[o] \in Addr
  BY <1>2 DEF RegistryInv, Heap, Dying, TypeOK, HeapOK
<1>4. SameRequests
  BY <1>1 DEF GCRelease, SameRequests, Requests, TypeOK, LoopOK
<1>5. LoopOK' /\ Control'
  <2>1. CASE addr[o] \in DOMAIN connIdents
    <3>1. /\ connIdents[addr[o]] \in DOMAIN descs /\ connIdents[addr[o]] \in Fd
          /\ file[connIdents[addr[o]]] = o
      BY <1>3, <2>1 DEF RegistryInv, Maps, Entered, Heap, TypeOK, MapsOK
    <3>2. /\ loop'.pc = "release" /\ loop'.back = "gc" /\ loop'.fd = connIdents[addr[o]]
          /\ loop'.todo = loop.todo \ {o} /\ LoopOK'
      BY <1>1, <2>1, <3>1, Zenon DEF GCRelease, TypeOK, LoopOK
    <3>3. \A n \in DOMAIN descs : file[n] = o => n = connIdents[addr[o]]
      BY DEF RegistryInv, Maps, Entered
    <3>4. QED
      BY <1>1, <1>2, <3>1, <3>2, <3>3, Zenon DEF Control, Collecting, mapVars, gcVars
  <2>2. CASE addr[o] \notin DOMAIN connIdents
    <3>1. loop'.pc = "gc" /\ loop'.todo = loop.todo \ {o} /\ LoopOK'
      BY <1>1, <2>2 DEF GCRelease, TypeOK, LoopOK
    <3>2. \A n \in DOMAIN descs : file[n] # o
      BY <2>2 DEF RegistryInv, Maps, Entered
    <3>3. QED
      BY <1>1, <1>2, <3>1, <3>2, Zenon DEF Control, Collecting, mapVars, gcVars
  <2>3. QED
    BY <2>1, <2>2
<1>6. Quiet /\ UNCHANGED held
  BY <1>1 DEF Quiet, heapVars, gcVars
<1>7. chResults' \in Seq(Object) /\ Elems(chResults') \subseteq Live
  BY <1>1 DEF TypeOK, Live
<1>8. QED
  BY <1>1, <1>4, <1>5, <1>6, <1>7, LoopMoves, Zenon DEF TypeOK, FinOK, gcVars

\* The list is emptied when nothing on it is registered any more.
LEMMA GCEndInv ==
  ASSUME TypeOK, RegistryInv, GCEnd
  PROVE  TypeOK' /\ RegistryInv'
<1>1. /\ loop.pc = "gc" /\ loop.todo = {} /\ gc' = {} /\ gcMutex' = FALSE /\ loop' = AtSelect
      /\ UNCHANGED <<heapVars, pending, mapVars, events, chResults, results, finVars, run>>
  BY DEF GCEnd, apiVars
<1>2. \A n \in DOMAIN descs : file[n] \notin gc
  BY <1>1 DEF RegistryInv, Control, Collecting
<1>3. LoopOK' /\ loop'.pc = "select" /\ loop'.batch = <<>>
  BY <1>1 DEF LoopOK, AtSelect
<1>4. Requests' \subseteq Requests
  BY <1>1, <1>3 DEF Requests, Elems
<1>5. Live' \subseteq Live /\ Dying' \subseteq Dying
  BY <1>1, <1>4 DEF Live, Dying, Queued, heapVars, mapVars, finVars
<1>6. Heap'
  BY <1>1, <1>4, <1>5 DEF RegistryInv, Heap, heapVars
<1>7. Maps'
  BY <1>1, <1>2 DEF RegistryInv, Maps, Entered, Appending, heapVars, mapVars, finVars
<1>8. Control'
  BY <1>3 DEF Control, Collecting
<1>9. TypeOK'
  BY <1>1, <1>3, Zenon DEF TypeOK, HeapOK, MapsOK, FinOK, heapVars, mapVars, finVars
<1>10. QED
  BY <1>6, <1>7, <1>8, <1>9 DEF RegistryInv

\* The deferred cleanup releases what is registered, and drops what is left.
LEMMA LoopExitInv ==
  ASSUME TypeOK, RegistryInv, LoopExit
  PROVE  TypeOK' /\ RegistryInv'
<1>1. UNCHANGED <<heapVars, mapVars, events, results, gcVars, finVars, run>>
  BY Zenon DEF LoopExit, apiVars
<1>2. LoopOK' /\ Control' /\ loop'.batch = loop.batch
  <2>1. CASE DOMAIN descs # {}
    <3>1. PICK n \in DOMAIN descs : loop' = [loop EXCEPT !.pc = "release", !.fd = n, !.back = "exit"]
      BY <2>1, Zenon DEF LoopExit
    <3>2. n \in Fd
      BY DEF TypeOK, MapsOK
    <3>3. LoopOK' /\ loop'.pc = "release" /\ loop'.back = "exit" /\ loop'.fd = n
          /\ loop'.batch = loop.batch
      BY <3>1, <3>2, Zenon DEF TypeOK, LoopOK
    <3>4. QED
      BY <1>1, <3>3 DEF Control, Collecting, mapVars
  <2>2. CASE DOMAIN descs = {}
    <3>1. LoopOK' /\ loop'.pc = "done" /\ loop'.batch = loop.batch
      BY <2>2, Zenon DEF LoopExit, TypeOK, LoopOK
    <3>2. QED
      BY <3>1 DEF Control, Collecting
  <2>3. QED
    BY <2>1, <2>2
<1>3. /\ pending' \in Seq(Request) /\ chResults' \in Seq(Object)
      /\ Elems(pending') \subseteq Elems(pending) /\ Elems(chResults') \subseteq Elems(chResults)
  <2>1. CASE pending' = pending /\ chResults' = chResults
    BY <2>1 DEF TypeOK
  <2>2. CASE pending' = <<>> /\ chResults' = <<>>
    BY <2>2, NoElems
  <2>3. QED
    BY <2>1, <2>2, Zenon DEF LoopExit
<1>4. Requests' \subseteq Requests
  BY <1>2, <1>3 DEF Requests
<1>5. Live' \subseteq Live /\ Dying' = Dying
  BY <1>1, <1>3, <1>4 DEF Live, Dying, Queued, heapVars, mapVars, gcVars, finVars
<1>6. Heap'
  BY <1>1, <1>4, <1>5 DEF RegistryInv, Heap, heapVars
<1>7. Maps'
  BY <1>1, Zenon DEF RegistryInv, Maps, Entered, Appending, heapVars, mapVars, gcVars, finVars
<1>8. TypeOK'
  BY <1>1, <1>2, <1>3 DEF TypeOK, HeapOK, MapsOK, FinOK, heapVars, mapVars, gcVars, finVars
<1>9. QED
  BY <1>2, <1>6, <1>7, <1>8 DEF RegistryInv

-----------------------------------------------------------------------------
(* The theorems.                                                           *)

\* A new watcher has nothing registered, and the program has no connections.
LEMMA InitInv ==
  ASSUME Init
  PROVE  TypeOK /\ RegistryInv
<1>1. loop = AtSelect /\ LoopOK
  BY SMTT(30) DEF Init, AtSelect, LoopOK
<1>2. DOMAIN connIdents = {} /\ DOMAIN descs = {} /\ MapsOK
  <2>1. connIdents = <<>> /\ descs = <<>> /\ file = [n \in Fd |-> None]
    BY DEF Init
  <2>2. DOMAIN connIdents = {} /\ DOMAIN descs = {}
    BY <2>1
  <2>3. connIdents \in [{} -> Fd] /\ descs \in [{} -> [ptr : Addr, queue : Seq(Object)]]
    BY <2>1
  <2>4. file \in [Fd -> Object \cup {None}]
    BY <2>1
  <2>5. QED
    BY <2>2, <2>3, <2>4 DEF MapsOK
<1>3. TypeOK
  <2>1. FinOK
    BY Zenon DEF Init, FinOK
  <2>2. HeapOK
    BY DEF Init, HeapOK
  <2>3. QED
    BY <1>1, <1>2, <2>1, <2>2 DEF Init, TypeOK
<1>4. Live = {} /\ Dying = {} /\ fin = {} /\ Requests = {}
  <2>1. Requests = {}
    BY <1>1, NoElems, SMTT(30) DEF Init, Requests, AtSelect
  <2>2. Queued = {}
    BY <1>2 DEF Queued
  <2>3. held = {} /\ Elems(chResults) = {} /\ results = {}
    BY NoElems DEF Init
  <2>4. Dying = {} /\ fin = {}
    BY DEF Init, Dying
  <2>5. QED
    BY <2>1, <2>2, <2>3, <2>4 DEF Live
<1>5. Heap
  BY <1>4 DEF Heap, Init
<1>6. Maps
  BY <1>2 DEF Maps, Init
<1>7. Control
  BY <1>1 DEF Control, Collecting, AtSelect
<1>8. QED
  BY <1>3, <1>5, <1>6, <1>7 DEF RegistryInv

\* Every step keeps the invariant.
LEMMA NextInv ==
  ASSUME TypeOK, RegistryInv, [Next]_vars
  PROVE  TypeOK' /\ RegistryInv'
<1>1. ASSUME NEW o \in Object, Allocate(o) PROVE TypeOK' /\ RegistryInv'
  BY <1>1, AllocateInv
<1>2. ASSUME NEW o \in Object, Collect(o) PROVE TypeOK' /\ RegistryInv'
  BY <1>2, CollectInv
<1>3. ASSUME NEW o \in Object, NEW op \in {"read", "free"}, Submit(o, op)
      PROVE  TypeOK' /\ RegistryInv'
  BY <1>3, SubmitInv
<1>4. CASE Runtime
  BY <1>4, FinalizerInv
<1>5. CASE \/ WaitIO \/ Close \/ SetLoopAffinity \/ SetterDie \/ LoopCPU \/ PollerReports
           \/ \E o \in Object : Forget(o)
  BY <1>5, UsersInv
<1>6. CASE LoopPending \/ LoopEvents \/ LoopGC \/ LoopDie
  BY <1>6, SelectInv
<1>7. CASE BatchEnd \/ EventsEnd \/ \E n \in Fd : EventOver(n)
  BY <1>7, OverInv
<1>8. CASE HandleFree
  BY <1>8, HandleFreeInv
<1>9. CASE HandleDupFails
  BY <1>9, HandleDupFailsInv
<1>10. CASE HandleRegister
  BY <1>10, HandleRegisterInv
<1>11. CASE HandleRegistered
  BY <1>11, HandleRegisteredInv
<1>12. CASE HandleTry
  BY <1>12, HandleTryInv
<1>13. CASE ReleaseQueued \/ \E n \in Fd : EventServed(n)
  BY <1>13, PopInv
<1>14. CASE ReleaseEnd
  BY <1>14, ReleaseEndInv
<1>15. CASE GCLock
  BY <1>15, GCLockInv
<1>16. ASSUME NEW o \in Object, GCRelease(o) PROVE TypeOK' /\ RegistryInv'
  BY <1>16, GCReleaseInv
<1>17. CASE GCEnd
  BY <1>17, GCEndInv
<1>18. CASE LoopExit
  BY <1>18, LoopExitInv
<1>19. CASE UNCHANGED vars
  <2>1. /\ UNCHANGED <<heapVars, pending, mapVars, events, chResults, results, gcVars, finVars, run, loop>>
    BY <1>19 DEF vars, apiVars
  <2>2. Quiet /\ UNCHANGED <<held, gcMutex>>
    BY <2>1 DEF Quiet, heapVars, gcVars
  <2>3. SameRequests
    BY <2>1 DEF SameRequests, Requests
  <2>4. LoopOK' /\ Control'
    BY <2>1 DEF TypeOK, LoopOK, RegistryInv, Control, Collecting, Cur, mapVars, gcVars
  <2>5. chResults' \in Seq(Object) /\ Elems(chResults') \subseteq Live
    BY <2>1 DEF TypeOK, Live
  <2>6. QED
    BY <2>1, <2>2, <2>3, <2>4, <2>5, LoopMoves DEF TypeOK, FinOK
<1>20. LoopBusy => TypeOK' /\ RegistryInv'
  BY <1>7, <1>8, <1>9, <1>10, <1>11, <1>12, <1>13, <1>14, <1>15, <1>16, <1>17, <1>18 DEF LoopBusy
<1>21. QED
  BY <1>1, <1>2, <1>3, <1>4, <1>5, <1>6, <1>19, <1>20 DEF Next

\* For any number of connections, addresses and descriptors, an address stays
\* with its object, nothing refers again to an object that is being finalized,
\* the two maps name each other's keys, and handleGC has released what is on the
\* list but not to do.
THEOREM RegistryInvariant == Spec => [](TypeOK /\ RegistryInv)
<1>1. Init => TypeOK /\ RegistryInv
  BY InitInv
<1>2. (TypeOK /\ RegistryInv) /\ [Next]_vars => (TypeOK /\ RegistryInv)'
  BY NextInv
<1>3. QED
  BY <1>1, <1>2, PTL DEF Spec

\* A key of connIdents or descs always stands for the connection that it was
\* entered for, however often addresses and descriptor numbers are used again.
THEOREM AlwaysIdentitySound == Spec => []IdentitySound
<1>1. TypeOK /\ RegistryInv => IdentitySound
  <2> SUFFICES ASSUME TypeOK, RegistryInv PROVE IdentitySound
    OBVIOUS
  <2>1. \A a \in DOMAIN connIdents :
          LET n == connIdents[a] IN
          n \in DOMAIN descs /\ descs[n].ptr = a /\ file[n] # None /\ addr[file[n]] = a
    <3> SUFFICES ASSUME NEW a \in DOMAIN connIdents
                 PROVE  LET n == connIdents[a] IN
                        n \in DOMAIN descs /\ descs[n].ptr = a /\ file[n] # None /\ addr[file[n]] = a
      OBVIOUS
    <3>1. connIdents[a] \in DOMAIN descs /\ descs[connIdents[a]].ptr = a
      BY DEF RegistryInv, Maps
    <3>2. Entered(connIdents[a])
      BY <3>1 DEF RegistryInv, Maps
    <3>3. QED
      BY <3>1, <3>2, KeysAssumption DEF Entered
  <2>2. \A n \in DOMAIN descs :
          /\ descs[n].ptr \in DOMAIN connIdents /\ connIdents[descs[n].ptr] = n
          /\ Elems(descs[n].queue) \subseteq {file[n]}
    BY DEF RegistryInv, Maps, Entered
  <2>3. QED
    BY <2>1, <2>2 DEF IdentitySound
<1>2. QED
  BY <1>1, RegistryInvariant, PTL

\* handleGC finds no queued request on a connection that it releases, so it never
\* delivers a result while it holds gcMutex: the queued request would refer to
\* the connection, and nothing refers to one whose finalizer has run.
THEOREM AlwaysGCFindsIdle == Spec => []GCFindsIdle
<1>1. TypeOK /\ RegistryInv => GCFindsIdle
  <2> SUFFICES ASSUME TypeOK, RegistryInv, loop.pc = "release", loop.back = "gc"
               PROVE  descs[loop.fd].queue = <<>>
    BY DEF GCFindsIdle
  <2> DEFINE n == loop.fd
             s == descs[n].queue
  <2>1. n \in DOMAIN descs /\ file[n] \in gc
    BY DEF RegistryInv, Control
  <2>2. s \in Seq(Object) /\ Elems(s) \subseteq {file[n]} /\ Elems(s) \subseteq Live
    BY <2>1, QueueFacts, Zenon
  <2>3. file[n] \notin Live
    BY <2>1 DEF RegistryInv, Heap, Dying
  <2> HIDE DEF n, s
  <2>4. Elems(s) = {}
    BY <2>2, <2>3
  <2>5. ASSUME s # <<>> PROVE FALSE
    <3>1. Head(s) \in Elems(s)
      BY <2>2, <2>5, HeadElems
    <3>2. QED
      BY <2>4, <3>1
  <2>6. QED
    BY <2>5 DEF s, n
<1>2. QED
  BY <1>1, RegistryInvariant, PTL
=============================================================================
