---------------------------- MODULE ServiceProofs -----------------------------
(* What users rely on, for any connections, requests and bounds: results   *)
(* are truthful and in order, what they see is a behaviour of              *)
(* CompletionService, no readiness and no byte is lost.                    *)
EXTENDS PlacesProofs, ReadinessProofs, ServiceRefinement, WellFoundedInduction

-----------------------------------------------------------------------------
(* Results are sound and in order.                                         *)

\* The records that were delivered, or are about to be, are not written to.
LEMMA GivenAway ==
  ASSUME TypeOK, Lists, QueuedIs, PlacesInv, [Next]_vars
  PROVE  \A r \in Delivered \cup Hand : r \in Req /\ cb'[r] = cb[r]
<1> SUFFICES ASSUME NEW r \in Delivered \cup Hand PROVE r \in Req /\ cb'[r] = cb[r]
  OBVIOUS
<1>1. r \in Req
  BY HandType DEF Delivered, Lists
<1>2. r \notin Elems(processing) \cup Queued
  BY <1>1 DEF PlacesInv, Where, Delivered
<1>3. QED
  BY <1>1, <1>2, WritesHeld DEF Writes

\* Nothing new is delivered.
LEMMA NothingNew ==
  ASSUME TypeOK, Lists, QueuedIs, PlacesInv, ServiceInv, [Next]_vars, Kept, Req' = Req,
         Delivered' \cup Hand' \subseteq Delivered \cup Hand, Hand' \subseteq Hand,
         Outstanding' \subseteq Outstanding
  PROVE  ServiceInv'
<1>1. \A r \in Delivered \cup Hand : r \in Req /\ cb'[r] = cb[r]
  BY GivenAway
<1>2. \A r \in Req : cb'[r].conn = cb[r].conn /\ cb'[r].op = cb[r].op /\ cb'[r].len = cb[r].len
  BY Zenon DEF Kept, SameAsk
<1>3. Outstanding \subseteq Req
  BY Zenon DEF Outstanding, Lists, QueuedIs
<1>4. ASSUME NEW r \in Hand', cb'[r].err \in Said PROVE First(r)'
  <2>1. r \in Req /\ cb'[r] = cb[r] /\ r \in Hand
    BY <1>1
  <2>2. First(r)
    BY <1>4, <2>1 DEF ServiceInv
  <2>3. QED
    BY <1>2, <1>3, <2>1, <2>2 DEF First
<1>5. ASSUME NEW r \in Delivered' \cup Hand' PROVE Sound(cb'[r])
  BY <1>1 DEF ServiceInv
<1>6. ASSUME NEW r \in Req', cb'[r].op = "write" PROVE cb'[r].len > 0
  BY <1>2, <1>6 DEF ServiceInv
<1>7. QED
  BY <1>4, <1>5, <1>6 DEF ServiceInv

\* aioCreate: the new request is the last of all.
LEMMA SubmitService ==
  ASSUME TypeOK, Lists, QueuedIs, PlacesInv, ServiceInv, NEW c \in Conn, NEW s \in Shapes,
         Submit(c, s)
  PROVE  ServiceInv'
<1> DEFINE n == Len(cb) + 1
           a == [conn |-> c, op |-> s.op, len |-> s.len, full |-> s.full,
                 deadline |-> s.deadline, size |-> 0, err |-> "nil"]
<1>1. /\ Kept /\ Writes({}) /\ Req' = Req \cup {n} /\ n \in Nat /\ \A r \in Req : r < n
  BY KeptSubmit
<1>2. \A r \in Req : cb'[r] = cb[r]
  BY <1>1 DEF Writes
<1>3. cb' = Append(cb, a) /\ create' = Append(create, n)
      /\ UNCHANGED <<processing, queue, chResults, returned, loop>>
  BY DEF Submit, waitVars
<1>4. cb'[n] = a
  BY <1>3, SeqAppend DEF TypeOK, CbOK
<1>5. a.op = "write" => a.len > 0
  BY ShapesAssumption
<1> HIDE DEF a, n
<1>6. Delivered' = Delivered /\ Hand' = Hand
  BY <1>3 DEF Delivered, Hand
<1>7. Outstanding' = Outstanding \cup {n}
  <2>1. Queued' = Queued
    BY <1>3, Zenon DEF Queued, Remaining
  <2>2. Elems(create') = Elems(create) \cup {n}
    BY <1>1, <1>3, AppendFacts DEF Lists
  <2>3. QED
    BY <1>3, <2>1, <2>2 DEF Outstanding
<1>8. Outstanding \subseteq Req /\ Delivered \cup Hand \subseteq Req /\ Req \subseteq Nat
  BY HandType, Zenon DEF Outstanding, Delivered, Lists, QueuedIs
<1>9. ASSUME NEW r \in Hand, cb'[r].err \in Said PROVE First(r)'
  <2>1. r \in Req /\ First(r) /\ ~ n < r
    <3>1. r \in Req
      BY <1>8
    <3>2. cb'[r] = cb[r] /\ r < n /\ r \in Nat
      BY <1>1, <1>2, <1>8, <3>1
    <3>3. First(r)
      BY <1>9, <3>2 DEF ServiceInv
    <3>4. QED
      BY <1>1, <3>1, <3>2, <3>3
  <2>2. QED
    BY <1>2, <1>7, <1>8, <2>1, Zenon DEF First
<1>10. QED
  BY <1>1, <1>2, <1>4, <1>5, <1>6, <1>8, <1>9 DEF ServiceInv

\* deliver takes a request that is sound and, if the socket spoke to it, first.
LEMMA TakesService ==
  ASSUME TypeOK, Lists, QueuedIs, PlacesInv, ServiceInv, [Next]_vars, NEW r \in Req, Takes(r)
  PROVE  ServiceInv'
<1>1. /\ r \in Outstanding /\ Loses(r) /\ Hand = {} /\ Hand' = {r}
      /\ Kept /\ Req' = Req /\ Delivered' = Delivered
      /\ cb'[r].err \in {"dup", "watch", "closed", "deadline"} \/ (First(r) /\ Sound(cb'[r]))
  BY DEF Takes, Delivered
<1>2. \A q \in Delivered : cb'[q] = cb[q]
  BY GivenAway
<1>3. \A q \in Req : cb'[q].conn = cb[q].conn /\ cb'[q].op = cb[q].op /\ cb'[q].len = cb[q].len
  BY <1>1, Zenon DEF Kept, SameAsk
<1>4. Outstanding' \subseteq Outstanding /\ Outstanding \subseteq Req
  BY <1>1, Zenon DEF Loses, Outstanding, Lists, QueuedIs
<1>5. Sound(cb'[r])
  BY <1>1 DEF Sound
<1>6. cb'[r].err \in Said => First(r)'
  <2>1. cb'[r].err \in Said => First(r)
    BY <1>1 DEF Said
  <2>2. QED
    BY <1>3, <1>4, <2>1 DEF First
<1>7. QED
  BY <1>1, <1>2, <1>3, <1>5, <1>6 DEF ServiceInv

\* Every step.
LEMMA NextService ==
  ASSUME TypeOK, Lists, QueuedIs, QueuedIs', PlacesInv, ServiceInv, [Next]_vars
  PROVE  ServiceInv'
<1>1. ASSUME UNCHANGED cb PROVE Kept /\ Req' = Req
  BY <1>1, KeptSame
<1>2. CASE Shuffles
  BY <1>2, NothingNew DEF Shuffles, Delivered
<1>3. ASSUME NEW r \in Req, Forgets(r) PROVE ServiceInv'
  BY <1>1, <1>3, NothingNew DEF Forgets, Loses, Delivered
<1>4. CASE Send \/ SendDie
  <2>1. /\ UNCHANGED <<cb, create, processing, queue, returned>> /\ loop.pc = "send"
        /\ LoopTo(loop.ret, 0, "pending", loop.conn, loop.left, loop.back)
        /\ loop.ret # "send"
        /\ chResults' = Append(chResults, loop.cur) \/ chResults' = chResults
    <3>1. loop' = [loop EXCEPT !.pc = loop.ret, !.cur = 0, !.ret = "pending"]
      BY <1>4 DEF Send, SendDie
    <3>2. LoopTo(loop.ret, 0, "pending", loop.conn, loop.left, loop.back) /\ loop.ret # "send"
      BY <3>1 DEF TypeOK, LoopOK, LoopTo
    <3>3. QED
      BY <1>4, <3>2 DEF Send, SendDie, submitVars, waitVars
  <2>2. Hand = {loop.cur} /\ Hand' = {} /\ loop.cur \in Nat
    BY <2>1, HandType, Zenon DEF Hand, LoopTo, Lists
  <2>3. Elems(chResults') \subseteq Elems(chResults) \cup {loop.cur}
    BY <2>1, <2>2, AppendFacts, Zenon DEF Lists
  <2>4. Outstanding' = Outstanding
    <3>1. Queued' = Queued
      BY <2>1, Zenon DEF LoopTo, Queued, Remaining
    <3>2. QED
      BY <2>1, <3>1 DEF Outstanding
  <2>5. QED
    BY <1>1, <2>1, <2>2, <2>3, <2>4, NothingNew DEF Delivered
<1>5. CASE WaitReceive \/ ExitDrain
  <2>1. /\ UNCHANGED <<cb, create, processing, queue, loop>>
        /\ chResults # <<>> /\ chResults' = Tail(chResults)
        /\ returned' \subseteq returned \cup {Head(chResults)}
    BY <1>5 DEF WaitReceive, ExitDrain, WaitOnly, ExitRest, submitVars, waitVars
  <2>2. Elems(chResults) = Elems(chResults') \cup {Head(chResults)}
    BY <2>1, TailFacts DEF Lists
  <2>3. Outstanding' = Outstanding /\ Hand' = Hand
    BY <2>1, Zenon DEF Outstanding, Queued, Remaining, Hand
  <2>4. QED
    BY <1>1, <2>1, <2>2, <2>3, NothingNew DEF Delivered
<1>6. CASE ExitDone
  <2>1. /\ UNCHANGED <<cb, queue, chResults, returned>> /\ loop.pc = "exit"
        /\ create' = <<>> /\ processing' = <<>>
    BY <1>6 DEF ExitDone, ExitRest, waitVars
  <2>2. LoopTo("done", loop.cur, loop.ret, loop.conn, loop.left, loop.back)
    BY <1>6, LoopMoves, Zenon DEF ExitDone, TypeOK
  <2>3. Queued' = Queued
    BY <2>1, <2>2, Zenon DEF LoopTo, Queued, Remaining
  <2>4. Elems(<<>>) = {}
    BY DEF Elems
  <2>5. QED
    BY <1>1, <2>1, <2>2, <2>3, <2>4, NothingNew DEF Delivered, Hand, LoopTo, Outstanding
<1>7. QED
  BY <1>2, <1>3, <1>4, <1>5, <1>6, StepKinds, SubmitService, TakesService, Zenon

\* The invariant behind the results: what deliver holds or has sent is sound, and
\* what the socket said to it was said in order.
THEOREM ServiceInvariant == Spec => []ServiceInv
<1>1. ASSUME Init PROVE ServiceInv
  <2>1. cb = <<>> /\ chResults = <<>> /\ returned = {} /\ loop.pc = "select"
    BY <1>1 DEF Init
  <2>2. Req = {} /\ Delivered = {} /\ Hand = {}
    BY <2>1 DEF Req, Delivered, Hand, Elems
  <2>3. QED
    BY <2>2 DEF ServiceInv
<1>2. Init => ServiceInv
  BY <1>1
<1>3. TypeOK /\ Lists /\ QueuedIs /\ QueuedIs' /\ PlacesInv /\ ServiceInv /\ [Next]_vars
        => ServiceInv'
  BY NextService
<1>4. QED
  BY <1>2, <1>3, StepTypes, TypeCorrect, PlacesInvariant, PTL DEF Spec

\* What WaitIO reports: no retryable error, and success only for a write or a full
\* read that moved all its bytes, or a read that moved some.
THEOREM AlwaysResultsSound == Spec => []ResultsSound
<1>1. ServiceInv => ResultsSound
  BY DEF ServiceInv, ResultsSound, Sound
<1>2. QED
  BY <1>1, ServiceInvariant, PTL

\* Only the first in line is attempted.
LEMMA ToldFirst ==
  ASSUME TypeOK, Lists, QueuedIs, PlacesInv, [Next]_vars
  PROVE  \A r \in Req : First(r) \/ Untold(r)
<1>1. ASSUME NEW r \in Req, Tries(r) PROVE \A q \in Req : First(q) \/ Untold(q)
  <2>1. Writes({r}) /\ First(r)
    BY <1>1, KeptAttempt, Zenon DEF TypeOK, Tries
  <2>2. QED
    BY <2>1 DEF Writes, Untold
<1>2. QED
  BY <1>1, StepTries

\* Requests of one operation on one connection are served in the order they were
\* submitted: bytes, or the end of the stream, go to a request only if no earlier
\* one is still waiting.
THEOREM AlwaysOrderedService == Spec => OrderedService
<1> DEFINE A == \A r \in DOMAIN cb :
                  cb'[r].size # cb[r].size \/ cb'[r].err \in {"EOF", "reset"} \ {cb[r].err} =>
                    \A q \in Outstanding :
                      q < r => cb[q].conn # cb[r].conn \/ cb[q].op # cb[r].op
<1>1. ASSUME TypeOK, Lists, QueuedIs, PlacesInv, [Next]_vars PROVE A
  <2>1. DOMAIN cb = Req
    BY <1>1, SeqLength DEF TypeOK, CbOK, Req
  <2>2. \A r \in Req : First(r) \/ Untold(r)
    BY <1>1, ToldFirst
  <2>3. ASSUME NEW r \in Req,
               cb'[r].size # cb[r].size \/ cb'[r].err \in {"EOF", "reset"} \ {cb[r].err}
        PROVE  First(r)
    BY <2>2, <2>3 DEF Untold
  <2>4. QED
    BY <2>1, <2>3 DEF First
<1>2. TypeOK /\ Lists /\ QueuedIs /\ PlacesInv /\ [Next]_vars => [A]_vars
  BY <1>1
<1>3. QED
  BY <1>2, TypeCorrect, ListTypes, QueuedTypes, PlacesInvariant, PTL DEF Spec, OrderedService

-----------------------------------------------------------------------------
(* The watcher implements the completion service.                          *)

\* A function on an initial segment with one more value.
LEMMA MappedAppend ==
  ASSUME NEW n \in Nat, NEW f, NEW g,
         f = [i \in 1 .. n |-> f[i]], g = [i \in 1 .. n + 1 |-> g[i]],
         \A i \in 1 .. n : g[i] = f[i]
  PROVE  /\ g = Append(f, g[n + 1]) /\ Len(f) = n /\ Len(g) = n + 1
<1> DEFINE S == {g[i] : i \in 1 .. n + 1}
<1>1. f \in [1 .. n -> S] /\ g \in [1 .. n + 1 -> S] /\ g[n + 1] \in S
  OBVIOUS
<1> HIDE DEF S
<1>2. f \in Seq(S) /\ g \in Seq(S)
  <2>1. n + 1 \in Nat
    OBVIOUS
  <2>2. \A m \in Nat : \A h \in [1 .. m -> S] : h \in Seq(S)
    BY SeqFunction, Zenon
  <2>3. QED
    BY <1>1, <2>1, <2>2
<1>3. Len(f) = n /\ Len(g) = n + 1
  BY <1>1, <1>2, SeqLength
<1>4. /\ Append(f, g[n + 1]) \in Seq(S) /\ Len(Append(f, g[n + 1])) = n + 1
      /\ Append(f, g[n + 1])[n + 1] = g[n + 1]
      /\ \A i \in 1 .. n : Append(f, g[n + 1])[i] = f[i]
  BY <1>1, <1>2, <1>3, SeqAppend
<1>5. QED
  BY <1>1, <1>2, <1>3, <1>4

\* A function on an initial segment without its first value.
LEMMA MappedTail ==
  ASSUME NEW n \in Nat, n > 0, NEW f, NEW g,
         f = [i \in 1 .. n |-> f[i]], g = [i \in 1 .. n - 1 |-> f[i + 1]]
  PROVE  f # <<>> /\ g = Tail(f) /\ Head(f) = f[1]
<1> DEFINE S == {f[i] : i \in 1 .. n}
<1>1. f \in [1 .. n -> S] /\ g \in [1 .. n - 1 -> S]
  OBVIOUS
<1> HIDE DEF S
<1>2. f \in Seq(S) /\ g \in Seq(S)
  <2>1. n - 1 \in Nat
    OBVIOUS
  <2>2. \A m \in Nat : \A h \in [1 .. m -> S] : h \in Seq(S)
    BY SeqFunction, Zenon
  <2>3. QED
    BY <1>1, <2>1, <2>2, Zenon
<1>3. Len(f) = n /\ Len(g) = n - 1
  BY <1>1, <1>2, SeqLength
<1>4. f # <<>> /\ Head(f) = f[1]
  BY <1>2, <1>3
<1>5. /\ Tail(f) \in Seq(S) /\ Len(Tail(f)) = n - 1
      /\ \A i \in 1 .. n - 1 : Tail(f)[i] = f[i + 1]
  BY <1>2, <1>3, <1>4, SeqTail
<1>6. QED
  BY <1>1, <1>2, <1>3, <1>4, <1>5

\* What the service sees of a state.
LEMMA Seen ==
  ASSUME TypeOK, Lists
  PROVE  /\ DOMAIN cb = Req /\ Len(cb) \in Nat /\ Len(chResults) \in Nat
         /\ DOMAIN chResults = 1 .. Len(chResults)
         /\ \A i \in DOMAIN chResults : chResults[i] \in Elems(chResults)
         /\ \A r \in Req : cb[r] \in Aiocb
         /\ Waiting = Outstanding \cup Hand
<1>1. DOMAIN cb = Req /\ Len(cb) \in Nat /\ \A r \in Req : cb[r] \in Aiocb
  BY SeqLength, SeqElement DEF TypeOK, CbOK, Req
<1>2. /\ Len(chResults) \in Nat /\ DOMAIN chResults = 1 .. Len(chResults)
      /\ \A i \in DOMAIN chResults : chResults[i] \in Elems(chResults)
  BY SeqLength DEF Lists, Elems
<1>3. {r \in DOMAIN cb : InHand(r)} = Hand
  BY <1>1, HandType DEF InHand, Hand
<1>4. QED
  BY <1>1, <1>2, <1>3 DEF Waiting

\* No step changes what was asked for or what was given out.
LEMMA SeenSame ==
  ASSUME TypeOK, TypeOK', Lists, Lists', QueuedIs, PlacesInv, [Next]_vars
  PROVE  /\ Kept /\ Req' = Req => Requests' = Requests
         /\ UNCHANGED chResults => Results' = Results
         /\ UNCHANGED returned => Given' = Given
         /\ \A r \in Delivered \cup Hand : Result(r)' = Result(r)
<1>1. \A r \in Delivered \cup Hand : r \in Req /\ cb'[r] = cb[r]
  BY GivenAway
<1>2. \A r \in Delivered \cup Hand : Result(r)' = Result(r)
  BY <1>1 DEF Result
<1>3. DOMAIN cb = Req /\ DOMAIN cb' = Req'
  BY Seen, SeqLength DEF TypeOK, CbOK, Req
<1>4. ASSUME Kept, Req' = Req PROVE Requests' = Requests
  <2>1. \A r \in Req : Asked(cb'[r].conn, cb'[r]) = Asked(cb[r].conn, cb[r])
    BY <1>4 DEF Kept, SameAsk, Asked
  <2>2. QED
    BY <1>3, <1>4, <2>1 DEF Requests
<1>5. ASSUME UNCHANGED chResults PROVE Results' = Results
  <2>1. \A i \in DOMAIN chResults : Result(chResults[i])' = Result(chResults[i])
    BY <1>1, <1>5, Seen DEF Result, Delivered
  <2>2. QED
    BY <1>5, <2>1 DEF Results
<1>6. ASSUME UNCHANGED returned PROVE Given' = Given
  BY <1>2, <1>6 DEF Given, Delivered
<1>7. QED
  BY <1>2, <1>4, <1>5, <1>6

\* What waits, before and after a step.
LEMMA SeenWaiting ==
  TypeOK /\ Lists /\ TypeOK' /\ Lists' =>
    Waiting = Outstanding \cup Hand /\ Waiting' = Outstanding' \cup Hand'
<1>1. TypeOK /\ Lists => Waiting = Outstanding \cup Hand
  BY Seen
<1>2. TypeOK' /\ Lists' => (Waiting = Outstanding \cup Hand)'
  BY <1>1, PTL
<1>3. QED
  BY <1>1, <1>2

\* Read, Write and Free: the request is accepted.
LEMMA SubmitAccepts ==
  ASSUME TypeOK, TypeOK', Lists, Lists', QueuedIs, PlacesInv, [Next]_vars,
         NEW c \in Conn, NEW s \in Shapes, Submit(c, s)
  PROVE  Service!Next
<1> DEFINE n == Len(cb)
           q == Asked(c, s)
           a == [conn |-> c, op |-> s.op, len |-> s.len, full |-> s.full,
                 deadline |-> s.deadline, size |-> 0, err |-> "nil"]
<1>1. /\ Writes({}) /\ Req' = Req \cup {n + 1} /\ n + 1 \in Nat /\ \A r \in Req : r < n + 1
  BY KeptSubmit
<1>2. /\ cb' = Append(cb, a) /\ create' = Append(create, n + 1) /\ ~ die /\ ~ die'
      /\ UNCHANGED <<processing, queue, chResults, returned, loop>>
  BY DEF Submit, waitVars, die
<1>3. n \in Nat /\ DOMAIN cb = 1 .. n /\ DOMAIN cb' = 1 .. n + 1 /\ cb'[n + 1] = a
  BY <1>2, SeqAppend, SeqLength, SMTT(30) DEF TypeOK, CbOK
<1>4. \A i \in 1 .. n : cb'[i] = cb[i]
  BY <1>1, Zenon DEF Writes, Req
<1>5. Requests' = Append(Requests, q) /\ Len(Requests) = n
  <2>1. Requests = [i \in 1 .. n |-> Requests[i]]
    BY <1>3 DEF Requests
  <2>2. Requests' = [i \in 1 .. n + 1 |-> Requests'[i]]
    BY <1>3 DEF Requests
  <2>3. \A i \in 1 .. n : Requests'[i] = Requests[i]
    BY <1>3, <1>4, SMTT(30) DEF Requests
  <2>4. Requests'[n + 1] = q
    BY <1>3, SMTT(30) DEF Requests, Asked
  <2> HIDE DEF n, q
  <2>5. QED
    BY <1>3, <2>1, <2>2, <2>3, <2>4, MappedAppend, ZenonT(30)
<1>6. Waiting' = Waiting \cup {n + 1}
  <2>1. Queued' = Queued /\ Hand' = Hand
    BY <1>2, Zenon DEF Queued, Remaining, Hand
  <2>2. Elems(create') = Elems(create) \cup {n + 1}
    BY <1>1, <1>2, AppendFacts DEF Lists
  <2>3. Outstanding' = Outstanding \cup {n + 1}
    BY <1>2, <2>1, <2>2 DEF Outstanding
  <2>4. QED
    BY <2>1, <2>3, SeenWaiting
<1>7. Results' = Results /\ Given' = Given
  BY <1>2, SeenSame
<1>8. Service!Accept(q)
  BY <1>2, <1>5, <1>6, <1>7 DEF Service!Accept
<1>9. QED
  BY <1>8 DEF Service!Next

\* deliver takes a request, or requests move inside: the service does not see it,
\* unless Close has begun.
LEMMA InsideHidden ==
  ASSUME TypeOK, TypeOK', Lists, Lists', QueuedIs, PlacesInv, [Next]_vars,
         Shuffles \/ \E r \in Req : Takes(r)
  PROVE  [Service!Next]_Service!vars
<1>1. Requests' = Requests /\ Results' = Results /\ Given' = Given
  BY SeenSame, Zenon DEF Shuffles, Takes
<1>2. Waiting' = Waiting /\ (die => die')
  <2>1. ASSUME NEW r \in Req, Takes(r) PROVE Waiting' = Waiting /\ die' = die
    <3>1. Outstanding = Outstanding' \cup {r} /\ Hand = {} /\ Hand' = {r} /\ die' = die
      BY <2>1 DEF Takes, Loses, die
    <3>2. QED
      BY <3>1, SeenWaiting
  <2>2. CASE Shuffles
    BY <2>2, SeenWaiting DEF Shuffles
  <2>3. QED
    BY <2>1, <2>2
<1>3. CASE ~ die /\ die'
  <2>1. Service!Shut
    BY <1>1, <1>2, <1>3 DEF Service!Shut
  <2>2. QED
    BY <2>1 DEF Service!Next
<1>4. CASE ~ (~ die /\ die')
  <2>1. (~ die)' = ~ die
    BY <1>2, <1>4
  <2>2. QED
    BY <1>1, <1>2, <2>1 DEF Service!vars
<1>5. QED
  BY <1>3, <1>4

\* Free: the request vanishes.
LEMMA FreeVanishes ==
  ASSUME TypeOK, TypeOK', Lists, Lists', QueuedIs, PlacesInv, [Next]_vars,
         NEW r \in Req, Forgets(r)
  PROVE  Service!Next
<1>1. Requests' = Requests /\ Results' = Results /\ Given' = Given
  BY SeenSame, KeptSame DEF Forgets
<1>2. r \in Waiting /\ Waiting' = Waiting \ {r} /\ die' = die
  BY SeenWaiting DEF Forgets, Loses, die
<1>3. r \in DOMAIN Requests /\ Requests[r].op = "delete"
  BY Seen DEF Requests, Asked, Forgets
<1>4. Service!Vanish(r)
  BY <1>1, <1>2, <1>3 DEF Service!Vanish
<1>5. QED
  BY <1>3, <1>4 DEF Service!Next

\* The send on chResults: the request is completed, with a truthful result and in
\* its turn.
LEMMA SendCompletes ==
  ASSUME TypeOK, TypeOK', Lists, Lists', QueuedIs, PlacesInv, ServiceInv, [Next]_vars, Send
  PROVE  Service!Next
<1> DEFINE r == loop.cur
           n == Len(chResults)
<1>1. /\ UNCHANGED <<cb, create, processing, queue, returned, closer>> /\ loop.pc = "send"
      /\ LoopTo(loop.ret, 0, "pending", loop.conn, loop.left, loop.back)
      /\ loop.ret # "send" /\ chResults' = Append(chResults, r)
  <2>1. loop' = [loop EXCEPT !.pc = loop.ret, !.cur = 0, !.ret = "pending"]
    BY DEF Send
  <2>2. LoopTo(loop.ret, 0, "pending", loop.conn, loop.left, loop.back) /\ loop.ret # "send"
    BY <2>1 DEF TypeOK, LoopOK, LoopTo
  <2>3. QED
    BY <2>2 DEF Send, submitVars, waitVars
<1>2. Hand = {r} /\ Hand' = {} /\ r \in Req /\ r \in Nat
  BY <1>1, HandType DEF Hand, LoopTo, Lists
<1>3. r \notin Outstanding
  BY <1>2 DEF PlacesInv, Where, Outstanding
<1>4. Outstanding' = Outstanding
  <2>1. Queued' = Queued
    BY <1>1, Zenon DEF LoopTo, Queued, Remaining
  <2>2. QED
    BY <1>1, <2>1 DEF Outstanding
<1>5. r \in Waiting /\ Waiting' = Waiting \ {r}
  BY <1>2, <1>3, <1>4, SeenWaiting
<1>6. Requests' = Requests /\ Given' = Given /\ die' = die
  BY <1>1, SeenSame, KeptSame DEF die
<1>7. /\ Results' = Append(Results, Result(r)) /\ Results'[n + 1] = Result(r)
      /\ n \in Nat /\ Len(Results) = n /\ Len(Results') = n + 1
  <2>1. /\ n \in Nat /\ DOMAIN chResults = 1 .. n /\ DOMAIN chResults' = 1 .. n + 1
        /\ chResults'[n + 1] = r /\ \A i \in 1 .. n : chResults'[i] = chResults[i]
    <3>1. chResults \in Seq(Nat) /\ chResults' = Append(chResults, r)
      BY <1>1 DEF Lists
    <3>2. /\ chResults' \in Seq(Nat) /\ Len(chResults') = n + 1
          /\ chResults'[n + 1] = r /\ \A i \in 1 .. n : chResults'[i] = chResults[i]
      BY <1>2, <3>1, SeqAppend
    <3>3. n \in Nat /\ DOMAIN chResults = 1 .. n /\ DOMAIN chResults' = 1 .. Len(chResults')
      BY <3>1, <3>2, SeqLength
    <3>4. QED
      BY <3>2, <3>3
  <2>2. Results = [i \in 1 .. n |-> Results[i]]
    BY <2>1 DEF Results
  <2>3. Results' = [i \in 1 .. n + 1 |-> Results'[i]]
    BY <2>1 DEF Results
  <2>4. \A i \in 1 .. n : Results'[i] = Results[i]
    BY <1>1, <2>1, SMTT(30) DEF Results, Result
  <2>5. Results'[n + 1] = Result(r)
    BY <1>1, <2>1, SMTT(30) DEF Results, Result
  <2> HIDE DEF n, r
  <2>6. /\ Results' = Append(Results, Results'[n + 1])
        /\ Len(Results) = n /\ Len(Results') = n + 1
    BY <2>1, <2>2, <2>3, <2>4, MappedAppend, ZenonT(30)
  <2>7. QED
    BY <2>1, <2>5, <2>6
<1>8. Results'[Len(Results')] = Result(r) /\ Len(Results') > Len(Results)
  BY <1>7
<1>9. /\ cb[r] \in Aiocb /\ r \in DOMAIN cb /\ Sound(cb[r])
      /\ cb[r].err \in Said => First(r)
  BY <1>2, Seen DEF ServiceInv
<1>10. /\ Requests[r].len = cb[r].len /\ Requests[r].full = cb[r].full
       /\ Requests[r].op = cb[r].op /\ Requests[r].conn = cb[r].conn
  BY <1>9 DEF Requests, Asked
<1>11. Service!Truthful(r, cb[r].size, cb[r].err)
  BY <1>9, <1>10, SMTT(30) DEF Service!Truthful, Sound, Aiocb
<1>12. cb[r].err \in {"nil", "EOF", "reset"} => ~ Service!Overtakes(r)
  <2> SUFFICES ASSUME First(r), NEW q \in Waiting, q < r PROVE
                 ~ (Requests[q].conn = Requests[r].conn /\ Requests[q].op = Requests[r].op)
    BY <1>9 DEF Said, Service!Overtakes
  <2>1. q \in Outstanding
    BY <1>2, SeenWaiting
  <2>2. q \in DOMAIN cb
    BY <2>1, Seen, Zenon DEF Outstanding, Lists, QueuedIs
  <2>3. Requests[q].conn = cb[q].conn /\ Requests[q].op = cb[q].op
    BY <2>2 DEF Requests, Asked
  <2>4. QED
    BY <1>10, <2>1, <2>3 DEF First
<1>13. Service!Complete(r, cb[r].size, cb[r].err)
  BY <1>5, <1>6, <1>7, <1>11, <1>12 DEF Service!Complete, Result
<1>14. Service!Completes
  BY <1>8, <1>13, SMTT(30) DEF Service!Completes, Result
<1>15. QED
  BY <1>14 DEF Service!Next

\* WaitIO receives a result, or the exit of the loop throws it away.
LEMMA ReceiveReturns ==
  ASSUME TypeOK, TypeOK', Lists, Lists', QueuedIs, PlacesInv, [Next]_vars,
         WaitReceive \/ ExitDrain
  PROVE  Service!Next
<1> DEFINE n == Len(chResults)
           r == Head(chResults)
<1>1. /\ UNCHANGED <<cb, create, processing, queue, loop, closer>>
      /\ chResults # <<>> /\ chResults' = Tail(chResults)
  BY DEF WaitReceive, ExitDrain, WaitOnly, ExitRest, submitVars
<1>2. Waiting' = Waiting /\ Requests' = Requests /\ die' = die
  <2>1. Outstanding' = Outstanding /\ Hand' = Hand
    BY <1>1, Zenon DEF Outstanding, Queued, Remaining, Hand
  <2>2. QED
    BY <1>1, <2>1, SeenWaiting, SeenSame, KeptSame, Zenon DEF die
<1>3. /\ n \in Nat /\ n > 0 /\ DOMAIN chResults = 1 .. n /\ DOMAIN chResults' = 1 .. n - 1
      /\ chResults[1] = r /\ \A i \in 1 .. n - 1 : chResults'[i] = chResults[i + 1]
  BY <1>1, SeqTail, SeqLength, SMTT(30) DEF Lists
<1>4. Results # <<>> /\ Results' = Tail(Results) /\ Head(Results) = Result(r)
  <2>1. Results = [i \in 1 .. n |-> Results[i]] /\ Results[1] = Result(r)
    BY <1>3 DEF Results
  <2>2. Results' = [i \in 1 .. n - 1 |-> Results[i + 1]]
    <3>1. Results' = [i \in 1 .. n - 1 |->
                        [id |-> chResults'[i], size |-> cb'[chResults'[i]].size,
                         err |-> cb'[chResults'[i]].err]]
      BY <1>3 DEF Results, Result
    <3>2. \A i \in 1 .. n - 1 :
            Results[i + 1] = [id |-> chResults[i + 1], size |-> cb[chResults[i + 1]].size,
                              err |-> cb[chResults[i + 1]].err]
      BY <1>3 DEF Results, Result
    <3>3. QED
      BY <1>1, <1>3, <3>1, <3>2
  <2> HIDE DEF n, r
  <2>3. QED
    BY <1>3, <2>1, <2>2, MappedTail, Zenon
<1>5. CASE WaitReceive
  <2>1. returned' = returned \cup {r}
    BY <1>5 DEF WaitReceive
  <2>2. Given' = Given \cup {Result(r)}
    BY <1>1, <2>1 DEF Given, Result
  <2>3. Service!Return
    BY <1>2, <1>4, <2>2 DEF Service!Return
  <2>4. QED
    BY <2>3 DEF Service!Next
<1>6. CASE ExitDrain
  <2>1. die /\ UNCHANGED returned
    BY <1>6 DEF ExitDrain, ExitRest, waitVars, PlacesInv, Control
  <2>2. Service!Drop
    BY <1>2, <1>4, <2>1, SeenSame DEF Service!Drop
  <2>3. QED
    BY <2>2 DEF Service!Next
<1>7. QED
  BY <1>5, <1>6

\* deliver gives up on a closed watcher, and the exit of the loop clears the lists.
LEMMA ExitDrops ==
  ASSUME TypeOK, TypeOK', Lists, Lists', QueuedIs, PlacesInv, [Next]_vars, SendDie \/ ExitDone
  PROVE  Service!Next
<1>1. /\ UNCHANGED <<cb, queue, chResults, returned, closer>> /\ die
  BY DEF SendDie, ExitDone, ExitRest, submitVars, waitVars, PlacesInv, Control
<1>2. Requests' = Requests /\ Results' = Results /\ Given' = Given /\ die' = die
  BY <1>1, SeenSame, KeptSame DEF die
<1>3. Outstanding' \subseteq Outstanding /\ Hand' \subseteq Hand
  <2>1. CASE SendDie
    <3>1. loop' = [loop EXCEPT !.pc = loop.ret, !.cur = 0, !.ret = "pending"]
      BY <2>1 DEF SendDie
    <3>2. LoopTo(loop.ret, 0, "pending", loop.conn, loop.left, loop.back) /\ loop.ret # "send"
      BY <3>1 DEF TypeOK, LoopOK, LoopTo
    <3>3. Queued' = Queued /\ UNCHANGED <<create, processing>>
      BY <1>1, <2>1, <3>2, Zenon DEF LoopTo, Queued, Remaining, SendDie, submitVars
    <3>4. QED
      BY <3>2, <3>3 DEF Outstanding, Hand, LoopTo
  <2>2. CASE ExitDone
    <3>1. create' = <<>> /\ processing' = <<>>
      BY <2>2 DEF ExitDone
    <3>2. LoopTo("done", loop.cur, loop.ret, loop.conn, loop.left, loop.back)
      BY <2>2, LoopMoves, Zenon DEF ExitDone, TypeOK
    <3>3. Queued' = Queued
      BY <1>1, <3>2, Zenon DEF LoopTo, Queued, Remaining
    <3>4. Elems(<<>>) = {}
      BY DEF Elems
    <3>5. QED
      BY <3>1, <3>2, <3>3, <3>4 DEF Outstanding, Hand, LoopTo
  <2>3. QED
    BY <2>1, <2>2
<1>4. Waiting' \subseteq Waiting
  BY <1>3, SeenWaiting
<1>5. Service!Drop
  BY <1>1, <1>2, <1>4 DEF Service!Drop
<1>6. QED
  BY <1>5 DEF Service!Next

\* The watcher implements the completion service: no path through the submitters,
\* the loop, the timer, WaitIO and Close loses, repeats, invents or reorders a
\* completion, or changes one that was given out.
THEOREM WatcherImplementsService == Spec => ImplementsService
<1>1. ASSUME Init PROVE Service!Init
  <2>1. cb = <<>> /\ chResults = <<>> /\ returned = {} /\ loop.pc = "select" /\ closer = "no"
    BY <1>1 DEF Init
  <2>2. Queued \subseteq Req /\ create = <<>> /\ processing = <<>> /\ Req = {}
    <3>1. TypeOK
      BY <1>1, InitType
    <3>2. Queued \subseteq Req
      BY <3>1, QueuedTypes DEF QueuedIs
    <3>3. QED
      BY <1>1, <2>1, <3>2, SMTT(30) DEF Init, Req
  <2>3. Requests = <<>> /\ Results = <<>> /\ Given = {}
    BY <2>1 DEF Requests, Results, Given
  <2>4. Waiting = {}
    BY <2>1, <2>2 DEF Waiting, Outstanding, InHand, Elems
  <2>5. QED
    BY <2>1, <2>3, <2>4 DEF Service!Init, die
<1>2. ASSUME TypeOK, TypeOK', Lists, Lists', QueuedIs, QueuedIs', PlacesInv, ServiceInv,
             [Next]_vars
      PROVE  [Service!Next]_Service!vars
  BY <1>2, StepKinds, SubmitAccepts, InsideHidden, FreeVanishes, SendCompletes,
     ReceiveReturns, ExitDrops, Zenon
<1>3. Init => Service!Init
  BY <1>1
<1>4. TypeOK /\ TypeOK' /\ Lists /\ Lists' /\ QueuedIs /\ QueuedIs' /\ PlacesInv
        /\ ServiceInv /\ [Next]_vars => [Service!Next]_Service!vars
  BY <1>2
<1>5. QED
  BY <1>3, <1>4, StepTypes, TypeCorrect, PlacesInvariant, ServiceInvariant, PTL
     DEF Spec, ImplementsService, Service!Spec

-----------------------------------------------------------------------------
(* No readiness is lost.                                                   *)

\* Only aioCreate makes a request outstanding.
LEMMA OutstandingOld ==
  ASSUME TypeOK, Lists, QueuedIs, QueuedIs', PlacesInv, ServiceInv, [Next]_vars
  PROVE  \A r \in Outstanding' : r \in Req => r \in Outstanding
<1>1. CASE \E r \in Req : Takes(r) \/ Forgets(r)
  BY <1>1 DEF Takes, Forgets, Loses
<1>2. CASE Shuffles
  BY <1>2 DEF Shuffles
<1>3. CASE \E c \in Conn, s \in Shapes : Submit(c, s)
  <2>1. /\ create' = Append(create, Len(cb) + 1) /\ UNCHANGED <<processing, queue, loop>>
        /\ Len(cb) + 1 \in Nat /\ Len(cb) + 1 \notin Req
    <3>1. Len(cb) + 1 \in Nat /\ \A r \in Req : r < Len(cb) + 1
      BY <1>3, KeptSubmit
    <3>2. QED
      BY <1>3, <3>1 DEF Submit
  <2>2. Elems(create') = Elems(create) \cup {Len(cb) + 1}
    BY <2>1, AppendFacts DEF Lists
  <2>3. Queued' = Queued
    BY <2>1, Zenon DEF Queued, Remaining
  <2>4. QED
    BY <2>1, <2>2, <2>3 DEF Outstanding
<1>4. CASE Send \/ SendDie \/ WaitReceive \/ ExitDrain \/ ExitDone
  <2>1. UNCHANGED queue /\ loop'.conn = loop.conn /\ loop'.left = loop.left
    <3>1. loop \in [pc : {"select", "swap", "pending", "watch", "start", "events", "timer",
                          "send", "release", "exit", "done"},
                    cur : Req \cup {0}, ret : {"pending", "events", "timer", "release"},
                    conn : Conn \cup {NoConn}, left : Seq(Req), back : {"pending", "exit"},
                    i : Nat, side : Op, now : Time]
      BY DEF TypeOK, LoopOK
    <3>2. QED
      BY <1>4, <3>1, Zenon DEF Send, SendDie, WaitReceive, ExitDrain, ExitDone, WaitOnly, ExitRest, Goto
  <2>2. Queued' = Queued
    BY <2>1, Zenon DEF Queued, Remaining
  <2>3. /\ create' \in {create, <<>>} /\ processing' \in {processing, <<>>}
    BY <1>4, Zenon DEF Send, SendDie, WaitReceive, ExitDrain, ExitDone, WaitOnly, submitVars
  <2>4. Elems(<<>>) = {}
    BY DEF Elems
  <2>5. QED
    BY <2>2, <2>3, <2>4 DEF Outstanding
<1>5. QED
  BY <1>1, <1>2, <1>3, <1>4, StepKinds, Zenon

\* No step changes what was asked for.
LEMMA NextKept ==
  ASSUME TypeOK, Lists, QueuedIs, QueuedIs', PlacesInv, ServiceInv, [Next]_vars
  PROVE  Kept
<1>1. CASE \E r \in Req : Takes(r) \/ Forgets(r)
  BY <1>1, KeptSame DEF Takes, Forgets
<1>2. CASE Shuffles
  BY <1>2 DEF Shuffles
<1>3. CASE \E c \in Conn, s \in Shapes : Submit(c, s)
  BY <1>3, KeptSubmit
<1>4. CASE Send \/ SendDie \/ WaitReceive \/ ExitDrain \/ ExitDone
  BY <1>4, KeptSame DEF Send, SendDie, WaitReceive, ExitDrain, ExitDone, WaitOnly, ExitRest
<1>5. QED
  BY <1>1, <1>2, <1>3, <1>4, StepKinds, Zenon

\* A request that was first stays first.
LEMMA FirstStays ==
  ASSUME Lists, QueuedIs, Kept, NEW r \in Req, First(r),
         \A q \in Outstanding' : q \in Req => q \in Outstanding,
         \A q \in Outstanding' : q \in Nat /\ (q \notin Req => r < q)
  PROVE  First(r)'
<1> SUFFICES ASSUME NEW q \in Outstanding', q < r
             PROVE  cb'[q].conn # cb'[r].conn \/ cb'[q].op # cb'[r].op
  BY DEF First
<1>1. q \in Req /\ q \in Outstanding
  <2>1. r \in Nat
    BY DEF Lists
  <2>2. q \in Nat /\ (q \notin Req => r < q)
    OBVIOUS
  <2>3. q \in Req
    BY <2>1, <2>2
  <2>4. QED
    BY <2>3
<1>2. QED
  BY <1>1, Zenon DEF First, Kept, SameAsk

\* Only aioCreate makes records, with nothing done, and a write has something to do.
LEMMA FreshRecord ==
  ASSUME TypeOK, Lists, QueuedIs, QueuedIs', PlacesInv, ServiceInv, [Next]_vars,
         NEW r \in Req', r \notin Req
  PROVE  cb'[r].size = 0 /\ cb'[r].err = "nil" /\ (cb'[r].op = "write" => cb'[r].len > 0)
<1>1. PICK c \in Conn, s \in Shapes : Submit(c, s)
  <2>1. Req' # Req
    OBVIOUS
  <2>2. ASSUME NEW q \in Req, Takes(q) \/ Forgets(q) PROVE Req' = Req
    BY <2>2, KeptSame DEF Takes, Forgets
  <2>3. Shuffles => Req' = Req
    BY DEF Shuffles
  <2>4. Send \/ SendDie \/ WaitReceive \/ ExitDrain \/ ExitDone => Req' = Req
    BY KeptSame DEF Send, SendDie, WaitReceive, ExitDrain, ExitDone, WaitOnly, ExitRest
  <2>5. QED
    BY <2>1, <2>2, <2>3, <2>4, StepKinds
<1> DEFINE a == [conn |-> c, op |-> s.op, len |-> s.len, full |-> s.full,
                 deadline |-> s.deadline, size |-> 0, err |-> "nil"]
<1>2. Req' = Req \cup {Len(cb) + 1} /\ cb' = Append(cb, a)
  BY <1>1, KeptSubmit DEF Submit
<1>3. r = Len(cb) + 1 /\ cb'[Len(cb) + 1] = a
  BY <1>2, SeqAppend DEF TypeOK, CbOK
<1>4. a.op = "write" => a.len > 0
  BY ShapesAssumption
<1>5. QED
  BY <1>3, <1>4

\* Every step.
LEMMA InOrderStep ==
  ASSUME TypeOK, Lists, Lists', QueuedIs, QueuedIs', PlacesInv, PlacesInv', ServiceInv, ServiceInv',
         InOrder, Kept, [Next]_vars
  PROVE  InOrder'
<1>1. \A r \in Outstanding' : r \in Req => r \in Outstanding
  BY OutstandingOld
<1>2. Req \subseteq Nat /\ Req' \subseteq Nat /\ Outstanding' \subseteq Req' /\ Req \subseteq Req'
  BY Zenon DEF Lists, QueuedIs, Outstanding, Kept
<1>3. \A r \in Req, q \in Req' : q \notin Req => r < q
  BY <1>2 DEF Req
<1>4. ASSUME NEW r \in Req, First(r) PROVE First(r)'
  BY <1>1, <1>2, <1>3, <1>4, FirstStays
<1>5. ASSUME NEW r \in Req, Untold(r)
      PROVE  /\ Attempted(r)' => First(r)'
             /\ r \in Outstanding' /\ cb'[r].op = "write" => cb'[r].size < cb'[r].len
  <2>1. cb'[r].op = cb[r].op /\ cb'[r].len = cb[r].len /\ cb'[r].size = cb[r].size
    BY <1>5, Zenon DEF Kept, SameAsk, Untold
  <2>2. Attempted(r)' => Attempted(r)
    BY <1>5 DEF Untold, Attempted
  <2>3. QED
    BY <1>1, <1>4, <2>1, <2>2 DEF InOrder
<1>6. ASSUME NEW r \in Req, Tries(r)
      PROVE  /\ Attempted(r)' => First(r)'
             /\ r \in Outstanding' /\ cb'[r].op = "write" => cb'[r].size < cb'[r].len
  <2>1. First(r)'
    BY <1>4, <1>6 DEF Tries
  <2>2. cb'[r].op = cb[r].op /\ cb'[r].len = cb[r].len /\ r \in Req'
    BY <1>2, Zenon DEF Kept, SameAsk
  <2>3. Try(r).done => r \notin Outstanding'
    BY <1>6, <2>2, Zenon DEF Tries, PlacesInv, Where, Outstanding
  <2>4. ~ Try(r).done /\ cb[r].op = "write" => cb'[r].size < cb[r].len
    BY <1>6, BlockedLeaves, Zenon DEF Tries, TypeOK, InOrder
  <2>5. QED
    BY <2>1, <2>2, <2>3, <2>4
<1>7. ASSUME NEW r \in Req
      PROVE  /\ Attempted(r)' => First(r)'
             /\ r \in Outstanding' /\ cb'[r].op = "write" => cb'[r].size < cb'[r].len
  <2>1. CASE Untold(r)
    BY <1>5, <2>1
  <2>2. ASSUME NEW q \in Req, Tries(q) PROVE q = r \/ Untold(r)
    <3>1. Writes({q})
      BY <2>2, KeptAttempt, Zenon DEF TypeOK, Tries
    <3>2. QED
      BY <3>1 DEF Writes, Untold
  <2>3. QED
    BY <1>6, <2>1, <2>2, StepTries
<1>8. ASSUME NEW r \in Req', r \notin Req
      PROVE  cb'[r].size = 0 /\ cb'[r].err = "nil" /\ (cb'[r].op = "write" => cb'[r].len > 0)
  BY <1>8, FreshRecord
<1>9. QED
  <2>1. ASSUME NEW r \in Req', r \notin Req
        PROVE  ~ Attempted(r)' /\ (cb'[r].op = "write" => cb'[r].size < cb'[r].len)
    BY <1>8, <2>1 DEF Attempted
  <2>2. QED
    BY <1>7, <2>1 DEF InOrder

\* Every step preserves it.
LEMMA NextReady ==
  ASSUME TypeOK, TypeOK', PlacesInv, PlacesInv', ServiceInv, ServiceInv', Handshake, ReadyInv,
         [Next]_vars
  PROVE  ReadyInv'
<1>1. Lists /\ Lists' /\ QueuedIs /\ QueuedIs'
  BY StepTypes
<1>2. Kept
  BY <1>1, NextKept
<1>3. Cursor' /\ InOrder'
  BY <1>1, <1>2, CursorStep, InOrderStep DEF ReadyInv
<1> SUFFICES ASSUME poller' # "exit" PROVE AllFine'
  BY <1>3 DEF ReadyInv, AllFine
<1>4. AllFine
  BY PollerGone DEF ReadyInv, AllFine
<1>5. CASE LoopStep
  BY <1>1, <1>2, <1>3, <1>4, <1>5, LoopFine DEF ReadyInv
<1>6. CASE PollerStep /\ Others
  BY <1>2, <1>4, <1>6, PollerFine
<1>7. CASE PeerStep /\ UNCHANGED pollVars /\ Others
  BY <1>2, <1>4, <1>7, PeerFine
<1>8. CASE \/ \E c \in Conn, s \in Shapes : Submit(c, s)
           \/ NotifyStep \/ WaitStep \/ CloseDie \/ CloseStep \/ ClockTick \/ TimerFires
           \/ UNCHANGED vars
  <2>1. \A q \in Req : Untold(q)
    <3>1. UNCHANGED cb => \A q \in Req : Untold(q)
      BY DEF Untold
    <3>2. ASSUME NEW c \in Conn, NEW s \in Shapes, Submit(c, s) PROVE \A q \in Req : Untold(q)
      BY <3>2, KeptSubmit DEF Writes, Untold
    <3>3. \/ \E c \in Conn, s \in Shapes : Submit(c, s)
          \/ UNCHANGED cb
      BY <1>8, Zenon
         DEF NotifyStep, Notify, WaitStep, WaitCall, WaitReceive, WaitCheck, WaitClosed, WaitOnly,
             CloseDie, CloseStep, ClosePoller, CloseWake, CloseDone, CloseRest, ClockTick,
             TimerFires, ClockRest, vars
    <3>4. QED
      BY <3>1, <3>2, <3>3
  <2>2. \A q \in Req' : q \notin Req => cb'[q].size = 0 /\ cb'[q].err = "nil"
    BY <1>1, FreshRecord
  <2>3. QED
    BY <1>2, <1>4, <1>8, <2>1, <2>2, UserFine
<1>9. QED
  BY <1>5, <1>6, <1>7, <1>8, Zenon DEF Next

\* epoll reports an edge once.  A request that found its socket not ready is not
\* passed over when it becomes ready, however the loop, the poller and the peer
\* interleave: while the poller runs, a queued request whose socket is ready is on
\* the kernel's ready list or an event for it has yet to be handled.
THEOREM AlwaysNoLostReadiness == Spec => []NoLostReadiness
<1>1. Init => Handshake
  BY DEF Init, PollInit, Handshake, InEvents
<1>2. TypeOK /\ Handshake /\ [Next]_vars => Handshake'
  BY HandshakeStep
<1>3. /\ TypeOK /\ TypeOK' /\ PlacesInv /\ PlacesInv' /\ ServiceInv /\ ServiceInv' /\ Handshake
      /\ ReadyInv /\ [Next]_vars
      => ReadyInv'
  BY NextReady
<1>4. TypeOK /\ Handshake /\ ReadyInv => NoLostReadiness
  <2> SUFFICES ASSUME TypeOK, Handshake, ReadyInv, Quiescent, NEW c \in Conn, NEW o \in Op,
                      queue[<<c, o>>] # <<>>, o \in Mask(sock[c]), ~ CutShort(c, o)
               PROVE  FALSE
    BY DEF NoLostReadiness
  <2>1. loop.pc = "select" /\ ~ chSignal /\ poller = "wait" /\ Ready = {}
    BY DEF Quiescent
  <2>2. ~ Announced(c, o)
    BY <2>1, NotAnnounced DEF InEvents
  <2>3. ~ sock[c].ready
    BY <2>1 DEF Ready
  <2>4. QED
    BY <2>1, <2>2, <2>3 DEF ReadyInv, Fine, Owed
<1>5. QED
  BY <1>1, <1>2, <1>3, <1>4, InitReady, TypeCorrect, PlacesInvariant, ServiceInvariant, PTL DEF Spec

-----------------------------------------------------------------------------
(* No byte is lost.                                                        *)

\* A set of numbers that is not empty has a least one.
LEMMA LeastOf ==
  ASSUME NEW S \in SUBSET Nat, S # {}
  PROVE  \E x \in S : \A y \in S : x <= y
<1> DEFINE R == OpToRel(<, Nat)
<1>1. PICK x \in S : \A y \in S : ~ (<<y, x>> \in R)
  <2> HIDE DEF R
  <2>1. IsWellFoundedOn(R, Nat)
    BY NatLessThanWellFounded, Zenon DEF R
  <2>2. QED
    BY <2>1, WFMin, Zenon
<1>2. ASSUME NEW y \in S PROVE x <= y
  <2>1. ~ (y < x)
    BY <1>1, Zenon DEF OpToRel
  <2>2. QED
    BY <2>1
<1>3. QED
  BY <1>2

\* Running totals are the ones that Taken computes: where two would first differ,
\* they agree one place before.
LEMMA TakenIs ==
  ASSUME CbOK, NEW c \in Conn, NEW f, Totals(c, f)
  PROVE  Taken(c) = f[Len(cb)]
<1> DEFINE N == Len(cb)
           P(h) == h = [n \in 0 .. N |->
                          IF n = 0 THEN 0
                          ELSE h[n - 1] + (IF cb[n].conn = c /\ cb[n].op = "read" THEN cb[n].size ELSE 0)]
           g == CHOOSE h : P(h)
<1>1. N \in Nat
  BY SeqLength DEF CbOK
<1>2. P(f)
  BY <1>1 DEF Totals, Share, Req
<1>3. P(g)
  BY <1>2, Zenon
<1>4. Taken(c) = g[N]
  BY DEF Taken
<1>5. \A n \in 0 .. N : g[n] = IF n = 0 THEN 0 ELSE g[n - 1] + Share(c, n)
  BY <1>3, Zenon DEF Share
<1>6. \A n \in 0 .. N : f[n] = IF n = 0 THEN 0 ELSE f[n - 1] + Share(c, n)
  BY <1>2 DEF Share
<1> DEFINE D == {n \in 0 .. N : f[n] # g[n]}
<1> HIDE DEF g, P, N
<1>7. D = {}
  <2> SUFFICES ASSUME D # {} PROVE FALSE
    OBVIOUS
  <2>1. D \in SUBSET Nat
    BY <1>1
  <2> HIDE DEF D
  <2>2. PICK x \in D : \A y \in D : x <= y
    BY <2>1, LeastOf
  <2> USE DEF D
  <2>3. x # 0
    BY <1>1, <1>5, <1>6
  <2>4. x \in 0 .. N /\ x - 1 \in 0 .. N /\ x - 1 \notin D
    BY <1>1, <2>2, <2>3
  <2>5. f[x - 1] = g[x - 1]
    BY <2>4
  <2>6. QED
    BY <1>5, <1>6, <2>3, <2>4, <2>5
<1>8. QED
  BY <1>1, <1>4, <1>7 DEF N

\* The inductive invariant says what the property says.
LEMMA StreamMeans == CbOK /\ StreamInv => StreamConserved
BY TakenIs DEF StreamInv, StreamConserved

\* Every step preserves it.
LEMMA NextStream ==
  ASSUME TypeOK, TypeOK', PlacesInv, ServiceInv, StreamInv, [Next]_vars
  PROVE  StreamInv'
<1>1. Lists /\ QueuedIs /\ QueuedIs'
  BY StepTypes
<1>2. Kept
  BY <1>1, NextKept
<1>3. /\ CbOK /\ CbOK' /\ SockOK /\ SockOK'
      /\ \A c \in Conn : /\ sock[c].sent \in Nat /\ sock[c].rcv \in Nat
                         /\ sock'[c].sent \in Nat /\ sock'[c].rcv \in Nat
  BY MaxBytesAssumption DEF TypeOK, SockOK, Sock
<1>4. Req \subseteq Req' /\ \A r \in Req : cb'[r].conn = cb[r].conn /\ cb'[r].op = cb[r].op
  BY <1>2, Zenon DEF Kept, SameAsk
<1> SUFFICES ASSUME NEW c \in Conn
             PROVE  \E g \in [0 .. Len(cb') -> Nat] :
                      Totals(c, g)' /\ sock'[c].sent = sock'[c].rcv + g[Len(cb')]
  BY DEF StreamInv
<1>5. PICK f \in [0 .. Len(cb) -> Nat] : Totals(c, f) /\ sock[c].sent = sock[c].rcv + f[Len(cb)]
  BY DEF StreamInv
<1>6. f[Len(cb)] \in Nat
  BY <1>3, SeqLength DEF CbOK
<1>7. ASSUME NEW q \in Req, cb[q].op \in Op, Attempt(q)
      PROVE  \E g \in [0 .. Len(cb') -> Nat] :
               Totals(c, g)' /\ sock'[c].sent = sock'[c].rcv + g[Len(cb')]
  <2>1. PICK k \in Nat :
           /\ cb[q].op = "read" => cb'[q].size = cb[q].size + k
           /\ cb[q].op = "write" => k = 0
           /\ \A d \in Conn :
                /\ sock'[d].sent = sock[d].sent
                /\ sock[d].rcv = sock'[d].rcv + (IF d = cb[q].conn THEN k ELSE 0)
    BY <1>3, <1>7, AttemptBytes, Zenon
  <2>2. PICK j \in Nat : j = IF c = cb[q].conn THEN k ELSE 0
    OBVIOUS
  <2>3. Len(cb') = Len(cb) /\ \A r \in Req : r # q => cb'[r] = cb[r]
    <3>1. DOMAIN cb = Req /\ DOMAIN cb' = 1 .. Len(cb') /\ Len(cb) \in Nat /\ Len(cb') \in Nat
      BY <1>3, SeqLength DEF CbOK, Req
    <3>2. DOMAIN cb' = DOMAIN cb /\ \A r \in Req : r # q => cb'[r] = cb[r]
      BY <1>7, <3>1 DEF Attempt
    <3>3. ASSUME NEW m \in Nat, NEW n \in Nat, 1 .. m = 1 .. n PROVE m <= n
      <4>1. m = 0 \/ m \in 1 .. n
        BY <3>3
      <4>2. QED
        BY <4>1
    <3>4. 1 .. Len(cb') = 1 .. Len(cb)
      BY <3>1, <3>2, Zenon DEF Req
    <3>5. Len(cb') <= Len(cb) /\ Len(cb) <= Len(cb')
      BY <3>1, <3>3, <3>4
    <3>6. QED
      BY <3>1, <3>2, <3>5
  <2>4. ASSUME NEW r \in Req
        PROVE  Share(c, r) \in Nat /\ Share(c, r)' = Share(c, r) + (IF r = q THEN j ELSE 0)
    <3>1. cb[r].size \in Nat
      BY <1>3, SeqElement DEF CbOK, Req, Aiocb
    <3>2. CASE r = q
      <4>1. cb'[r].conn = cb[r].conn /\ cb'[r].op = cb[r].op /\ cb[r].op \in {"read", "write"}
        BY <1>4, <1>7, <3>2, Zenon DEF Op
      <4>2. CASE cb[r].conn = c /\ cb[r].op = "read"
        <5>1. Share(c, r) = cb[r].size /\ Share(c, r)' = cb'[r].size
          BY <4>1, <4>2, Zenon DEF Share
        <5>2. cb'[r].size = cb[r].size + k /\ j = k
          BY <2>1, <2>2, <3>2, <4>2, Zenon
        <5>3. QED
          BY <3>1, <3>2, <5>1, <5>2
      <4>3. CASE ~ (cb[r].conn = c /\ cb[r].op = "read")
        <5>1. Share(c, r) = 0 /\ Share(c, r)' = 0
          BY <4>1, <4>3, Zenon DEF Share
        <5>2. j = 0
          BY <2>1, <2>2, <3>2, <4>1, <4>3, Zenon
        <5>3. QED
          BY <3>2, <5>1, <5>2
      <4>4. QED
        BY <4>2, <4>3
    <3>3. CASE r # q
      BY <2>3, <3>1, <3>3 DEF Share
    <3>4. QED
      BY <3>2, <3>3
  <2>5. PICK g \in [0 .. Len(cb') -> Nat] : Totals(c, g)' /\ g[Len(cb')] = f[Len(cb)] + j
    <3>1. \A r \in Req :
            Share(c, r) \in Nat /\ Share(c, r)' = Share(c, r) + (IF r = q THEN j ELSE 0)
      BY <2>4, Zenon
    <3>2. CbOK /\ Totals(c, f) /\ Len(cb') = Len(cb)
      BY <1>3, <1>5, <2>3, Zenon
    <3>3. \E g \in [0 .. Len(cb') -> Nat] : Totals(c, g)' /\ g[Len(cb')] = f[Len(cb)] + j
      BY <3>1, <3>2, TotalsMore, ZenonT(30)
    <3>4. QED
      BY <3>3, Zenon
  <2>6. sock'[c].sent = sock[c].sent /\ sock[c].rcv = sock'[c].rcv + j
    BY <2>1, <2>2
  <2>7. sock'[c].sent = sock'[c].rcv + g[Len(cb')]
    BY <1>3, <1>5, <1>6, <2>5, <2>6
  <2>8. QED
    BY <2>5, <2>7
<1>8. ASSUME BytesKept, \A r \in Req : Untold(r)
      PROVE  \E g \in [0 .. Len(cb') -> Nat] :
               Totals(c, g)' /\ sock'[c].sent = sock'[c].rcv + g[Len(cb')]
  <2>1. ASSUME NEW r \in Req' PROVE Share(c, r)' = IF r \in Req THEN Share(c, r) ELSE 0
    <3>1. CASE r \in Req
      BY <1>4, <1>8, <3>1 DEF Share, Untold
    <3>2. CASE r \notin Req
      BY <1>1, <3>2, FreshRecord DEF Share
    <3>3. QED
      BY <3>1, <3>2
  <2>2. PICK g \in [0 .. Len(cb') -> Nat] : Totals(c, g)' /\ g[Len(cb')] = f[Len(cb)]
    BY <1>3, <1>4, <1>5, <2>1, TotalsSame, Zenon
  <2>3. sock'[c].sent + sock[c].rcv = sock[c].sent + sock'[c].rcv
    BY <1>8 DEF BytesKept
  <2>4. sock'[c].sent = sock'[c].rcv + g[Len(cb')]
    <3>1. /\ sock[c].sent \in Nat /\ sock[c].rcv \in Nat
          /\ sock'[c].sent \in Nat /\ sock'[c].rcv \in Nat
      BY <1>3
    <3>2. sock'[c].sent = sock'[c].rcv + f[Len(cb)]
      BY <1>5, <1>6, <2>3, <3>1
    <3>3. QED
      BY <2>2, <3>2
  <2>5. QED
    BY <2>2, <2>4
<1>9. QED
  BY <1>1, <1>7, <1>8, BytesStep, StepTries, Zenon DEF Tries

\* No byte the peer sent is lost or handed out twice: what the kernel still holds
\* and what the reads of a connection have got, over all of its requests and
\* whatever became of them, add up to what was sent.
THEOREM AlwaysStreamConserved == Spec => []StreamConserved
<1>1. TypeOK /\ TypeOK' /\ PlacesInv /\ ServiceInv /\ StreamInv /\ [Next]_vars => StreamInv'
  BY NextStream
<1>2. TypeOK /\ StreamInv => StreamConserved
  BY StreamMeans DEF TypeOK
<1>3. QED
  BY <1>1, <1>2, InitStream, TypeCorrect, PlacesInvariant, ServiceInvariant, PTL DEF Spec
=============================================================================
