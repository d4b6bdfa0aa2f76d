------------------------------ MODULE TimedHeap ------------------------------
(***************************************************************************)
(* timedHeap, the requests with deadlines in an array ordered by           *)
(* container/heap, and the idx field by which a request finds its place in *)
(* the array.  The watcher loop is its only user; the steps of one call of *)
(* container/heap are taken one comparison at a time, and no other call    *)
(* starts before it is over.                                               *)
(***************************************************************************)
EXTENDS Integers, FiniteSets

CONSTANTS
  Req,       \* request records
  Times,     \* deadlines
  None

ASSUME TimesAssumption == Times \subseteq Nat /\ 0 \in Times
ASSUME NoneAssumption == None \notin [req : Req, why : {"expire", "cancel"}]

VARIABLES
  h,         \* the slice, a function on 0 .. Len - 1
  deadline,  \* deadline of each request
  idx,       \* idx of each request, -1 when not in the heap
  call       \* the call of container/heap under way

vars == <<h, deadline, idx, call>>

Len == Cardinality(DOMAIN h)

\* A call: what it does, the request its caller takes out (if any), where up or
\* down has come, where down started, and the length of the heap without the
\* element that leaves.
Idle == [op |-> "none", req |-> None, pc |-> "none", at |-> 0, from |-> 0, n |-> 0]

Init == h = <<>> /\ deadline = [r \in Req |-> 0] /\ idx = [r \in Req |-> -1] /\ call = Idle

\* With a mistake: the comparison is the wrong way round.
LessReversed(i, j) == deadline[h[j]] < deadline[h[i]]

Less(i, j) == deadline[h[i]] < deadline[h[j]]

\* With a mistake: the request that moves from j to i keeps its old idx.
SwapOneIdx(i, j) ==
  /\ h' = [h EXCEPT ![i] = h[j], ![j] = h[i]]
  /\ idx' = [idx EXCEPT ![h[i]] = j]

Swap(i, j) ==
  /\ h' = [h EXCEPT ![i] = h[j], ![j] = h[i]]
  /\ idx' = [idx EXCEPT ![h[i]] = j, ![h[j]] = i]

\* A request is queued with a deadline: heap.Push appends it and sifts it up.
Push(r, t) ==
  /\ call = Idle /\ idx[r] = -1
  /\ h' = [k \in 0 .. Len |-> IF k = Len THEN r ELSE h[k]]
  /\ deadline' = [deadline EXCEPT ![r] = t]
  /\ idx' = [idx EXCEPT ![r] = Len]
  /\ call' = [Idle EXCEPT !.op = "push", !.pc = "up", !.at = Len, !.n = Len + 1]

\* The deadline of the root has passed: heap.Pop swaps it with the last element.
Pop ==
  /\ call = Idle /\ Len > 0
  /\ LET n == Len - 1 IN
       /\ Swap(0, n)
       /\ call' = [op |-> "expire", req |-> h[0], pc |-> "down", at |-> 0, from |-> 0, n |-> n]
  /\ UNCHANGED deadline

\* With a mistake: deliver calls heap.Pop, as the timer case does.
RemoveRoot(r) ==
  /\ call = Idle /\ idx[r] # -1
  /\ LET n == Len - 1 IN
       /\ Swap(0, n)
       /\ call' = [op |-> "cancel", req |-> r, pc |-> "down", at |-> 0, from |-> 0, n |-> n]
  /\ UNCHANGED deadline

\* deliver takes a request out by its idx: heap.Remove swaps it with the last
\* element unless it is the last one.
Remove(r) ==
  /\ call = Idle /\ idx[r] # -1
  /\ LET n == Len - 1
         i == idx[r]
     IN /\ IF i = n THEN UNCHANGED <<h, idx>> ELSE Swap(i, n)
        /\ call' = [op |-> "cancel", req |-> r, pc |-> IF i = n THEN "shrink" ELSE "down",
                    at |-> i, from |-> i, n |-> n]
  /\ UNCHANGED deadline

Parent(j) == (j - 1) \div 2

\* One turn of up.
Up ==
  /\ call.pc = "up"
  /\ IF call.at > 0 /\ Less(call.at, Parent(call.at))
       THEN /\ Swap(call.at, Parent(call.at))
            /\ call' = [call EXCEPT !.at = Parent(call.at)]
       ELSE /\ call' = IF call.op = "push" THEN Idle ELSE [call EXCEPT !.pc = "shrink"]
            /\ UNCHANGED <<h, idx>>
  /\ UNCHANGED deadline

\* The child with which down compares: the right one only if it is earlier.
Child(i) ==
  IF 2 * i + 2 < call.n /\ Less(2 * i + 2, 2 * i + 1) THEN 2 * i + 2 ELSE 2 * i + 1

\* One turn of down; when it is over and nothing has moved, Remove calls up.
Down ==
  /\ call.pc = "down"
  /\ LET i == call.at
         j == Child(i)
     IN IF 2 * i + 1 < call.n /\ Less(j, i)
          THEN Swap(i, j) /\ call' = [call EXCEPT !.at = j]
          ELSE /\ call' = [call EXCEPT
                    !.pc = IF call.op = "cancel" /\ i = call.from THEN "up" ELSE "shrink"]
               /\ UNCHANGED <<h, idx>>
  /\ UNCHANGED deadline

\* timedHeap.Pop cuts off the last element, and the caller marks its request as
\* no longer in the heap.
Shrink ==
  /\ call.pc = "shrink"
  /\ h' = [k \in 0 .. Len - 2 |-> h[k]]
  /\ idx' = [idx EXCEPT ![call.req] = -1]
  /\ call' = Idle
  /\ UNCHANGED deadline

Next ==
  \/ Pop \/ Up \/ Down \/ Shrink
  \/ \E r \in Req : Remove(r) \/ \E t \in Times : Push(r, t)

Spec == Init /\ [][Next]_vars
-----------------------------------------------------------------------------
\* The request at place k knows that it is there, also in the middle of a call,
\* and a request with an idx is at that place: heap.Remove(pcb.idx) takes out
\* the request that deliver was given.
IdxExact ==
  /\ \A k \in DOMAIN h : idx[h[k]] = k
  /\ \A r \in Req : idx[r] # -1 => idx[r] \in DOMAIN h /\ h[idx[r]] = r

\* Between calls no request precedes the one above it, so that the root, the
\* only one the timer case looks at, is one with the earliest deadline.
Ordered == call = Idle => \A k \in DOMAIN h \ {0} : deadline[h[Parent(k)]] <= deadline[h[k]]

\* The array implements the set of deadlines: each call takes out exactly the
\* request its caller goes on with, and heap.Pop an earliest one.
Set == INSTANCE DeadlineSet WITH
         pending <- {h[k] : k \in DOMAIN h},
         leaving <- IF call.op \in {"none", "push"} THEN None
                    ELSE [req |-> call.req, why |-> call.op]

ImplementsSet == Set!Spec
=============================================================================
