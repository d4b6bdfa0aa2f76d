--------------------------- MODULE CompletionService --------------------------
(***************************************************************************)
(* What the watcher promises its users, without loop, poller, queues,      *)
(* heap or timer: an accepted request is completed once, with a truthful   *)
(* result, in the order of submission where order matters, and results are *)
(* returned in the order of completion.  Only a closed watcher drops any.  *)
(***************************************************************************)
EXTENDS Integers, Sequences

CONSTANT Request  \* what can be asked for: connection, operation, length, full

VARIABLES
  requests,  \* the accepted requests
  waiting,   \* those not yet completed
  results,   \* completions on their way
  returned,  \* completions the user has
  open

vars == <<requests, waiting, results, returned, open>>

Init ==
  requests = <<>> /\ waiting = {} /\ results = <<>> /\ returned = {} /\ open = TRUE

Accept(q) ==
  /\ open
  /\ requests' = Append(requests, q)
  /\ waiting' = waiting \cup {Len(requests) + 1}
  /\ UNCHANGED <<results, returned, open>>

\* An earlier request for the same operation on the same connection waits.
Overtakes(r) ==
  \E q \in waiting :
    q < r /\ requests[q].conn = requests[r].conn /\ requests[q].op = requests[r].op

\* Success means that bytes were moved, all of them for a write or a full read.
Truthful(r, size, err) ==
  /\ size \in 0 .. requests[r].len
  /\ err # "EAGAIN"
  /\ err = "nil" => /\ size > 0
                    /\ requests[r].full \/ requests[r].op = "write" => size = requests[r].len

\* What the socket says is said to the requests in order; cancellation,
\* expiry and failed registration may strike any of them.
Complete(r, size, err) ==
  /\ r \in waiting
  /\ Truthful(r, size, err)
  /\ err \in {"nil", "EOF", "reset"} => ~ Overtakes(r)
  /\ waiting' = waiting \ {r}
  /\ results' = Append(results, [id |-> r, size |-> size, err |-> err])
  /\ UNCHANGED <<requests, returned, open>>

\* Free has no result of its own.
Vanish(r) ==
  /\ requests[r].op = "delete" /\ r \in waiting
  /\ waiting' = waiting \ {r}
  /\ UNCHANGED <<requests, results, returned, open>>

Return ==
  /\ results # <<>>
  /\ results' = Tail(results)
  /\ returned' = returned \cup {Head(results)}
  /\ UNCHANGED <<requests, waiting, open>>

Shut == open /\ open' = FALSE /\ UNCHANGED <<requests, waiting, results, returned>>

Drop ==
  /\ ~ open
  /\ \/ waiting' \in SUBSET waiting /\ UNCHANGED results
     \/ results # <<>> /\ results' = Tail(results) /\ UNCHANGED waiting
  /\ UNCHANGED <<requests, returned, open>>

\* A completion appends its result, which says what was completed.
Completes ==
  /\ Len(results') > Len(results)
  /\ LET res == results'[Len(results')] IN Complete(res.id, res.size, res.err)

Next ==
  \/ \E q \in Request : Accept(q)
  \/ Completes \/ Return \/ Shut \/ Drop
  \/ \E r \in DOMAIN requests : Vanish(r)

Spec == Init /\ [][Next]_vars
=============================================================================
