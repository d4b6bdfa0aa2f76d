----------------------------- MODULE DeadlineSet -----------------------------
(***************************************************************************)
(* What the watcher loop needs of its timeout heap: a set of requests with *)
(* deadlines, from which it takes either the one it names or one that no   *)
(* other precedes.                                                         *)
(***************************************************************************)
EXTENDS Integers

CONSTANTS Req, None

VARIABLES
  pending,   \* the requests whose deadlines are tracked
  deadline,  \* the deadline of each of them
  leaving    \* None, or the request being taken out and why

vars == <<pending, deadline, leaving>>

Init == pending = {} /\ leaving = None /\ deadline \in [Req -> Int]

Add(r) ==
  /\ leaving = None /\ r \notin pending
  /\ pending' = pending \cup {r}
  /\ \A q \in Req \ {r} : deadline'[q] = deadline[q]
  /\ UNCHANGED leaving

Cancel(r) ==
  /\ leaving = None /\ r \in pending
  /\ leaving' = [req |-> r, why |-> "cancel"]
  /\ UNCHANGED <<pending, deadline>>

Expire(r) ==
  /\ leaving = None /\ r \in pending
  /\ \A q \in pending : deadline[r] <= deadline[q]
  /\ leaving' = [req |-> r, why |-> "expire"]
  /\ UNCHANGED <<pending, deadline>>

Gone ==
  /\ leaving # None
  /\ pending' = pending \ {leaving.req}
  /\ leaving' = None
  /\ UNCHANGED deadline

Next == Gone \/ \E r \in Req : Add(r) \/ Cancel(r) \/ Expire(r)

Spec == Init /\ [][Next]_vars
=============================================================================
