-------------------------- MODULE ServiceRefinement ---------------------------
(* The watcher implements the completion service.                          *)
EXTENDS Watcher

\* A request as its user sees it, and its result.
Asked(c, s) == [conn |-> c, op |-> s.op, len |-> s.len, full |-> s.full]
Result(r) == [id |-> r, size |-> cb[r].size, err |-> cb[r].err]

\* What the service knows of the watcher.  A request waits until its result is in
\* chResults: it may be in a list, in a queue, or in the hands of deliver.
Requests == [r \in DOMAIN cb |-> Asked(cb[r].conn, cb[r])]
Waiting == Outstanding \cup {r \in DOMAIN cb : InHand(r)}
Results == [i \in DOMAIN chResults |-> Result(chResults[i])]
Given == {Result(r) : r \in returned}

Service == INSTANCE CompletionService WITH
  Request <- {Asked(c, s) : c \in Conn, s \in Shapes},
  requests <- Requests, waiting <- Waiting, results <- Results,
  returned <- Given, open <- ~ die

\* Every step of the submitters, the loop, the poller, the timer, WaitIO and
\* Close is a step of the completion service or invisible to its users: no path
\* through handlePending, handleEvents, the timer case and releaseConn loses,
\* repeats, invents or reorders a completion, or changes one that was given out.
ImplementsService == Service!Spec
=============================================================================
