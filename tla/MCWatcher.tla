------------------------------ MODULE MCWatcher ------------------------------
(* Instances of Watcher: the requests users make in each run.              *)
EXTENDS ServiceRefinement, TLC

Read == [op |-> "read", len |-> 2, full |-> FALSE, deadline |-> 0]
ReadTimeout == [Read EXCEPT !.deadline = 2]
ReadSoon == [Read EXCEPT !.deadline = 1]
ReadFull == [Read EXCEPT !.full = TRUE]
Write == [op |-> "write", len |-> 2, full |-> FALSE, deadline |-> 0]
Free == [op |-> "delete", len |-> 0, full |-> FALSE, deadline |-> 0]

\* Requests served by readiness, by their deadlines, on two connections, and
\* cut short by Close.
ServiceShapes == {ReadFull, Write}
DeadlineShapes == {ReadSoon, ReadTimeout}
PairShapes == {Read, Free}
CloseShapes == {ReadSoon}

Symmetry == Permutations(Conn)

=============================================================================
