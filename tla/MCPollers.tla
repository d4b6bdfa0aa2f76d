------------------------------ MODULE MCPollers ------------------------------
EXTENDS Pollers

OneConn == {CHOOSE c \in Conn : TRUE}
TwoConns == CHOOSE S \in SUBSET Conn : Cardinality(S) = 2

Case(platform, conns, env, reqs, cpus) ==
  [platform |-> platform, conns |-> conns, env |-> env, reqs |-> reqs, cpus |-> cpus]

\* Registration, readiness and release on two connections; end of stream,
\* ENOBUFS and queues of several requests on one; a larger poll set;
\* failure, shutdown and affinity; and the start.
Cases ==
  {Case("kqueue", TwoConns, {"peer", "free", "eintr", "reuse"}, 2, 0),
   Case("kqueue", OneConn, {"peer", "eof", "nobufs", "eintr"}, 3, 0),
   Case("kqueue", OneConn, {"close", "error", "eintr"}, 1, 2),
   Case("wsapoll", TwoConns, {"peer", "free", "eof", "dup"}, 2, 0),
   Case("wsapoll", Conn, {"free"}, 3, 0),
   Case("wsapoll", OneConn, {"close", "error", "eintr"}, 1, 1),
   Case("wsapoll", OneConn, {"open"}, 1, 0)}

\* Windows gives out the value of a closed handle again.
HandleReuse == {Case("wsapoll", TwoConns, {"free", "reuse"}, 2, 0)}
=============================================================================
