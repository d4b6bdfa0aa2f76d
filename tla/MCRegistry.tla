----------------------------- MODULE MCRegistry ------------------------------
EXTENDS Registry

Case(objs, addrs, fds, reqs, users) ==
  [objs |-> objs, addrs |-> addrs, fds |-> fds, reqs |-> reqs, users |-> users]

\* Two requests on two connections; a third connection at the address and
\* with the descriptor of an earlier one; shutdown and affinity.
Cases ==
  {Case({1, 2}, {1, 2}, {1, 2}, 2, {}),
   Case({1, 2, 3}, {1, 2}, {1}, 2, {}),
   Case({1, 2}, {1}, {1}, 2, {"close", "affinity"})}
=============================================================================
