---------------------------- MODULE WatcherClaims ----------------------------
(* What the documentation says of the watcher and the code does not keep.  *)
(* Each run checks one of these formulas and shows how it fails.           *)
EXTENDS MCWatcher

OneReadFull == {ReadFull}
OneWrite == {Write}

\* WaitIO: "blocks until at least one operation completes or the watcher
\* closes."  Once die is closed, a WaitIO under way returns.
WaitIOEnds == die ~> waiter \in {"user", "end"}

\* ReadFull: "fills buf or completes with an error."  When the peer has closed
\* its side, a full read on a connection that stays registered completes.
ReadFullCompletes ==
  \A r \in Id :
    (r \in DOMAIN cb /\ cb[r].full /\ sock[cb[r].conn].peer = "fin")
      ~> (r \in returned)
=============================================================================
