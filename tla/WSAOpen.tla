------------------------------- MODULE WSAOpen -------------------------------
(***************************************************************************)
(* openPoll on Windows: the pair of loopback sockets through which the     *)
(* poller is woken, made by a listener and a goroutine that dials it.      *)
(* Every step may fail, and the sockets of the steps before have then to   *)
(* be closed.                                                              *)
(***************************************************************************)
EXTENDS PollerClient

VARIABLES
  setup,   \* where createSocketPair is
  dialer,  \* the dialing goroutine
  sockets  \* the open sockets; "backlog" is a connection that waits for Accept

openVars == <<setup, dialer, sockets>>

OpenInit ==
  /\ dialer = "none" /\ sockets = {}
  /\ setup = IF "open" \in run.env THEN "listen" ELSE "opened"

OpenRest == UNCHANGED <<connVars, loop, poller, sigVars, affVars, stopVars>>

Listen ==
  /\ setup = "listen"
  /\ \/ setup' = "accept" /\ sockets' = {"listener"} /\ dialer' = "dialing"
     \/ setup' = "failed" /\ UNCHANGED <<sockets, dialer>>
  /\ OpenRest

\* net.Dial: the connection is established, and then its socket configured;
\* either may fail.  The outcome goes to connCh or to errCh.
Dial ==
  /\ \/ /\ dialer = "dialing" /\ "listener" \in sockets
        /\ dialer' = "connected" /\ sockets' = sockets \cup {"dialed", "backlog"}
     \/ dialer = "connected" /\ dialer' = "connCh" /\ UNCHANGED sockets
     \/ /\ dialer \in {"dialing", "connected"}
        /\ dialer' = "errCh" /\ sockets' = sockets \ {"dialed"}
  /\ UNCHANGED setup /\ OpenRest

\* Accept waits for a connection to be established, whatever has become of its
\* other end since.
Accept ==
  /\ setup = "accept" /\ "backlog" \in sockets
  /\ setup' = "result" /\ sockets' = (sockets \ {"backlog"}) \cup {"accepted"}
  /\ UNCHANGED dialer /\ OpenRest

\* It may fail, but nothing makes it fail.
AcceptFails ==
  /\ setup = "accept"
  /\ setup' = "failed" /\ sockets' = sockets \ {"listener", "backlog"}
  /\ UNCHANGED dialer /\ OpenRest

DialResult ==
  /\ setup = "result"
  /\ \/ dialer = "connCh" /\ setup' = "reader" /\ UNCHANGED sockets
     \/ dialer = "errCh" /\ setup' = "failed" /\ sockets' = sockets \ {"accepted", "listener"}
  /\ UNCHANGED dialer /\ OpenRest

\* Each end is duplicated, or not, and the original closed.
Duplicate(from, to, here, next) ==
  /\ setup = here /\ setup' = next
  /\ \E made \in SUBSET {to} : sockets' = (sockets \ {from}) \cup made
  /\ UNCHANGED dialer /\ OpenRest

\* With a mistake: the end that could be duplicated stays open.
PairFailsOpen ==
  /\ setup = "check" /\ ~ {"reader", "writer"} \subseteq sockets
  /\ setup' = "failed" /\ sockets' = sockets \ {"listener"}
  /\ UNCHANGED dialer /\ OpenRest

PairFails ==
  /\ setup = "check" /\ ~ {"reader", "writer"} \subseteq sockets
  /\ setup' = "failed" /\ sockets' = sockets \ {"reader", "writer", "listener"}
  /\ UNCHANGED dialer /\ OpenRest

\* Both ends are made non-blocking; the listener is closed in any case.  With
\* the poller, NewWatcherSize starts the two goroutines.
PairDone ==
  /\ setup = "check" /\ {"reader", "writer"} \subseteq sockets
  /\ \/ setup' = "opened" /\ sockets' = sockets \ {"listener"} /\ loop' = AtSelect /\ poller' = "top"
     \/ setup' = "failed" /\ sockets' = sockets \ {"reader", "writer", "listener"}
        /\ UNCHANGED <<loop, poller>>
  /\ UNCHANGED <<dialer, connVars, sigVars, affVars, stopVars>>

\* A connection left behind in connCh is closed when it is collected.
DialedCollected ==
  /\ setup = "failed" /\ dialer = "connCh" /\ "dialed" \in sockets
  /\ sockets' = sockets \ {"dialed"}
  /\ UNCHANGED <<setup, dialer>> /\ OpenRest

OpenStep ==
  \/ Listen \/ Dial \/ Accept \/ DialResult \/ PairFails \/ PairDone \/ DialedCollected
  \/ Duplicate("accepted", "reader", "reader", "writer")
  \/ Duplicate("dialed", "writer", "writer", "check")
=============================================================================
