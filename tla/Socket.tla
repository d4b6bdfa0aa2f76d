------------------------------- MODULE Socket -------------------------------
(***************************************************************************)
(* The kernel's side of the connections, as the watcher uses it: a TCP     *)
(* byte stream in each direction and the edge-triggered readiness that     *)
(* epoll keeps for a watched descriptor.  Nothing here is code of the      *)
(* repository; only the counts of bytes matter, never their values.        *)
(***************************************************************************)
EXTENDS Naturals, FiniteSets

CONSTANTS
  Conn,      \* the connections
  MaxBytes,  \* bound: bytes the peer sends on one connection
  SndBuf,    \* capacity of a send buffer
  Env        \* which optional events of the environment may happen

ASSUME ConnAssumption == IsFiniteSet(Conn)
ASSUME MaxBytesAssumption == MaxBytes \in Nat
ASSUME SndBufAssumption == SndBuf \in Nat \ {0}

VARIABLE sock

Op == {"read", "write"}

(* fd    which descriptors are open: the one of the net.Conn, the watcher's
         duplicate, or both;
   rcv   bytes received and not yet read;   sent  bytes the peer has sent;
   peer  open, or it closed its side (fin), or it reset the connection;
   snd   bytes accepted for sending and not yet acknowledged;
   short a write found too little space, so more space will be an edge;
   ready the duplicate is on epoll's ready list                            *)
Sock == {s \in [fd : {"conn", "both", "dup", "closed"},
                rcv : 0 .. MaxBytes, sent : 0 .. MaxBytes,
                peer : {"open", "fin", "rst"},
                snd : 0 .. SndBuf, short : BOOLEAN, ready : BOOLEAN] :
           s.rcv <= s.sent}

SockOK == sock \in [Conn -> Sock]

SockInit == sock = [c \in Conn |->
  [fd |-> "conn", rcv |-> 0, sent |-> 0, peer |-> "open",
   snd |-> 0, short |-> FALSE, ready |-> FALSE]]

Smaller(m, n) == IF m < n THEN m ELSE n

\* The operations that would not block now: what epoll reports for s.
Mask(s) ==
  {o \in Op : \/ s.peer = "rst"
              \/ o = "read" /\ (s.rcv > 0 \/ s.peer = "fin")
              \/ o = "write" /\ s.snd < SndBuf}

\* read(2) of up to n bytes.  A reset connection fails every operation; which
\* error it reports after the first is not told apart.
RawRead(s, n) ==
  CASE n = 0 -> [n |-> 0, err |-> "nil", sock |-> s]
    [] n > 0 /\ s.rcv > 0 ->
         LET k == Smaller(n, s.rcv)
         IN  [n |-> k, err |-> "nil", sock |-> [s EXCEPT !.rcv = @ - k]]
    [] n > 0 /\ s.rcv = 0 /\ s.peer = "rst" -> [n |-> 0, err |-> "reset", sock |-> s]
    [] n > 0 /\ s.rcv = 0 /\ s.peer = "fin" -> [n |-> 0, err |-> "nil", sock |-> s]
    [] n > 0 /\ s.rcv = 0 /\ s.peer = "open" -> [n |-> 0, err |-> "EAGAIN", sock |-> s]

\* write(2) of n bytes, n > 0; a short one asks for an edge when space is freed.
RawWrite(s, n) ==
  LET k == Smaller(n, SndBuf - s.snd)
  IN  CASE s.peer = "rst" -> [n |-> 0, err |-> "reset", sock |-> s]
        [] s.peer # "rst" /\ k = 0 ->
             [n |-> 0, err |-> "EAGAIN", sock |-> [s EXCEPT !.short = TRUE]]
        [] s.peer # "rst" /\ k > 0 ->
             [n |-> k, err |-> "nil",
              sock |-> [s EXCEPT !.snd = @ + k, !.short = @ \/ k < n]]

\* Something happened to c that wakes a poller watching it.
Edge(c, s) == sock' = [sock EXCEPT ![c] = [s EXCEPT !.ready = (s.fd = "dup")]]

PeerSends(c) ==
  /\ sock[c].fd # "closed" /\ sock[c].peer = "open" /\ sock[c].sent < MaxBytes
  /\ Edge(c, [sock[c] EXCEPT !.rcv = @ + 1, !.sent = @ + 1])

PeerCloses(c) ==
  /\ "fin" \in Env /\ sock[c].fd # "closed" /\ sock[c].peer = "open"
  /\ Edge(c, [sock[c] EXCEPT !.peer = "fin"])

\* What was received before the reset can still be read.
PeerResets(c) ==
  /\ "rst" \in Env /\ sock[c].fd # "closed" /\ sock[c].peer # "rst"
  /\ Edge(c, [sock[c] EXCEPT !.peer = "rst"])

\* The peer acknowledges what was sent: an edge only if a write was short.
PeerAcks(c) ==
  /\ sock[c].fd # "closed" /\ sock[c].peer # "rst" /\ sock[c].snd > 0
  /\ IF sock[c].short
     THEN Edge(c, [sock[c] EXCEPT !.snd = 0, !.short = FALSE])
     ELSE sock' = [sock EXCEPT ![c].snd = 0]

PeerStep == \E c \in Conn :
  PeerSends(c) \/ PeerCloses(c) \/ PeerResets(c) \/ PeerAcks(c)
=============================================================================
