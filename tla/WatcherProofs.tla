--------------------------- MODULE WatcherProofs ---------------------------
(* Types, submission, the timer and the event handshake, for any           *)
(* connections, requests and bounds; and what the modules PlacesProofs,    *)
(* ReadinessProofs and ServiceProofs need of lists and attempts.           *)
EXTENDS Watcher, Integers, TLAPS

-----------------------------------------------------------------------------
(* Sequences.  The library's sequence theorems say as much and more; these few *)
(* are all that is needed here, and keep the obligations small.            *)

\* A sequence is a function on an initial segment.
LEMMA SeqFunction == \A S : Seq(S) = UNION {[1 .. n -> S] : n \in Nat}
OBVIOUS

\* Its length and its elements.
LEMMA SeqLength ==
  ASSUME NEW S, NEW s \in Seq(S)
  PROVE  Len(s) \in Nat /\ DOMAIN s = 1 .. Len(s) /\ s \in [1 .. Len(s) -> S]
OBVIOUS

\* An element by its place.
LEMMA SeqElement ==
  ASSUME NEW S, NEW s \in Seq(S), NEW i \in 1 .. Len(s)
  PROVE  s[i] \in S
OBVIOUS

\* Append.
LEMMA SeqAppend ==
  ASSUME NEW S, NEW s \in Seq(S), NEW x \in S
  PROVE  /\ Append(s, x) \in Seq(S) /\ Len(Append(s, x)) = Len(s) + 1
         /\ Append(s, x)[Len(s) + 1] = x
         /\ \A i \in 1 .. Len(s) : Append(s, x)[i] = s[i]
OBVIOUS

\* Concatenation.
LEMMA SeqConcat ==
  ASSUME NEW S, NEW s \in Seq(S), NEW t \in Seq(S)
  PROVE  /\ s \o t \in Seq(S) /\ Len(s \o t) = Len(s) + Len(t)
         /\ \A i \in 1 .. Len(s) + Len(t) :
              (s \o t)[i] = IF i <= Len(s) THEN s[i] ELSE t[i - Len(s)]
OBVIOUS

\* Head and Tail.
LEMMA SeqTail ==
  ASSUME NEW S, NEW s \in Seq(S), s # <<>>
  PROVE  /\ Head(s) \in S /\ Tail(s) \in Seq(S) /\ Len(Tail(s)) = Len(s) - 1
         /\ \A i \in 1 .. Len(Tail(s)) : Tail(s)[i] = s[i + 1]
OBVIOUS

\* One element replaced.
LEMMA SeqExcept ==
  ASSUME NEW S, NEW s \in Seq(S), NEW i \in 1 .. Len(s), NEW x \in S
  PROVE  [s EXCEPT ![i] = x] \in Seq(S) /\ Len([s EXCEPT ![i] = x]) = Len(s)
OBVIOUS

\* SubSeq.
LEMMA SeqSub ==
  ASSUME NEW S, NEW s, NEW m \in Int, NEW n \in Int, \A i \in m .. n : s[i] \in S
  PROVE  /\ SubSeq(s, m, n) \in Seq(S)
         /\ Len(SubSeq(s, m, n)) = IF m <= n THEN n - m + 1 ELSE 0
         /\ \A i \in 1 .. n - m + 1 : SubSeq(s, m, n)[i] = s[m + i - 1]
OBVIOUS

-----------------------------------------------------------------------------
(* The socket and the two attempts.                                        *)

\* Writing the sending side of a socket keeps it well formed.
LEMMA SetSending ==
  ASSUME NEW s \in Sock, NEW m \in 0 .. SndBuf, NEW b \in BOOLEAN
  PROVE  [s EXCEPT !.snd = m, !.short = b] \in Sock
BY SndBufAssumption, Zenon DEF Sock

\* A read returns at most what was asked for and leaves a socket.
LEMMA RawReadType ==
  ASSUME NEW s \in Sock, NEW n \in Nat
  PROVE  /\ RawRead(s, n).n \in Nat /\ RawRead(s, n).n <= n
         /\ RawRead(s, n).err \in {"nil", "EAGAIN", "reset"}
         /\ RawRead(s, n).sock \in Sock
<1> USE MaxBytesAssumption, SndBufAssumption
<1>1. s.rcv \in 0 .. MaxBytes /\ s.sent \in 0 .. MaxBytes /\ s.rcv <= s.sent
      /\ s.peer \in {"open", "fin", "rst"}
  BY DEF Sock
<1>2. CASE n = 0
  BY <1>2 DEF RawRead
<1>3. CASE n > 0 /\ s.rcv > 0
  <2> DEFINE k == Smaller(n, s.rcv)
  <2>1. k \in Nat /\ k <= n /\ k <= s.rcv
    BY <1>1 DEF Smaller
  <2>2. RawRead(s, n) = [n |-> k, err |-> "nil", sock |-> [s EXCEPT !.rcv = @ - k]]
    BY <1>3 DEF RawRead
  <2>3. [s EXCEPT !.rcv = @ - k] \in Sock
    BY <1>1, <2>1 DEF Sock
  <2>4. QED
    BY <2>1, <2>2, <2>3
<1>4. CASE n > 0 /\ s.rcv = 0
  BY <1>1, <1>4 DEF RawRead
<1>5. QED
  BY <1>1, <1>2, <1>3, <1>4

\* A write accepts at most what was offered and leaves a socket.
LEMMA RawWriteType ==
  ASSUME NEW s \in Sock, NEW n \in Nat
  PROVE  /\ RawWrite(s, n).n \in Nat /\ RawWrite(s, n).n <= n
         /\ RawWrite(s, n).err \in {"nil", "EAGAIN", "reset"}
         /\ RawWrite(s, n).sock \in Sock
         /\ RawWrite(s, n).err = "EAGAIN" => RawWrite(s, n).n = 0
<1> USE MaxBytesAssumption, SndBufAssumption
<1> DEFINE k == Smaller(n, SndBuf - s.snd)
<1>1. s.snd \in 0 .. SndBuf /\ s.peer \in {"open", "fin", "rst"}
      /\ s.short \in BOOLEAN
  BY DEF Sock
<1>2. k \in Nat /\ k <= n /\ k <= SndBuf - s.snd
  BY <1>1 DEF Smaller
<1>3. CASE s.peer = "rst"
  BY <1>3 DEF RawWrite
<1>4. CASE s.peer # "rst" /\ k = 0
  <2>1. RawWrite(s, n) = [n |-> 0, err |-> "EAGAIN", sock |-> [s EXCEPT !.short = TRUE]]
    BY <1>4 DEF RawWrite
  <2>2. [s EXCEPT !.short = TRUE] \in Sock
    BY Zenon DEF Sock
  <2>3. QED
    BY <2>1, <2>2
<1>5. CASE s.peer # "rst" /\ k > 0
  <2> DEFINE t == [s EXCEPT !.snd = @ + k, !.short = @ \/ k < n]
  <2>1. RawWrite(s, n) = [n |-> k, err |-> "nil", sock |-> t]
    BY <1>2, <1>5 DEF RawWrite
  <2>2. t \in Sock
    <3>1. s.snd + k \in 0 .. SndBuf
      BY <1>1, <1>2
    <3>2. (s.short \/ k < n) \in BOOLEAN
      BY Zenon
    <3> HIDE DEF k
    <3>3. QED
      BY <3>1, <3>2, SetSending, Zenon
  <2>3. QED
    BY <1>2, <2>1, <2>2
<1>6. QED
  BY <1>2, <1>3, <1>4, <1>5

\* tryRead and tryWrite never move more bytes than the buffer has room for, and
\* leave a well-formed request and socket.
LEMMA TryType ==
  ASSUME CbOK, SockOK, NEW r \in Req
  PROVE  Try(r).pcb \in Aiocb /\ Try(r).sock \in Sock
<1> DEFINE p == cb[r]
           s == sock[cb[r].conn]
           left == p.len - p.size
<1>1. p \in Aiocb
  BY SeqElement DEF CbOK, Req
<1>2. /\ p.conn \in Conn /\ p.len \in Nat /\ p.size \in Nat /\ p.size <= p.len
      /\ p.full \in BOOLEAN
  BY <1>1 DEF Aiocb
<1>3. s \in Sock /\ left \in Nat
  BY <1>2 DEF SockOK
<1> HIDE DEF p, s
<1>4. ASSUME NEW n \in Nat, n <= left, NEW e \in Error
      PROVE  [p EXCEPT !.size = p.size + n, !.err = e] \in Aiocb
  <2>1. p.size + n \in Nat /\ p.size + n <= p.len
    BY <1>2, <1>4
  <2>2. QED
    BY <1>1, <2>1, Zenon DEF Aiocb
<1>5. TryRead(p, s).pcb \in Aiocb /\ TryRead(p, s).sock \in Sock
  <2> DEFINE x == RawRead(s, left)
             err == IF x.err = "nil" /\ x.n = 0 THEN "EOF" ELSE x.err
  <2>1. /\ x.n \in Nat /\ x.n <= left /\ x.sock \in Sock
        /\ x.err \in {"nil", "EAGAIN", "reset"}
    BY <1>3, RawReadType
  <2>2. err \in Error
    BY <2>1 DEF Error
  <2> HIDE DEF x, err
  <2>3. [p EXCEPT !.size = p.size + x.n, !.err = err] \in Aiocb
    BY <1>4, <2>1, <2>2, Zenon
  <2>4. TryRead(p, s).sock = x.sock
        /\ TryRead(p, s).pcb \in {p, [p EXCEPT !.size = p.size + x.n, !.err = err]}
    BY DEF TryRead, x, err
  <2>5. QED
    BY <1>1, <2>1, <2>3, <2>4
<1>6. TryWrite(p, s).pcb \in Aiocb /\ TryWrite(p, s).sock \in Sock
  <2> DEFINE x == RawWrite(s, left)
  <2>1. /\ x.n \in Nat /\ x.n <= left /\ x.sock \in Sock
        /\ x.err \in {"nil", "EAGAIN", "reset"}
    BY <1>3, RawWriteType
  <2>2. x.err \in Error
    BY <2>1, Zenon DEF Error
  <2> HIDE DEF x
  <2>3. [p EXCEPT !.size = p.size + x.n, !.err = x.err] \in Aiocb
    BY <1>4, <2>1, <2>2, Zenon
  <2>4. TryWrite(p, s).sock = x.sock
        /\ TryWrite(p, s).pcb = [p EXCEPT !.size = p.size + x.n, !.err = x.err]
    BY DEF TryWrite, x
  <2>5. QED
    BY <2>1, <2>3, <2>4
<1>7. QED
  BY <1>5, <1>6 DEF Try, p, s
\* Writing to one request record leaves a sequence of as many records.
LEMMA SetRequest ==
  ASSUME CbOK, NEW r \in Req, NEW a \in Aiocb, cb' = [cb EXCEPT ![r] = a]
  PROVE  CbOK' /\ Req' = Req
<1>1. cb' \in Seq(Aiocb) /\ Len(cb') = Len(cb)
  BY SeqExcept DEF CbOK, Req
<1>2. QED
  BY <1>1 DEF CbOK, Req

\* An attempt keeps the requests and the sockets well formed.
LEMMA AttemptType ==
  ASSUME CbOK, SockOK, NEW r \in Req, Attempt(r)
  PROVE  CbOK' /\ SockOK' /\ Req' = Req
<1>1. Try(r).pcb \in Aiocb /\ Try(r).sock \in Sock
  BY TryType
<1>2. CbOK' /\ Req' = Req
  BY <1>1, SetRequest, Zenon DEF Attempt
<1>3. SockOK'
  BY <1>1, Zenon DEF Attempt, SockOK
<1>4. QED
  BY <1>2, <1>3

\* So does recording an error.
LEMMA FailType ==
  ASSUME CbOK, NEW r \in Req, NEW e \in Error, Fail(r, e)
  PROVE  CbOK' /\ Req' = Req
<1>1. cb[r] \in Aiocb
  BY SeqElement DEF CbOK, Req
<1>2. [cb[r] EXCEPT !.err = e] \in Aiocb
  BY <1>1 DEF Aiocb
<1>3. cb' = [cb EXCEPT ![r] = [cb[r] EXCEPT !.err = e]]
  BY DEF Fail
<1>4. QED
  BY <1>2, <1>3, SetRequest, Zenon

\* A record that may be delivered.
Sound(a) ==
  /\ a.err # "EAGAIN"
  /\ a.err = "nil" => a.size > 0 /\ (a.full \/ a.op = "write" => a.size = a.len)

\* tryRead and tryWrite report completion only of a sound record.
LEMMA DoneSound ==
  ASSUME CbOK, SockOK, NEW r \in Req, cb[r].op \in Op,
         cb[r].op = "write" => cb[r].len > 0, Attempt(r), Try(r).done
  PROVE  Sound(cb'[r])
<1> DEFINE p == cb[r]
           s == sock[cb[r].conn]
           n == p.len - p.size
<1>1. p \in Aiocb /\ DOMAIN cb = Req
  BY SeqElement, SeqLength, Zenon DEF CbOK, Req
<1>2. /\ p.conn \in Conn /\ p.len \in Nat /\ p.size \in Nat /\ p.size <= p.len
      /\ p.op \in Op /\ (p.op = "write" => p.len > 0)
  BY <1>1 DEF Aiocb
<1>3. s \in Sock /\ n \in Nat
  BY <1>2 DEF SockOK
<1>4. cb'[r] = Try(r).pcb
  BY <1>1 DEF Attempt
<1>5. CASE p.op = "read"
  <2> DEFINE x == RawRead(s, n)
             err == IF x.err = "nil" /\ x.n = 0 THEN "EOF" ELSE x.err
             size == p.size + x.n
             a == [p EXCEPT !.size = size, !.err = err]
             d == ~ p.full \/ err # "nil" \/ size = p.len
  <2>1. x.n \in Nat /\ x.n <= n /\ x.err \in {"nil", "EAGAIN", "reset"}
    BY <1>3, RawReadType, Zenon
  <2>2. Try(r) = TryRead(p, s)
    BY <1>5, Zenon DEF Try
  <2> HIDE DEF x, p, s
  <2>3. x.err # "EAGAIN" /\ cb'[r] = a /\ (~ p.full \/ err # "nil" \/ size = p.len)
    <3>1. TryRead(p, s) = IF x.err = "EAGAIN"
                          THEN [done |-> FALSE, pcb |-> p, sock |-> x.sock]
                          ELSE [done |-> d, pcb |-> a, sock |-> x.sock]
      BY DEF TryRead, x
    <3> HIDE DEF a, d, err, size, n
    <3>2. x.err # "EAGAIN"
      BY <2>2, <3>1
    <3>3. Try(r).pcb = a /\ Try(r).done = d
      BY <2>2, <3>1, <3>2
    <3>4. QED
      BY <1>4, <3>2, <3>3, Zenon DEF d
  <2>4. /\ err # "EAGAIN" /\ (err = "nil" => x.n > 0)
        /\ size \in Nat /\ (x.n > 0 => size > 0)
    BY <1>2, <2>1, <2>3
  <2> HIDE DEF size, err
  <2>5. a.err = err /\ a.size = size /\ a.full = p.full /\ a.op = "read" /\ a.len = p.len
    BY <1>1, <1>5 DEF Aiocb
  <2>6. QED
    BY <2>3, <2>4, <2>5 DEF Sound
<1>6. CASE p.op = "write"
  <2> DEFINE x == RawWrite(s, n)
             size == p.size + x.n
             a == [p EXCEPT !.size = size, !.err = x.err]
             d == x.err # "EAGAIN" /\ (x.err # "nil" \/ size = p.len)
  <2>1. x.n \in Nat /\ x.n <= n
    BY <1>3, RawWriteType
  <2>2. Try(r) = TryWrite(p, s)
    BY <1>6, Zenon DEF Try
  <2> HIDE DEF x, p, s
  <2>3. x.err # "EAGAIN" /\ cb'[r] = a /\ (x.err # "nil" \/ size = p.len)
    <3>1. TryWrite(p, s) = [done |-> d, pcb |-> a, sock |-> x.sock]
      BY DEF TryWrite, x
    <3> HIDE DEF a, d, size, n
    <3>2. Try(r).pcb = a /\ Try(r).done = d
      BY <2>2, <3>1
    <3>3. QED
      BY <1>4, <3>2, Zenon DEF d
  <2> HIDE DEF size
  <2>4. a.err = x.err /\ a.size = size /\ a.op = "write" /\ a.len = p.len
    BY <1>1, <1>6 DEF Aiocb
  <2>5. QED
    BY <1>2, <1>6, <2>3, <2>4 DEF Sound
<1>7. QED
  BY <1>2, <1>5, <1>6, Zenon DEF Op

\* The socket has said nothing to request r in this step.
Untold(r) ==
  cb'[r].size = cb[r].size /\ cb'[r].err \in {cb[r].err, "dup", "watch", "closed", "deadline"}

\* Recording one of the watcher's own errors is not the socket's word.
LEMMA FailUntold ==
  ASSUME CbOK, NEW r \in Req, NEW e \in {"dup", "watch", "closed", "deadline"}, Fail(r, e)
  PROVE  \A q \in Req : Untold(q)
<1> DEFINE a == [cb[r] EXCEPT !.err = e]
<1>1. cb[r] \in Aiocb /\ DOMAIN cb = Req
  BY SeqElement, SeqLength DEF CbOK, Req
<1>2. a.err = e /\ a.size = cb[r].size
  BY <1>1 DEF Aiocb
<1>3. cb' = [cb EXCEPT ![r] = a]
  BY DEF Fail
<1> HIDE DEF a
<1>4. cb'[r] = a /\ \A q \in Req : q # r => cb'[q] = cb[q]
  BY <1>1, <1>3
<1>5. QED
  BY <1>2, <1>4 DEF Untold

\* The requests stay when no record is added.
LEMMA SameReq ==
  ASSUME UNCHANGED cb, CbOK
  PROVE  CbOK' /\ Req' = Req
BY DEF CbOK, Req

-----------------------------------------------------------------------------
(* Every group of actions keeps the types.                                 *)

\* What the peer and the network do to a socket.
LEMMA PeerType ==
  ASSUME SockOK, PeerStep
  PROVE  SockOK'
<1> USE MaxBytesAssumption, SndBufAssumption
<1>1. ASSUME NEW c \in Conn, NEW s \in Sock, Edge(c, s)
      PROVE  SockOK'
  <2>1. [s EXCEPT !.ready = (s.fd = "dup")] \in Sock
    <3>1. (s.fd = "dup") \in BOOLEAN
      BY Zenon
    <3>2. ASSUME NEW b \in BOOLEAN PROVE [s EXCEPT !.ready = b] \in Sock
      BY DEF Sock
    <3>3. QED
      BY <3>1, <3>2, Zenon
  <2>2. QED
    BY <1>1, <2>1 DEF Edge, SockOK
<1>2. PICK c \in Conn : PeerSends(c) \/ PeerCloses(c) \/ PeerResets(c) \/ PeerAcks(c)
  BY DEF PeerStep
<1> DEFINE s == sock[c]
<1>3. /\ s \in Sock
      /\ s.rcv \in 0 .. MaxBytes /\ s.sent \in 0 .. MaxBytes /\ s.rcv <= s.sent
  BY DEF SockOK, Sock
<1>4. CASE PeerSends(c)
  <2>1. [sock[c] EXCEPT !.rcv = @ + 1, !.sent = @ + 1] \in Sock
    <3>1. s.rcv + 1 \in 0 .. MaxBytes /\ s.sent + 1 \in 0 .. MaxBytes
          /\ s.rcv + 1 <= s.sent + 1
      BY <1>3, <1>4 DEF PeerSends
    <3> HIDE DEF s
    <3>2. [s EXCEPT !.rcv = @ + 1, !.sent = @ + 1] \in Sock
      BY <1>3, <3>1, Zenon DEF Sock
    <3>3. QED
      BY <3>2 DEF s
  <2>2. QED
    BY <1>1, <1>4, <2>1 DEF PeerSends
<1>5. CASE PeerCloses(c)
  <2>1. [sock[c] EXCEPT !.peer = "fin"] \in Sock
    BY <1>3 DEF Sock
  <2>2. QED
    BY <1>1, <1>5, <2>1 DEF PeerCloses
<1>6. CASE PeerResets(c)
  <2>1. [sock[c] EXCEPT !.peer = "rst"] \in Sock
    BY <1>3 DEF Sock
  <2>2. QED
    BY <1>1, <1>6, <2>1 DEF PeerResets
<1>7. CASE PeerAcks(c)
  <2>1. [sock[c] EXCEPT !.snd = 0, !.short = FALSE] \in Sock
    <3>1. 0 \in 0 .. SndBuf
      OBVIOUS
    <3>2. QED
      BY <1>3, <3>1, SetSending, Zenon
  <2>2. [sock[c] EXCEPT !.snd = 0] \in Sock
    BY <1>3 DEF Sock
  <2>3. CASE sock[c].short
    BY <1>1, <1>7, <2>1, <2>3 DEF PeerAcks
  <2>4. CASE ~ sock[c].short
    BY <1>7, <2>2, <2>4 DEF PeerAcks, SockOK
  <2>5. QED
    BY <2>3, <2>4
<1>8. QED
  BY <1>2, <1>4, <1>5, <1>6, <1>7

\* What the poller goroutine does, the batch of events it builds included.
LEMMA PollerType ==
  ASSUME SockOK, PollOK, PollerStep
  PROVE  SockOK' /\ PollOK'
<1>1. CASE PollerTop
  BY <1>1 DEF PollerTop, PollOK, SockOK
<1>2. CASE PollerWait
  <2> DEFINE S == {c \in Ready : Mask(sock[c]) # {}}
  <2>1. PICK list \in Listings(S) :
          /\ events' = events \o
               [i \in DOMAIN list |-> [ident |-> list[i], ev |-> Mask(sock[list[i]])]]
          /\ poller' = IF wake \/ list # <<>> THEN "send" ELSE "wait"
    BY <1>2, Zenon DEF PollerWait
  <2> DEFINE new == [i \in DOMAIN list |-> [ident |-> list[i], ev |-> Mask(sock[list[i]])]]
  <2>2. S \subseteq Conn
    BY DEF Ready
  <2>3. PICK k \in 0 .. Cardinality(S) : list \in [1 .. k -> S]
    BY Zenon DEF Listings
  <2>4. k \in Nat
    OBVIOUS
  <2>5. new \in [1 .. k -> Event]
    <3>1. \A i \in DOMAIN list : list[i] \in Conn
      BY <2>2, <2>3, Zenon
    <3>2. \A x : Mask(x) \in SUBSET Op
      BY DEF Mask
    <3>3. QED
      BY <2>3, <3>1, <3>2, Zenon DEF Event
  <2> HIDE DEF new
  <2>6. new \in Seq(Event)
    BY <2>4, <2>5, SeqFunction
  <2>7. events' \in Seq(Event)
    BY <2>1, <2>6, SeqConcat DEF PollOK, new
  <2>8. SockOK'
    <3>1. ASSUME NEW c \in Conn PROVE [sock[c] EXCEPT !.ready = FALSE] \in Sock
      BY Zenon DEF SockOK, Sock
    <3>2. QED
      BY <1>2, <3>1 DEF PollerWait, SockOK
  <2>9. poller' \in {"send", "wait"}
    BY <2>1
  <2>10. wake' \in BOOLEAN
    BY <1>2, Zenon DEF PollerWait
  <2>11. QED
    BY <1>2, <2>7, <2>8, <2>9, <2>10 DEF PollerWait, PollOK
<1>3. CASE PollerSend
  BY <1>3 DEF PollerSend, PollOK, SockOK
<1>4. CASE PollerAck
  <2>1. done' \in BOOLEAN
    BY <1>4, Zenon DEF PollerAck
  <2>2. events' \in Seq(Event)
    BY <1>4 DEF PollerAck
  <2>3. QED
    BY <1>4, <2>1, <2>2 DEF PollerAck, PollOK, SockOK
<1>5. CASE PollerDie
  BY <1>5 DEF PollerDie, PollOK, SockOK
<1>6. QED
  BY <1>1, <1>2, <1>3, <1>4, <1>5 DEF PollerStep
\* Submission: the new request is known from the moment it is queued.
LEMMA SubmitType ==
  ASSUME TypeOK, NEW c \in Conn, NEW s \in Shapes, Submit(c, s)
  PROVE  TypeOK'
<1> DEFINE r == Len(cb) + 1
           a == [conn |-> c, op |-> s.op, len |-> s.len, full |-> s.full,
                 deadline |-> s.deadline, size |-> 0, err |-> "nil"]
<1>1. a \in Aiocb
  BY ShapesAssumption DEF Aiocb, Error
<1>2. Len(cb) \in Nat
  BY SeqLength DEF TypeOK, CbOK
<1> HIDE DEF a
<1>3. cb' \in Seq(Aiocb) /\ Len(cb') = r
  <2>1. cb' = Append(cb, a)
    BY DEF Submit, a
  <2>2. QED
    BY <1>1, <2>1, SeqAppend DEF TypeOK, CbOK
<1>4. CbOK'
  BY <1>2, <1>3, MaxReqAssumption DEF Submit, Id, CbOK
<1>5. Req \subseteq Req' /\ r \in Req'
  BY <1>2, <1>3 DEF Req
<1>6. \A q \in Seq(Req) : q \in Seq(Req')
  BY <1>5, SeqFunction
<1>7. SubmitOK'
  <2>1. create' \in Seq(Req')
    <3>1. create \in Seq(Req')
      BY <1>6 DEF TypeOK, SubmitOK
    <3>2. create' = Append(create, r)
      BY DEF Submit
    <3>3. QED
      BY <1>5, <3>1, <3>2, SeqAppend
  <2>2. QED
    BY <1>5, <2>1 DEF Submit, TypeOK, SubmitOK
<1>8. QueuesOK'
  BY <1>5, <1>6 DEF Submit, TypeOK, QueuesOK
<1>9. WaitOK'
  BY <1>5, <1>6 DEF Submit, TypeOK, WaitOK, waitVars
<1>10. LoopOK'
  BY <1>5, <1>6 DEF Submit, TypeOK, LoopOK
<1>11. QED
  BY <1>4, <1>7, <1>8, <1>9, <1>10
     DEF Submit, TypeOK, SockOK, PollOK, TimeOK, pollVars, timeVars
\* A part of the state that a step leaves alone keeps its type.
LEMMA Frame ==
  ASSUME TypeOK, Req' = Req
  PROVE  /\ UNCHANGED sock => SockOK'
         /\ UNCHANGED pollVars => PollOK'
         /\ UNCHANGED submitVars => SubmitOK'
         /\ UNCHANGED <<processing, registered, queue, timeouts>> => QueuesOK'
         /\ UNCHANGED timeVars => TimeOK'
         /\ UNCHANGED <<chResults, returned, waiter, closer>> => WaitOK'
         /\ UNCHANGED loop => LoopOK'
<1>1. UNCHANGED sock => SockOK'
  BY DEF TypeOK, SockOK
<1>2. UNCHANGED pollVars => PollOK'
  BY DEF TypeOK, PollOK, pollVars
<1>3. UNCHANGED submitVars => SubmitOK'
  BY DEF TypeOK, SubmitOK, submitVars
<1>4. UNCHANGED <<processing, registered, queue, timeouts>> => QueuesOK'
  BY DEF TypeOK, QueuesOK
<1>5. UNCHANGED timeVars => TimeOK'
  BY DEF TypeOK, TimeOK, timeVars
<1>6. UNCHANGED <<chResults, returned, waiter, closer>> => WaitOK'
  BY DEF TypeOK, WaitOK
<1>7. UNCHANGED loop => LoopOK'
  BY DEF TypeOK, LoopOK
<1>8. QED
  BY <1>1, <1>2, <1>3, <1>4, <1>5, <1>6, <1>7

\* A receive leaves a sequence of requests.
LEMMA TailType ==
  ASSUME NEW s \in Seq(Req), s # <<>>
  PROVE  /\ Head(s) \in Req /\ Tail(s) \in Seq(Req)
         /\ Len(s) \in Nat /\ Len(Tail(s)) = Len(s) - 1
BY SeqTail, SeqLength

\* The submitter's notification, WaitIO, Close, the clock and the timer.
LEMMA UserType ==
  ASSUME TypeOK,
         NotifyStep \/ WaitStep \/ CloseDie \/ CloseStep \/ ClockTick \/ TimerFires
  PROVE  TypeOK'
<1>1. UNCHANGED cb
  BY DEF NotifyStep, Notify, WaitStep, WaitCall, WaitReceive, WaitCheck, WaitClosed,
         WaitOnly, CloseDie, CloseStep, ClosePoller, CloseWake, CloseDone, CloseRest,
         ClockTick, TimerFires, ClockRest
<1>2. CbOK' /\ Req' = Req
  BY <1>1, SameReq DEF TypeOK
<1>3. CASE NotifyStep
  <2>1. PICK r \in Id : Notify(r)
    BY <1>3 DEF NotifyStep
  <2>2. SubmitOK'
    BY <1>2, <2>1 DEF Notify, TypeOK, SubmitOK
  <2>3. QED
    BY <1>2, <2>1, <2>2, Frame DEF Notify, TypeOK, waitVars
<1>4. CASE WaitStep
  <2>1. WaitOnly
    BY <1>4 DEF WaitStep, WaitCall, WaitReceive, WaitCheck, WaitClosed
  <2>2. WaitOK'
    <3>1. CASE WaitReceive
      BY <1>2, <2>1, <3>1, TailType, CapAssumption DEF WaitReceive, WaitOnly, TypeOK, WaitOK
    <3>2. CASE WaitCall
      BY <1>2, <2>1, <3>2 DEF WaitCall, WaitOnly, TypeOK, WaitOK
    <3>3. CASE WaitCheck
      BY <1>2, <2>1, <3>3 DEF WaitCheck, WaitOnly, TypeOK, WaitOK
    <3>4. CASE WaitClosed
      BY <1>2, <2>1, <3>4, Zenon DEF WaitClosed, WaitOnly, TypeOK, WaitOK
    <3>5. QED
      BY <1>4, <3>1, <3>2, <3>3, <3>4 DEF WaitStep
  <2>3. QED
    BY <1>2, <2>1, <2>2, Frame DEF WaitOnly, TypeOK
<1>5. CASE CloseDie \/ CloseStep
  <2>1. CloseRest /\ UNCHANGED sock
    BY <1>5 DEF CloseDie, CloseStep, ClosePoller, CloseWake, CloseDone,
                CloseDieChannel, Wakeup
  <2>2. WaitOK'
    BY <1>2, <1>5, <2>1 DEF CloseDie, CloseStep, ClosePoller, CloseWake, CloseDone,
                            CloseRest, waitVars, TypeOK, WaitOK
  <2>3. PollOK'
    <3>1. CASE ClosePoller
      BY <3>1 DEF ClosePoller, CloseDieChannel, TypeOK, PollOK
    <3>2. CASE CloseWake
      <4>1. wake' \in BOOLEAN
        BY <3>2, Zenon DEF CloseWake, Wakeup
      <4>2. QED
        BY <3>2, <4>1 DEF CloseWake, Wakeup, TypeOK, PollOK
    <3>3. CASE CloseDie \/ CloseDone
      BY <1>2, <3>3, Frame DEF CloseDie, CloseDone
    <3>4. QED
      BY <1>5, <3>1, <3>2, <3>3 DEF CloseStep
  <2>4. QED
    BY <1>2, <2>1, <2>2, <2>3, Frame DEF CloseRest, TypeOK
<1>6. CASE ClockTick \/ TimerFires
  <2>1. TimeOK'
    <3>1. CASE ClockTick
      BY <3>1, MaxTimeAssumption DEF ClockTick, TypeOK, TimeOK, Time
    <3>2. CASE TimerFires
      <4>1. tick' \in BOOLEAN
        BY <3>2, Zenon DEF TimerFires
      <4>2. QED
        BY <3>2, <4>1, MaxTimeAssumption DEF TimerFires, TypeOK, TimeOK, Time
    <3>3. QED
      BY <1>6, <3>1, <3>2, Zenon
  <2>2. ClockRest
    BY <1>6 DEF ClockTick, TimerFires
  <2>3. QED
    BY <1>2, <2>1, <2>2, Frame DEF ClockRest, TypeOK, waitVars
<1>7. QED
  BY <1>3, <1>4, <1>5, <1>6, Zenon
-----------------------------------------------------------------------------
(* The steps of the loop.                                                  *)

\* Moving on changes only where the loop is.
LEMMA GotoType ==
  ASSUME TypeOK, Req' = Req,
         NEW pc \in {"select", "swap", "pending", "watch", "start", "events",
                     "timer", "release", "exit", "done"},
         Goto(pc)
  PROVE  LoopOK'
BY DEF Goto, TypeOK, LoopOK

\* deliver takes the request out of the heap and goes on to the send.
LEMMA DeliverType ==
  ASSUME TypeOK, Req' = Req, NEW r \in Req,
         NEW ret \in {"pending", "events", "timer"}, Deliver(r, ret)
  PROVE  LoopOK' /\ timeouts' \subseteq Req'
<1>1. r # 0
  BY DEF Req
<1>2. QED
  BY <1>1, Zenon DEF Deliver, TypeOK, LoopOK, QueuesOK

\* releaseConn starts with all the queued requests of the connection.
LEMMA ReleaseType ==
  ASSUME TypeOK, Req' = Req, NEW c \in Conn, NEW back \in {"pending", "exit"},
         Release(c, back)
  PROVE  LoopOK'
<1>1. queue[<<c, "read">>] \o queue[<<c, "write">>] \in Seq(Req)
  <2>1. queue[<<c, "read">>] \in Seq(Req) /\ queue[<<c, "write">>] \in Seq(Req)
    BY DEF TypeOK, QueuesOK, Op
  <2>2. QED
    BY <2>1, SeqConcat
<1>2. QED
  BY <1>1, Zenon DEF Release, TypeOK, LoopOK

\* deliver's send, and releaseConn.
LEMMA SendType ==
  ASSUME TypeOK, Send \/ SendDie \/ ReleaseNext \/ ReleaseEnd
  PROVE  TypeOK'
<1>1. CASE Send \/ SendDie
  <2>1. CbOK' /\ Req' = Req
    BY <1>1, SameReq DEF Send, SendDie, TypeOK
  <2>2. LoopOK'
    BY <1>1, <2>1, Zenon DEF Send, SendDie, TypeOK, LoopOK
  <2>3. WaitOK'
    <3>1. CASE Send
      <4>1. loop.cur \in Req /\ Len(chResults) \in Nat
        BY <3>1, SeqLength DEF Send, TypeOK, LoopOK, WaitOK
      <4>2. QED
        BY <2>1, <3>1, <4>1, SeqAppend, CapAssumption
           DEF Send, TypeOK, WaitOK, waitVars
    <3>2. CASE SendDie
      BY <2>1, <3>2, Frame DEF SendDie, waitVars
    <3>3. QED
      BY <1>1, <3>1, <3>2
  <2>4. QED
    BY <1>1, <2>1, <2>2, <2>3, Frame DEF Send, SendDie, TypeOK
<1>2. CASE ReleaseNext
  <2>1. Head(loop.left) \in Req /\ Tail(loop.left) \in Seq(Req)
    BY <1>2, TailType DEF ReleaseNext, TypeOK, LoopOK
  <2>2. CbOK' /\ Req' = Req
    BY <1>2, <2>1, FailType DEF ReleaseNext, TypeOK, Error
  <2>3. LoopOK'
    <3>1. Head(loop.left) # 0
      BY <2>1 DEF Req
    <3>2. QED
      BY <1>2, <2>1, <2>2, <3>1, Zenon DEF ReleaseNext, TypeOK, LoopOK
  <2>4. QueuesOK'
    BY <1>2, <2>2 DEF ReleaseNext, TypeOK, QueuesOK
  <2>5. QED
    BY <1>2, <2>2, <2>3, <2>4, Frame DEF ReleaseNext, TypeOK, waitVars
<1>3. CASE ReleaseEnd
  <2>1. CbOK' /\ Req' = Req
    BY <1>3, SameReq DEF ReleaseEnd, TypeOK
  <2>2. LoopOK'
    BY <1>3, <2>1, Zenon DEF ReleaseEnd, TypeOK, LoopOK
  <2>3. QueuesOK'
    BY <1>3, <2>1 DEF ReleaseEnd, TypeOK, QueuesOK
  <2>4. SockOK'
    <3> DEFINE c == loop.conn
    <3>1. ASSUME NEW t \in Sock, NEW b \in BOOLEAN
          PROVE  [t EXCEPT !.fd = "closed", !.ready = b] \in Sock
      BY Zenon DEF Sock
    <3>2. [sock[c] EXCEPT !.fd = "closed", !.ready = FALSE] \in Sock \/ c \notin Conn
      BY <3>1, Zenon DEF TypeOK, SockOK
    <3>3. sock' = [sock EXCEPT ![c] = [sock[c] EXCEPT !.fd = "closed", !.ready = FALSE]]
      BY <1>3, Zenon DEF ReleaseEnd, TypeOK, SockOK
    <3> HIDE DEF c
    <3>4. QED
      BY <3>2, <3>3, Zenon DEF TypeOK, SockOK
  <2>5. QED
    BY <1>3, <2>1, <2>2, <2>3, <2>4, Frame DEF ReleaseEnd, TypeOK, waitVars
<1>4. QED
  BY <1>1, <1>2, <1>3
\* The steps of handlePending up to the attempt: the swap of the slices, Free,
\* duplication and registration.
LEMMA PendingType ==
  ASSUME TypeOK,
         \/ LoopNotified \/ LoopSwap \/ PendingEnd
         \/ \E r \in Id : \/ PendingFree(r) \/ PendingDup(r) \/ PendingDupFails(r)
                          \/ PendingWatch(r) \/ PendingWatchFails(r)
  PROVE  TypeOK'
<1>1. CASE LoopNotified
  <2>1. CbOK' /\ Req' = Req
    BY <1>1, SameReq DEF LoopNotified, TypeOK
  <2>2. LoopOK'
    BY <1>1, <2>1, GotoType DEF LoopNotified
  <2>3. notify' \in BOOLEAN
    BY <1>1, Zenon DEF LoopNotified
  <2>4. SubmitOK'
    BY <1>1, <2>1, <2>3 DEF LoopNotified, TypeOK, SubmitOK
  <2>5. QED
    BY <1>1, <2>1, <2>2, <2>4, Frame DEF LoopNotified, TypeOK, waitVars
<1>2. CASE LoopSwap
  <2>1. CbOK' /\ Req' = Req
    BY <1>2, SameReq DEF LoopSwap, TypeOK
  <2>2. LoopOK'
    BY <1>2, <2>1, GotoType DEF LoopSwap
  <2>3. SubmitOK'
    BY <1>2, <2>1 DEF LoopSwap, TypeOK, SubmitOK
  <2>4. QueuesOK'
    BY <1>2, <2>1 DEF LoopSwap, TypeOK, QueuesOK, SubmitOK
  <2>5. QED
    BY <1>2, <2>1, <2>2, <2>3, <2>4, Frame, Zenon DEF LoopSwap, TypeOK, waitVars
<1>3. CASE PendingEnd
  <2>1. CbOK' /\ Req' = Req
    BY <1>3, SameReq DEF PendingEnd, TypeOK
  <2>2. LoopOK'
    BY <1>3, <2>1, GotoType DEF PendingEnd
  <2>3. QED
    BY <1>3, <2>1, <2>2, Frame DEF PendingEnd, PendingRest, TypeOK, waitVars
<1>4. ASSUME NEW r \in Id,
             \/ PendingFree(r) \/ PendingDup(r) \/ PendingDupFails(r)
             \/ PendingWatch(r) \/ PendingWatchFails(r)
      PROVE  TypeOK'
  <2>1. r \in Req /\ Tail(processing) \in Seq(Req) /\ PendingRest
    BY <1>4, TailType, Zenon DEF PendingFree, PendingDup, PendingDupFails, PendingWatch,
                          PendingWatchFails, Handling, TypeOK, QueuesOK
  <2>2. cb[r] \in Aiocb
    BY <2>1, SeqElement DEF TypeOK, CbOK, Req
  <2>3. cb[r].conn \in Conn
    BY <2>2 DEF Aiocb
  <2> DEFINE c == cb[r].conn
             s == sock[c]
  <2>4. s \in Sock
    BY <2>3 DEF TypeOK, SockOK
  <2>5. ASSUME NEW fd \in {"conn", "both"}, sock' = [sock EXCEPT ![c].fd = fd]
        PROVE  SockOK'
    <3>1. [s EXCEPT !.fd = fd] \in Sock
      BY <2>4, Zenon DEF Sock
    <3>2. QED
      BY <2>3, <2>5, <3>1 DEF TypeOK, SockOK
  <2>6. CASE PendingFree(r)
    <3>1. CbOK' /\ Req' = Req
      BY <2>6, SameReq, Zenon DEF PendingFree, TypeOK
    <3>2. LoopOK'
      BY <2>3, <2>6, <3>1, ReleaseType, Zenon DEF PendingFree
    <3>3. QueuesOK'
      BY <2>1, <2>6, <3>1, Zenon DEF PendingFree, TypeOK, QueuesOK
    <3>4. QED
      BY <2>1, <2>6, <3>1, <3>2, <3>3, Frame, Zenon DEF PendingFree, PendingRest, TypeOK, waitVars
  <2>7. CASE PendingDup(r)
    <3>1. CbOK' /\ Req' = Req
      BY <2>7, SameReq DEF PendingDup, TypeOK
    <3>2. LoopOK'
      BY <2>7, <3>1, GotoType DEF PendingDup
    <3>3. SockOK'
      BY <2>5, <2>7, Zenon DEF PendingDup
    <3>4. QED
      BY <2>1, <2>7, <3>1, <3>2, <3>3, Frame, Zenon DEF PendingDup, PendingRest, TypeOK, waitVars
  <2>8. CASE PendingDupFails(r)
    <3>1. CbOK' /\ Req' = Req
      BY <2>1, <2>8, FailType, Zenon DEF PendingDupFails, TypeOK, Error
    <3>2. LoopOK' /\ timeouts' \subseteq Req'
      BY <2>1, <2>8, <3>1, DeliverType, Zenon DEF PendingDupFails
    <3>3. QueuesOK'
      BY <2>1, <2>8, <3>1, <3>2, Zenon DEF PendingDupFails, TypeOK, QueuesOK
    <3>4. QED
      BY <2>1, <2>8, <3>1, <3>2, <3>3, Frame, Zenon
         DEF PendingDupFails, PendingRest, TypeOK, waitVars
  <2>9. CASE PendingWatch(r)
    <3>1. CbOK' /\ Req' = Req
      BY <2>9, SameReq DEF PendingWatch, TypeOK
    <3>2. LoopOK'
      BY <2>9, <3>1, GotoType DEF PendingWatch
    <3>3. SockOK'
      <4>1. ASSUME NEW b \in BOOLEAN PROVE [s EXCEPT !.fd = "dup", !.ready = b] \in Sock
        <5> HIDE DEF s
        <5>1. QED
          BY <2>4, Zenon DEF Sock
      <4>2. (Mask(s) # {}) \in BOOLEAN
        BY Zenon
      <4>3. Watched(s) \in Sock
        BY <4>1, <4>2, Zenon DEF Watched
      <4>4. QED
        BY <2>3, <2>9, <4>3 DEF PendingWatch, TypeOK, SockOK
    <3>4. QueuesOK'
      BY <2>3, <2>9, <3>1 DEF PendingWatch, TypeOK, QueuesOK
    <3>5. QED
      BY <2>1, <2>9, <3>1, <3>2, <3>3, <3>4, Frame, Zenon
         DEF PendingWatch, PendingRest, TypeOK, waitVars
  <2>10. CASE PendingWatchFails(r)
    <3>1. CbOK' /\ Req' = Req
      BY <2>1, <2>10, FailType DEF PendingWatchFails, TypeOK, Error
    <3>2. LoopOK' /\ timeouts' \subseteq Req'
      BY <2>1, <2>10, <3>1, DeliverType DEF PendingWatchFails
    <3>3. QueuesOK'
      BY <2>1, <2>10, <3>1, <3>2 DEF PendingWatchFails, TypeOK, QueuesOK
    <3>4. SockOK'
      BY <2>5, <2>10 DEF PendingWatchFails
    <3>5. QED
      BY <2>1, <2>10, <3>1, <3>2, <3>3, <3>4, Frame, Zenon
         DEF PendingWatchFails, PendingRest, TypeOK, waitVars
  <2>11. QED
    BY <1>4, <2>6, <2>7, <2>8, <2>9, <2>10, Zenon
<1>5. QED
  BY <1>1, <1>2, <1>3, <1>4

\* The switch on the operation: the first attempt, and the queue and the heap
\* for a request that has to wait.
LEMMA StartType ==
  ASSUME TypeOK, NEW r \in Id, StartDone(r) \/ StartQueued(r) \/ StartFree(r)
  PROVE  TypeOK'
<1>1. r \in Req /\ Tail(processing) \in Seq(Req) /\ PendingRest
  BY TailType, Zenon DEF StartDone, StartQueued, StartFree, Starting, Handling, TypeOK, QueuesOK
<1>2. cb[r] \in Aiocb
  BY <1>1, SeqElement, Zenon DEF TypeOK, CbOK, Req
<1>3. CASE StartDone(r)
  <2>1. CbOK' /\ SockOK' /\ Req' = Req
    BY <1>1, <1>3, AttemptType, Zenon DEF StartDone, TypeOK
  <2>2. LoopOK' /\ timeouts' \subseteq Req'
    BY <1>1, <1>3, <2>1, DeliverType, Zenon DEF StartDone
  <2>3. QueuesOK'
    BY <1>1, <1>3, <2>1, <2>2, Zenon DEF StartDone, TypeOK, QueuesOK
  <2>4. QED
    BY <1>1, <1>3, <2>1, <2>2, <2>3, Frame, Zenon DEF StartDone, PendingRest, TypeOK, waitVars
<1>4. CASE StartQueued(r)
  <2> DEFINE q == <<cb[r].conn, cb[r].op>>
  <2>1. CbOK' /\ SockOK' /\ Req' = Req
    <3>1. CASE queue[q] = <<>>
      BY <1>1, <1>4, <3>1, AttemptType, Zenon DEF StartQueued, TypeOK
    <3>2. CASE queue[q] # <<>>
      BY <1>4, <3>2, SameReq, Frame, Zenon DEF StartQueued, TypeOK
    <3>3. QED
      BY <3>1, <3>2, Zenon
  <2>2. LoopOK'
    BY <1>4, <2>1, GotoType, Zenon DEF StartQueued
  <2>3. queue' \in [Conn \X Op -> Seq(Req)]
    <3>1. q \in Conn \X Op
      BY <1>2, <1>4, Zenon DEF StartQueued, Aiocb
    <3>2. Append(queue[q], r) \in Seq(Req)
      BY <1>1, <3>1, SeqAppend, Zenon DEF TypeOK, QueuesOK
    <3>3. queue' = [queue EXCEPT ![q] = Append(queue[q], r)]
      BY <1>4, Zenon DEF StartQueued
    <3> HIDE DEF q
    <3>4. QED
      BY <3>1, <3>2, <3>3, Zenon DEF TypeOK, QueuesOK
  <2>4. QueuesOK'
    BY <1>1, <1>4, <2>1, <2>3, Zenon DEF StartQueued, TypeOK, QueuesOK
  <2>5. TimeOK'
    BY <1>2, <1>4, Zenon DEF StartQueued, TypeOK, TimeOK, Aiocb
  <2>6. QED
    BY <1>1, <1>4, <2>1, <2>2, <2>4, <2>5, Frame, Zenon
       DEF StartQueued, PendingRest, TypeOK, waitVars
<1>5. CASE StartFree(r)
  <2>1. CbOK' /\ Req' = Req
    BY <1>5, SameReq DEF StartFree, TypeOK
  <2>2. LoopOK'
    BY <1>5, <2>1, GotoType, Zenon DEF StartFree
  <2>3. QueuesOK'
    BY <1>1, <1>5, <2>1 DEF StartFree, TypeOK, QueuesOK
  <2>4. QED
    BY <1>1, <1>5, <2>1, <2>2, <2>3, Frame, Zenon DEF StartFree, PendingRest, TypeOK, waitVars
<1>6. QED
  BY <1>3, <1>4, <1>5, Zenon

\* handleEvents goes on to the next queue or event.
LEMMA NextSideType ==
  ASSUME TypeOK, Req' = Req, NextSide
  PROVE  LoopOK'
<1>1. loop.i + 1 \in Nat
  BY DEF TypeOK, LoopOK
<1>2. QED
  BY <1>1, Zenon DEF NextSide, TypeOK, LoopOK, Op

\* handleEvents.
LEMMA EventType ==
  ASSUME TypeOK, EventStep
  PROVE  TypeOK'
<1>1. CASE LoopSignal
  <2>1. CbOK' /\ Req' = Req
    BY <1>1, SameReq DEF LoopSignal, TypeOK
  <2>2. LoopOK'
    BY <1>1, <2>1, GotoType DEF LoopSignal
  <2>3. chSignal' \in BOOLEAN
    BY <1>1, Zenon DEF LoopSignal
  <2>4. PollOK'
    BY <1>1, <2>3 DEF LoopSignal, TypeOK, PollOK
  <2>5. QED
    BY <1>1, <2>1, <2>2, <2>4, Frame DEF LoopSignal, TypeOK, waitVars
<1>2. CASE EventSkip
  <2>1. CbOK' /\ Req' = Req
    BY <1>2, SameReq DEF EventSkip, TypeOK
  <2>2. LoopOK'
    BY <1>2, <2>1, NextSideType DEF EventSkip
  <2>3. QED
    BY <1>2, <2>1, <2>2, Frame DEF EventSkip, EventRest, TypeOK, waitVars
<1>3. CASE EventsEnd
  <2>1. CbOK' /\ Req' = Req
    BY <1>3, SameReq DEF EventsEnd, TypeOK
  <2>2. LoopOK'
    BY <1>3, <2>1, Zenon DEF EventsEnd, TypeOK, LoopOK
  <2>3. done' \in BOOLEAN
    BY <1>3, Zenon DEF EventsEnd
  <2>4. PollOK'
    BY <1>3, <2>3 DEF EventsEnd, TypeOK, PollOK
  <2>5. QED
    BY <1>3, <2>1, <2>2, <2>4, Frame DEF EventsEnd, TypeOK, waitVars
<1>4. CASE EventsDie
  <2>1. CbOK' /\ Req' = Req
    BY <1>4, SameReq DEF EventsDie, TypeOK
  <2>2. LoopOK'
    BY <1>4, <2>1, Zenon DEF EventsDie, TypeOK, LoopOK
  <2>3. QED
    BY <1>4, <2>1, <2>2, Frame DEF EventsDie, EventRest, TypeOK, waitVars
<1>5. ASSUME NEW c \in Conn, NEW r \in Id, EventDone(c, r) \/ EventBlocked(c, r)
      PROVE  TypeOK'
  <2> DEFINE q == <<c, loop.side>>
  <2>1. q \in Conn \X Op
    BY DEF TypeOK, LoopOK
  <2>2. queue[q] \in Seq(Req)
    BY <2>1 DEF TypeOK, QueuesOK
  <2>3. r \in Req /\ Tail(queue[q]) \in Seq(Req)
    BY <1>5, <2>2, TailType DEF EventDone, EventBlocked, Retrying
  <2>4. CbOK' /\ SockOK' /\ Req' = Req
    BY <1>5, <2>3, AttemptType DEF EventDone, EventBlocked, TypeOK
  <2>5. CASE EventDone(c, r)
    <3>1. LoopOK' /\ timeouts' \subseteq Req'
      BY <2>3, <2>4, <2>5, DeliverType DEF EventDone
    <3>2. queue' = [queue EXCEPT ![q] = Tail(queue[q])]
      BY <2>5 DEF EventDone
    <3> HIDE DEF q
    <3>3. QueuesOK'
      <4>1. queue' \in [Conn \X Op -> Seq(Req)]
        BY <2>1, <2>3, <3>2, Zenon DEF TypeOK, QueuesOK
      <4>2. QED
        BY <2>4, <2>5, <3>1, <4>1 DEF EventDone, EventRest, TypeOK, QueuesOK
    <3>4. QED
      BY <2>4, <2>5, <3>1, <3>3, Frame DEF EventDone, EventRest, TypeOK, waitVars
  <2>6. CASE EventBlocked(c, r)
    <3>1. LoopOK'
      BY <2>4, <2>6, NextSideType DEF EventBlocked
    <3>2. QED
      BY <2>4, <2>6, <3>1, Frame DEF EventBlocked, EventRest, TypeOK, waitVars
  <2>7. QED
    BY <1>5, <2>5, <2>6
<1>6. QED
  BY <1>1, <1>2, <1>3, <1>4, <1>5 DEF EventStep

\* Taking a request out of a list leaves a list of requests.
LEMMA ListRemoveType ==
  ASSUME NEW s \in Seq(Req), NEW r
  PROVE  ListRemove(s, r) \in Seq(Req)
<1>1. CASE r \in Elems(s)
  <2> DEFINE i == CHOOSE i \in DOMAIN s : s[i] = r
  <2>1. DOMAIN s = 1 .. Len(s) /\ Len(s) \in Nat /\ \A j \in DOMAIN s : s[j] \in Req
    BY SeqLength, SeqElement
  <2>2. i \in 1 .. Len(s)
    BY <1>1, <2>1 DEF Elems
  <2> HIDE DEF i
  <2>3. SubSeq(s, 1, i - 1) \in Seq(Req) /\ SubSeq(s, i + 1, Len(s)) \in Seq(Req)
    BY <2>1, <2>2, SeqSub
  <2>4. SubSeq(s, 1, i - 1) \o SubSeq(s, i + 1, Len(s)) \in Seq(Req)
    BY <2>3, SeqConcat
  <2>5. QED
    BY <1>1, <2>4 DEF ListRemove, i
<1>2. CASE r \notin Elems(s)
  BY <1>2 DEF ListRemove
<1>3. QED
  BY <1>1, <1>2

\* The timer case of the loop: expiry, and the reset of the timer.
LEMMA TimerType ==
  ASSUME TypeOK, TimerStep
  PROVE  TypeOK'
<1>1. CASE LoopTick
  <2>1. CbOK' /\ Req' = Req
    BY <1>1, SameReq DEF LoopTick, TypeOK
  <2>2. LoopOK'
    BY <1>1, <2>1, Zenon DEF LoopTick, TypeOK, LoopOK, TimeOK
  <2>3. tick' \in BOOLEAN
    BY <1>1, Zenon DEF LoopTick
  <2>4. TimeOK'
    BY <1>1, <2>3 DEF LoopTick, TimerRest, TypeOK, TimeOK
  <2>5. QED
    BY <1>1, <2>1, <2>2, <2>4, Frame DEF LoopTick, TimerRest, TypeOK, waitVars
<1>2. CASE TimerEnd
  <2>1. CbOK' /\ Req' = Req
    BY <1>2, SameReq DEF TimerEnd, TypeOK
  <2>2. 0 \in Time
    BY MaxTimeAssumption DEF Time
  <2>3. LoopOK'
    BY <1>2, <2>1, <2>2, Zenon DEF TimerEnd, TypeOK, LoopOK
  <2>4. QED
    BY <1>2, <2>1, <2>3, Frame DEF TimerEnd, TimerRest, TypeOK, waitVars, timeVars
<1>3. ASSUME NEW r \in Id, TimerExpire(r)
      PROVE  TypeOK'
  <2> DEFINE q == <<cb[r].conn, cb[r].op>>
  <2>1. r \in Req
    BY <1>3, Zenon DEF TimerExpire, Earliest, TypeOK, QueuesOK
  <2>2. CbOK' /\ Req' = Req
    BY <1>3, <2>1, FailType, Zenon DEF TimerExpire, TypeOK, Error
  <2>3. LoopOK' /\ timeouts' \subseteq Req'
    BY <1>3, <2>1, <2>2, DeliverType, Zenon DEF TimerExpire
  <2>4. queue' \in [Conn \X Op -> Seq(Req)]
    <3>1. CASE q \in Conn \X Op
      <4>1. ListRemove(queue[q], r) \in Seq(Req)
        BY <3>1, ListRemoveType, Zenon DEF TypeOK, QueuesOK
      <4>2. queue' = [queue EXCEPT ![q] = ListRemove(queue[q], r)]
        BY <1>3, Zenon DEF TimerExpire
      <4> HIDE DEF q
      <4>3. QED
        BY <3>1, <4>1, <4>2 DEF TypeOK, QueuesOK
    <3>2. CASE q \notin Conn \X Op
      BY <1>3, <3>2, Zenon DEF TimerExpire, TypeOK, QueuesOK
    <3>3. QED
      BY <3>1, <3>2
  <2>5. QueuesOK'
    BY <1>3, <2>2, <2>3, <2>4, Zenon DEF TimerExpire, TimerRest, TypeOK, QueuesOK
  <2>6. QED
    BY <1>3, <2>2, <2>3, <2>5, Frame
       DEF TimerExpire, TimerRest, TypeOK, waitVars, timeVars
<1>4. ASSUME NEW r \in Id, TimerReset(r)
      PROVE  TypeOK'
  <2>1. r \in Req
    BY <1>4 DEF TimerReset, Earliest, TypeOK, QueuesOK
  <2>2. CbOK' /\ Req' = Req
    BY <1>4, SameReq DEF TimerReset, TypeOK
  <2>3. cb[r] \in Aiocb
    BY <2>1, SeqElement, Zenon DEF TypeOK, CbOK, Req
  <2>4. cb[r].deadline \in Time /\ loop.now \in Time /\ now \in Time
    BY <2>3 DEF Aiocb, TypeOK, LoopOK, TimeOK
  <2>5. 0 \in Time
    BY MaxTimeAssumption DEF Time
  <2>6. LoopOK'
    BY <1>4, <2>2, <2>5, Zenon DEF TimerReset, TypeOK, LoopOK
  <2>7. timer' \in Time
    BY <1>4, <2>4, MaxTimeAssumption DEF TimerReset, Time, Smaller
  <2>8. TimeOK'
    BY <1>4, <2>7 DEF TimerReset, TimerRest, TypeOK, TimeOK
  <2>9. QED
    BY <1>4, <2>2, <2>6, <2>8, Frame DEF TimerReset, TimerRest, TypeOK, waitVars
<1>5. QED
  BY <1>1, <1>2, <1>3, <1>4 DEF TimerStep

\* The loop's deferred cleanup.
LEMMA ExitType ==
  ASSUME TypeOK, ExitStep
  PROVE  TypeOK'
<1>1. CbOK' /\ Req' = Req /\ ExitRest
  BY SameReq DEF ExitStep, LoopDie, ExitRelease, ExitDrain, ExitDone, ExitRest, TypeOK
<1>2. CASE LoopDie
  <2>1. LoopOK'
    BY <1>1, <1>2, GotoType DEF LoopDie
  <2>2. QED
    BY <1>1, <1>2, <2>1, Frame DEF LoopDie, ExitRest, TypeOK, submitVars, waitVars
<1>3. ASSUME NEW c \in Conn, ExitRelease(c)
      PROVE  TypeOK'
  <2>1. LoopOK'
    BY <1>1, <1>3, ReleaseType DEF ExitRelease
  <2>2. QED
    BY <1>1, <1>3, <2>1, Frame DEF ExitRelease, ExitRest, TypeOK, submitVars, waitVars
<1>4. CASE ExitDrain
  <2>1. WaitOK'
    BY <1>1, <1>4, TailType, CapAssumption DEF ExitDrain, ExitRest, TypeOK, WaitOK, waitVars
  <2>2. QED
    BY <1>1, <1>4, <2>1, Frame DEF ExitDrain, ExitRest, TypeOK, submitVars
<1>5. CASE ExitDone
  <2>1. LoopOK'
    BY <1>1, <1>5, GotoType DEF ExitDone
  <2>2. SubmitOK'
    BY <1>1, <1>5 DEF ExitDone, ExitRest, TypeOK, SubmitOK
  <2>3. QueuesOK'
    BY <1>1, <1>5 DEF ExitDone, ExitRest, TypeOK, QueuesOK
  <2>4. QED
    BY <1>1, <1>5, <2>1, <2>2, <2>3, Frame DEF ExitDone, ExitRest, TypeOK, waitVars
<1>6. QED
  BY <1>2, <1>3, <1>4, <1>5 DEF ExitStep

-----------------------------------------------------------------------------
(* Type correctness.                                                       *)

\* Initially every variable has its type.
LEMMA InitType ==
  ASSUME Init
  PROVE  TypeOK
<1> USE MaxBytesAssumption, SndBufAssumption, MaxReqAssumption, MaxTimeAssumption,
        CapAssumption
<1>1. SockOK
  <2>1. ASSUME NEW b \in BOOLEAN
        PROVE  [fd |-> "conn", rcv |-> 0, sent |-> 0, peer |-> "open",
                snd |-> 0, short |-> b, ready |-> b] \in Sock
    BY DEF Sock
  <2>2. QED
    BY <2>1, Zenon DEF Init, SockInit, SockOK
<1>2. PollOK
  <2>1. chSignal \in BOOLEAN /\ done \in BOOLEAN /\ wake \in BOOLEAN /\ pdie \in BOOLEAN
    BY Zenon DEF Init, PollInit
  <2>2. QED
    BY <2>1 DEF Init, PollInit, PollOK
<1>3. CbOK /\ SubmitOK
  <2>1. notify \in BOOLEAN
    BY Zenon DEF Init
  <2>2. QED
    BY <2>1 DEF Init, CbOK, SubmitOK
<1>4. QueuesOK /\ WaitOK
  BY DEF Init, QueuesOK, WaitOK
<1>5. TimeOK /\ LoopOK
  <2>1. tick \in BOOLEAN
    BY Zenon DEF Init
  <2>2. 0 \in Time /\ 1 \in Time
    BY DEF Time
  <2>3. TimeOK
    BY <2>1, <2>2, Zenon DEF Init, TimeOK
  <2>4. LoopOK
    BY <2>2, SMTT(30) DEF Init, LoopOK, Op
  <2>5. QED
    BY <2>3, <2>4
<1>6. QED
  BY <1>1, <1>2, <1>3, <1>4, <1>5, Zenon DEF TypeOK

\* Every step keeps the types.
LEMMA NextType ==
  ASSUME TypeOK, [Next]_vars
  PROVE  TypeOK'
<1>1. CASE \E c \in Conn, s \in Shapes : Submit(c, s)
  BY <1>1, SubmitType
<1>2. CASE NotifyStep \/ WaitStep \/ CloseDie \/ CloseStep \/ ClockTick \/ TimerFires
  BY <1>2, UserType
<1>3. CASE LoopStep
  <2>1. CASE PendingStep
    BY <2>1, PendingType, StartType, Zenon DEF PendingStep
  <2>2. QED
    BY <1>3, <2>1, SendType, EventType, TimerType, ExitType DEF LoopStep
<1>4. CASE Others /\ (PollerStep \/ (PeerStep /\ UNCHANGED pollVars))
  <2>1. CbOK' /\ Req' = Req
    BY <1>4, SameReq DEF Others, TypeOK
  <2>2. SockOK' /\ PollOK'
    BY <1>4, <2>1, PollerType, PeerType, Frame, Zenon DEF TypeOK
  <2>3. QED
    BY <1>4, <2>1, <2>2, Frame, Zenon DEF Others, TypeOK, waitVars
<1>5. CASE UNCHANGED vars
  <2>1. CbOK' /\ Req' = Req
    BY <1>5, SameReq DEF vars, TypeOK
  <2>2. QED
    BY <1>5, <2>1, Frame DEF vars, TypeOK, waitVars
<1>6. QED
  BY <1>1, <1>2, <1>3, <1>4, <1>5 DEF Next

\* Type correctness of the watcher, the poller and the sockets.  It includes the
\* bounds the code relies on: a request never moves more bytes than its buffer
\* holds, chResults never exceeds its capacity, and the queues, the heap and the
\* channels only name submitted requests.
THEOREM TypeCorrect == Spec => []TypeOK
<1>1. Init => TypeOK
  BY InitType
<1>2. TypeOK /\ [Next]_vars => TypeOK'
  BY NextType
<1>3. QED
  BY <1>1, <1>2, PTL DEF Spec

-----------------------------------------------------------------------------
(* No submission is forgotten.                                             *)

\* Only submission adds to pendingCreate, and it also announces the request;
\* the loop gives up the token only for the place where it takes the slice.
LEMMA SubmissionStep ==
  ASSUME TypeOK, NoLostSubmission, [Next]_vars
  PROVE  NoLostSubmission'
<1>1. ASSUME NEW c \in Conn, NEW s \in Shapes, Submit(c, s)
      PROVE  NoLostSubmission'
  <2> DEFINE r == Len(cb) + 1
  <2>1. create \in Seq(Req \cup {r})
    BY SeqFunction DEF TypeOK, SubmitOK
  <2>2. create' = Append(create, r) /\ r \in posting'
    BY <1>1 DEF Submit
  <2>3. Len(create) + 1 \in DOMAIN create' /\ create'[Len(create) + 1] = r
    BY <2>1, <2>2, SeqAppend, SeqLength
  <2>4. r \in Elems(create')
    BY <2>3 DEF Elems
  <2>5. QED
    BY <2>2, <2>4 DEF NoLostSubmission
<1>2. ASSUME NEW r \in Id, Notify(r)
      PROVE  NoLostSubmission'
  BY <1>2 DEF Notify, NoLostSubmission
<1>3. CASE LoopNotified
  <2>1. loop'.pc = "swap"
    BY <1>3 DEF LoopNotified, Goto, TypeOK, LoopOK
  <2>2. QED
    BY <2>1 DEF NoLostSubmission
<1>4. CASE LoopSwap
  BY <1>4 DEF LoopSwap, NoLostSubmission
<1>5. CASE ExitDone
  BY <1>5 DEF ExitDone, NoLostSubmission
<1>6. CASE UNCHANGED submitVars /\ (loop.pc = "swap" => UNCHANGED loop)
  BY <1>6 DEF NoLostSubmission, submitVars
<1>7. \/ \E c \in Conn, s \in Shapes : Submit(c, s)
      \/ \E r \in Id : Notify(r)
      \/ LoopNotified \/ LoopSwap \/ ExitDone
      \/ UNCHANGED submitVars /\ (loop.pc = "swap" => UNCHANGED loop)
  <2>1. CASE WaitStep \/ CloseDie \/ CloseStep \/ ClockTick \/ TimerFires
    BY <2>1, Zenon DEF WaitStep, WaitCall, WaitReceive, WaitCheck, WaitClosed, WaitOnly,
                CloseDie, CloseStep, ClosePoller, CloseWake, CloseDone, CloseRest,
                ClockTick, TimerFires, ClockRest
  <2>2. CASE Send \/ SendDie \/ ReleaseNext \/ ReleaseEnd
    BY <2>2, Zenon DEF Send, SendDie, ReleaseNext, ReleaseEnd
  <2>3. CASE PendingStep
    BY <2>3, Zenon DEF PendingStep, PendingEnd, PendingFree, PendingDup, PendingDupFails,
                PendingWatch, PendingWatchFails, Starting, StartDone, StartQueued,
                StartFree, PendingRest
  <2>4. CASE EventStep
    BY <2>4, Zenon DEF EventStep, LoopSignal, EventDone, EventBlocked, EventSkip, EventsEnd,
                EventsDie, Retrying, AtEvent, EventRest
  <2>5. CASE TimerStep
    BY <2>5, Zenon DEF TimerStep, LoopTick, TimerExpire, TimerReset, TimerEnd, TimerRest
  <2>6. CASE ExitStep
    BY <2>6 DEF ExitStep, LoopDie, ExitRelease, ExitDrain, ExitRest, submitVars
  <2>7. CASE Others \/ UNCHANGED vars
    BY <2>7 DEF Others, vars
  <2>8. QED
    BY <2>1, <2>2, <2>3, <2>4, <2>5, <2>6, <2>7, Zenon DEF Next, LoopStep, NotifyStep
<1>8. QED
  BY <1>1, <1>2, <1>3, <1>4, <1>5, <1>6, <1>7

\* aioCreate, notifyPending and the loop's handling of chPendingNotify: while a
\* request is in pendingCreate, a wakeup for the loop is on its way, in every
\* interleaving of any number of submitters with the loop.
THEOREM SubmissionNotLost == Spec => []NoLostSubmission
<1>1. Init => NoLostSubmission
  BY DEF Init, NoLostSubmission
<1>2. TypeOK /\ NoLostSubmission /\ [Next]_vars => NoLostSubmission'
  BY SubmissionStep
<1>3. QED
  BY <1>1, <1>2, TypeCorrect, PTL DEF Spec

-----------------------------------------------------------------------------
(* No deadline is forgotten.                                               *)

\* The loop is in the timer case of its select.
InTimer == loop.pc = "timer" \/ (loop.pc = "send" /\ loop.ret = "timer")

\* TimerArmed, extended to every place of the loop but the timer case, which
\* arms the timer again before it ends; the clock has started, so that a reset
\* is never mistaken for a stopped timer.
TimerInv == now > 0 /\ (timeouts # {} => InTimer \/ tick \/ timer # 0)

\* A step outside the timer case that neither touches the timer nor adds to the
\* heap.
LEMMA TimerFrame ==
  ASSUME TimerInv, UNCHANGED timeVars, timeouts' \subseteq timeouts, InTimer => InTimer'
  PROVE  TimerInv'
BY DEF TimerInv, timeVars

\* Every step preserves it.
LEMMA TimerInvStep ==
  ASSUME TypeOK, TimerInv, [Next]_vars
  PROVE  TimerInv'
<1>1. CASE \E c \in Conn, s \in Shapes : Submit(c, s)
  BY <1>1, TimerFrame, Zenon DEF Submit, InTimer
<1>2. CASE NotifyStep \/ WaitStep \/ CloseDie \/ CloseStep
  BY <1>2, TimerFrame
     DEF NotifyStep, Notify, WaitStep, WaitCall, WaitReceive, WaitCheck, WaitClosed,
         WaitOnly, CloseDie, CloseStep, ClosePoller, CloseWake, CloseDone, CloseRest,
         InTimer
<1>3. CASE ClockTick
  BY <1>3 DEF ClockTick, ClockRest, TimerInv, InTimer, TypeOK, TimeOK, Time
<1>4. CASE TimerFires
  BY <1>4 DEF TimerFires, ClockRest, TimerInv, InTimer
<1>5. CASE Send \/ SendDie
  <2>1. loop.ret = "timer" => loop'.pc = "timer"
    BY <1>5, Zenon DEF Send, SendDie, TypeOK, LoopOK
  <2>2. loop.pc = "send"
    BY <1>5 DEF Send, SendDie
  <2>3. QED
    BY <1>5, <2>1, <2>2, TimerFrame DEF Send, SendDie, InTimer
<1>6. CASE ReleaseNext \/ ReleaseEnd
  BY <1>6, TimerFrame DEF ReleaseNext, ReleaseEnd, InTimer
<1>7. CASE PendingStep
  <2>1. CASE \E r \in Id : StartQueued(r)
    <3>1. PICK r \in Id : StartQueued(r)
      BY <2>1, Zenon
    <3> DEFINE dl == cb[r].deadline
    <3>2. ~ InTimer /\ now' = now /\ tick' = tick
      BY <3>1, Zenon DEF StartQueued, Starting, InTimer
    <3>3. CASE dl = 0
      BY <3>1, <3>2, <3>3, SMTT(30), Zenon DEF StartQueued, TimerInv
    <3>4. CASE dl # 0 /\ \A t \in timeouts : dl < cb[t].deadline
      BY <3>1, <3>2, <3>4, Zenon DEF StartQueued, TimerInv
    <3>5. CASE dl # 0 /\ ~ \A t \in timeouts : dl < cb[t].deadline
      <4>1. timeouts # {} /\ timer' = timer
        BY <3>1, <3>5 DEF StartQueued
      <4>2. QED
        BY <3>2, <4>1, Zenon DEF TimerInv
    <3>6. QED
      BY <3>3, <3>4, <3>5
  <2>2. CASE \E r \in Id : PendingDupFails(r) \/ PendingWatchFails(r) \/ StartDone(r)
    BY <2>2, TimerFrame, Zenon DEF PendingDupFails, PendingWatchFails, StartDone, Starting,
                            Deliver, InTimer
  <2>3. QED
    BY <1>7, <2>1, <2>2, TimerFrame, Zenon
       DEF PendingStep, LoopNotified, LoopSwap, PendingEnd, PendingFree, PendingDup,
           PendingWatch, Starting, StartFree, InTimer
<1>8. CASE EventStep
  BY <1>8, TimerFrame, Zenon
     DEF EventStep, LoopSignal, EventDone, EventBlocked, EventSkip, EventsEnd, EventsDie,
         Retrying, AtEvent, Deliver, EventRest, InTimer
<1>9. CASE TimerStep
  <2>1. CASE LoopTick
    <3>1. loop'.pc = "timer"
      BY <2>1 DEF LoopTick, TypeOK, LoopOK
    <3>2. QED
      BY <2>1, <3>1 DEF LoopTick, TimerRest, TimerInv, InTimer
  <2>2. CASE TimerEnd
    BY <2>2, Zenon DEF TimerEnd, TimerRest, TimerInv
  <2>3. ASSUME NEW r \in Id, TimerExpire(r)
        PROVE  TimerInv'
    <3>1. loop'.pc = "send" /\ loop'.ret = "timer"
      BY <2>3 DEF TimerExpire, Deliver, TypeOK, LoopOK
    <3>2. QED
      BY <2>3, <3>1 DEF TimerExpire, TimerRest, TimerInv, InTimer
  <2>4. ASSUME NEW r \in Id, TimerReset(r)
        PROVE  TimerInv'
    <3>1. r \in Req
      BY <2>4 DEF TimerReset, Earliest, TypeOK, QueuesOK
    <3>2. cb[r].deadline \in Time /\ loop.now \in Time /\ now \in Time
      BY <3>1, SeqElement DEF Aiocb, TypeOK, CbOK, Req, LoopOK, TimeOK
    <3>3. timer' # 0
      BY <2>4, <3>2, MaxTimeAssumption DEF TimerReset, TimerInv, Time, Smaller
    <3>4. QED
      BY <2>4, <3>3 DEF TimerReset, TimerRest, TimerInv
  <2>5. QED
    BY <1>9, <2>1, <2>2, <2>3, <2>4 DEF TimerStep
<1>10. CASE ExitStep
  BY <1>10, TimerFrame DEF ExitStep, LoopDie, ExitRelease, ExitDrain, ExitDone,
                           ExitRest, InTimer
<1>11. CASE Others \/ UNCHANGED vars
  BY <1>11, TimerFrame DEF Others, vars, InTimer
<1>12. QED
  BY <1>1, <1>2, <1>3, <1>4, <1>5, <1>6, <1>7, <1>8, <1>9, <1>10, <1>11, Zenon
     DEF Next, LoopStep

\* handlePending's reset of the timer for a new root of the heap and the reset at
\* the end of the timer case: whenever the loop waits in its select with
\* deadlines pending, the timer runs or has fired.
THEOREM TimerAlwaysArmed == Spec => []TimerArmed
<1>1. Init => TimerInv
  BY DEF Init, TimerInv
<1>2. TypeOK /\ TimerInv /\ [Next]_vars => TimerInv'
  BY TimerInvStep
<1>3. TimerInv => TimerArmed
  BY DEF TimerInv, TimerArmed, InTimer
<1>4. QED
  BY <1>1, <1>2, <1>3, TypeCorrect, PTL DEF Spec

-----------------------------------------------------------------------------
(* The event slice shared by the poller and the loop.                      *)

\* The loop iterates over the batch.
InEvents == loop.pc = "events" \/ (loop.pc = "send" /\ loop.ret = "events")

\* A batch is in one place: on its way to the loop, in the loop's hands, or
\* acknowledged; and until the poller has taken the acknowledgement it waits.
Handshake ==
  /\ InEvents => ~ chSignal /\ ~ done
  /\ chSignal => ~ done
  /\ InEvents \/ chSignal \/ done => poller \in {"ack", "exit"}

\* A step that leaves the channels and the poller alone and does not start on a
\* batch.
LEMMA HandshakeFrame ==
  ASSUME Handshake, UNCHANGED <<poller, chSignal, done>>, InEvents' => InEvents
  PROVE  Handshake'
BY DEF Handshake

\* Every step preserves it.
LEMMA HandshakeStep ==
  ASSUME TypeOK, Handshake, [Next]_vars
  PROVE  Handshake'
<1>1. CASE \E c \in Conn, s \in Shapes : Submit(c, s)
  BY <1>1, HandshakeFrame, Zenon DEF Submit, pollVars, InEvents
<1>2. CASE NotifyStep \/ WaitStep \/ CloseDie \/ CloseStep \/ ClockTick \/ TimerFires
  BY <1>2, HandshakeFrame, Zenon
     DEF NotifyStep, Notify, WaitStep, WaitCall, WaitReceive, WaitCheck, WaitClosed,
         WaitOnly, CloseDie, CloseStep, ClosePoller, CloseWake, CloseDone, CloseRest,
         CloseDieChannel, Wakeup, ClockTick, TimerFires, ClockRest, pollVars, InEvents
<1>3. CASE Send \/ SendDie
  <2>1. loop.pc = "send" /\ loop'.pc = loop.ret /\ loop'.ret = "pending"
        /\ UNCHANGED pollVars
    BY <1>3, Zenon DEF Send, SendDie, TypeOK, LoopOK
  <2>2. QED
    BY <2>1, HandshakeFrame DEF InEvents, pollVars
<1>4. CASE ReleaseNext \/ ReleaseEnd
  <2>1. ~ InEvents' /\ UNCHANGED pollVars
    BY <1>4, Zenon DEF ReleaseNext, ReleaseEnd, TypeOK, LoopOK, InEvents
  <2>2. QED
    BY <2>1, HandshakeFrame DEF pollVars
<1>5. CASE PendingStep
  <2>1. UNCHANGED pollVars
    BY <1>5, Zenon DEF PendingStep, LoopNotified, LoopSwap, PendingEnd, PendingFree, PendingDup,
                PendingDupFails, PendingWatch, PendingWatchFails, StartDone, StartQueued,
                StartFree, PendingRest
  <2>2. \/ \E pc \in {"swap", "pending", "watch", "start", "select"} : Goto(pc)
        \/ \E r \in Id : Deliver(r, "pending") \/ Release(cb[r].conn, "pending")
    BY <1>5, Zenon DEF PendingStep, LoopNotified, LoopSwap, PendingEnd, PendingFree, PendingDup,
                PendingDupFails, PendingWatch, PendingWatchFails, StartDone, StartQueued,
                StartFree
  <2>3. ~ InEvents'
    BY <2>2, Zenon DEF Goto, Deliver, Release, TypeOK, LoopOK, InEvents
  <2>4. QED
    BY <2>1, <2>3, HandshakeFrame DEF pollVars
<1>6. CASE EventStep
  <2>1. CASE LoopSignal
    BY <2>1 DEF LoopSignal, Goto, Handshake
  <2>2. CASE EventsEnd
    <3>1. InEvents /\ ~ InEvents'
      BY <2>2 DEF EventsEnd, InEvents, TypeOK, LoopOK
    <3>2. QED
      BY <2>2, <3>1 DEF EventsEnd, Handshake
  <2>3. QED
    BY <1>6, <2>1, <2>2, HandshakeFrame, Zenon
       DEF EventStep, EventDone, EventBlocked, EventSkip, EventsDie, Retrying, AtEvent,
           EventRest, pollVars, InEvents
<1>7. CASE TimerStep
  <2>1. ~ InEvents' /\ UNCHANGED pollVars
    BY <1>7, Zenon DEF TimerStep, LoopTick, TimerEnd, TimerExpire, TimerReset, TimerRest,
                Deliver, TypeOK, LoopOK, InEvents
  <2>2. QED
    BY <2>1, HandshakeFrame DEF pollVars
<1>8. CASE ExitStep
  <2>1. ~ InEvents' /\ UNCHANGED pollVars
    BY <1>8, Zenon DEF ExitStep, LoopDie, ExitRelease, ExitDrain, ExitDone, ExitRest,
                Goto, Release, TypeOK, LoopOK, InEvents
  <2>2. QED
    BY <2>1, HandshakeFrame DEF pollVars
<1>9. CASE Others /\ PollerStep
  BY <1>9 DEF Others, PollerStep, PollerTop, PollerWait, PollerSend, PollerAck,
              PollerDie, Handshake, InEvents
<1>10. CASE (Others /\ UNCHANGED pollVars) \/ UNCHANGED vars
  BY <1>10, HandshakeFrame DEF Others, vars, pollVars, InEvents
<1>11. QED
  BY <1>1, <1>2, <1>3, <1>4, <1>5, <1>6, <1>7, <1>8, <1>9, <1>10, Zenon DEF Next, LoopStep

\* Only the poller writes to the slice, and it is waiting.
LEMMA EventsKept ==
  ASSUME Handshake, InEvents, [Next]_vars
  PROVE  events' = events
<1>1. CASE PollerStep /\ Others
  BY <1>1, Zenon DEF PollerStep, PollerTop, PollerWait, PollerSend, PollerAck, PollerDie,
              Handshake
<1>2. CASE LoopStep
  BY <1>2, Zenon DEF LoopStep, Send, SendDie, ReleaseNext, ReleaseEnd,
              PendingStep, LoopNotified, LoopSwap, PendingEnd, PendingFree, PendingDup,
              PendingDupFails, PendingWatch, PendingWatchFails, StartDone, StartQueued,
              StartFree, PendingRest,
              EventStep, LoopSignal, EventDone, EventBlocked, EventSkip, EventsEnd,
              EventsDie, EventRest,
              TimerStep, LoopTick, TimerEnd, TimerExpire, TimerReset, TimerRest,
              ExitStep, LoopDie, ExitRelease, ExitDrain, ExitDone, ExitRest, pollVars
<1>3. CASE \E c \in Conn, s \in Shapes : Submit(c, s)
  BY <1>3, Zenon DEF Submit, pollVars
<1>4. CASE NotifyStep \/ WaitStep \/ CloseDie \/ CloseStep \/ ClockTick \/ TimerFires
  BY <1>4, Zenon DEF NotifyStep, Notify, WaitStep, WaitCall, WaitReceive, WaitCheck, WaitClosed,
              WaitOnly, CloseDie, CloseStep, ClosePoller, CloseWake, CloseDone,
              CloseDieChannel, Wakeup, ClockTick, TimerFires, ClockRest, pollVars
<1>5. CASE UNCHANGED pollVars \/ UNCHANGED vars
  BY <1>5 DEF pollVars, vars
<1>6. QED
  BY <1>1, <1>2, <1>3, <1>4, <1>5, Zenon DEF Next

\* poller.Wait fills eventSet again only after the loop has acknowledged the
\* batch, so handleEvents iterates over a slice that does not change, although
\* the two goroutines share its memory and shutdown may interrupt either.
THEOREM EventSetNotReused == Spec => EventSetStable
<1>1. Init => Handshake
  BY DEF Init, PollInit, Handshake, InEvents
<1>2. TypeOK /\ Handshake /\ [Next]_vars => Handshake'
  BY HandshakeStep
<1>3. Handshake /\ [Next]_vars => [InEvents => events' = events]_vars
  BY EventsKept
<1>4. QED
  BY <1>1, <1>2, <1>3, TypeCorrect, PTL DEF Spec, EventSetStable, InEvents

-----------------------------------------------------------------------------
(* Where every request is: the inductive invariant, the lists that hold    *)
(* requests, and the steps that move one or none.  PlacesProofs goes on    *)
(* with the steps of handlePending, handleEvents and the timer.            *)

\* A list without repetitions, and one in the order of submission.
Distinct(s) == \A i, j \in DOMAIN s : s[i] = s[j] => i = j
Increasing(s) == \A i, j \in DOMAIN s : i < j => s[i] < s[j]

\* The request in the hands of deliver.
Hand == IF loop.pc = "send" THEN {loop.cur} ELSE {}

\* The loop is in releaseConn, or in handlePending.
Releasing == loop.pc = "release" \/ (loop.pc = "send" /\ loop.ret = "release")
InPending ==
  \/ loop.pc \in {"pending", "watch", "start"}
  \/ loop.pc = "send" /\ loop.ret = "pending"
  \/ Releasing /\ loop.back = "pending"

\* The queues of a connection, and releaseConn's list, hold reads and writes for
\* that connection and no others.
Own ==
  /\ \A c \in Conn, o \in Op : \A r \in Elems(queue[<<c, o>>]) : cb[r].conn = c /\ cb[r].op = o
  /\ \A r \in Elems(loop.left) : cb[r].conn = loop.conn /\ cb[r].op \in Op

\* Requests travel in the order of submission: the queued ones are older than
\* those being processed, and these are older than the ones to be swapped in.
Sorted ==
  /\ Increasing(create) /\ Increasing(processing)
  /\ \A x \in Conn \X Op : Increasing(queue[x])
  /\ \A r \in Elems(processing), q \in Elems(create) : r < q
  /\ \A x \in Conn \X Op : \A r \in Elems(queue[x]) :
       \A q \in Elems(create) \cup Elems(processing) : r < q
  /\ Distinct(chResults) /\ Distinct(loop.left)

\* What the loop's local variables say of where it is.
Control ==
  /\ loop.conn # NoConn <=> Releasing
  /\ loop.left # <<>> => Releasing
  /\ Releasing => loop.conn \in registered
  /\ processing # <<>> => InPending
  /\ loop.pc \in {"watch", "start"} => processing # <<>>
  /\ loop.pc = "start" => cb[Head(processing)].conn \in registered
  /\ loop.pc \in {"exit", "done"} \/ (Releasing /\ loop.back = "exit") => die
  /\ \A c \in Conn, o \in Op : queue[<<c, o>>] # <<>> => c \in registered

\* The duplicate of a registered connection is open; another one is open only
\* between dupconn and Watch.
Descriptors ==
  \A c \in Conn :
    /\ c \in registered <=> sock[c].fd = "dup"
    /\ sock[c].fd = "both" <=> loop.pc = "watch" /\ cb[Head(processing)].conn = c

\* No request is in two places, and none is missing while the watcher is open.
Where ==
  \A r \in Req :
    /\ r \in Elems(create) =>
         r \notin Elems(processing) \cup Queued \cup Hand \cup Elems(chResults) \cup returned
    /\ r \in Elems(processing) => r \notin Queued \cup Hand \cup Elems(chResults) \cup returned
    /\ r \in Queued => r \notin Hand \cup Elems(chResults) \cup returned
    /\ r \in Hand => r \notin Elems(chResults) \cup returned
    /\ r \in Elems(chResults) => r \notin returned
    /\ cb[r].op \in Op /\ ~ die =>
         r \in Elems(create) \cup Elems(processing) \cup Queued \cup Hand
               \cup Elems(chResults) \cup returned

\* Nothing is left once the loop has returned.
Swept == loop.pc = "done" => registered = {} /\ create = <<>> /\ chResults = <<>>

PlacesInv == Own /\ Sorted /\ Control /\ Descriptors /\ Where /\ Swept /\ DeadlinesTracked

-----------------------------------------------------------------------------
(* Lists of requests.                                                      *)

\* The empty list has no elements.
LEMMA NoElems == Elems(<<>>) = {}
BY DEF Elems

\* The places of a list and what is in them.
LEMMA SeqFacts ==
  ASSUME NEW s \in Seq(Nat)
  PROVE  Len(s) \in Nat /\ DOMAIN s = 1 .. Len(s) /\ \A i \in DOMAIN s : s[i] \in Nat
BY SeqLength, SeqElement

\* A list in the order of submission has no repetitions.
LEMMA IncreasingDistinct ==
  ASSUME NEW s \in Seq(Nat), Increasing(s)
  PROVE  Distinct(s)
BY SeqFacts DEF Increasing, Distinct

\* append: one more element, at the end.
LEMMA AppendFacts ==
  ASSUME NEW s \in Seq(Nat), NEW e \in Nat
  PROVE  /\ Append(s, e) \in Seq(Nat) /\ Append(s, e) # <<>>
         /\ Elems(Append(s, e)) = Elems(s) \cup {e}
         /\ Increasing(s) /\ (\A x \in Elems(s) : x < e) => Increasing(Append(s, e))
         /\ Distinct(s) /\ e \notin Elems(s) => Distinct(Append(s, e))
<1> DEFINE t == Append(s, e)
           n == Len(s)
<1>1. n \in Nat /\ DOMAIN s = 1 .. n /\ \A i \in DOMAIN s : s[i] \in Nat
  BY SeqFacts
<1>2. /\ t \in Seq(Nat) /\ t # <<>> /\ DOMAIN t = 1 .. n + 1
      /\ t[n + 1] = e /\ \A i \in 1 .. n : t[i] = s[i]
  BY <1>1, SeqAppend, SeqLength
<1> HIDE DEF t, n
<1>3. Elems(t) = Elems(s) \cup {e}
  <2>1. ASSUME NEW x \in Elems(t) PROVE x \in Elems(s) \cup {e}
    <3>1. PICK i \in 1 .. n + 1 : x = t[i]
      BY <1>2 DEF Elems
    <3>2. CASE i = n + 1
      BY <1>2, <3>1, <3>2
    <3>3. CASE i \in 1 .. n
      BY <1>1, <1>2, <3>1, <3>3 DEF Elems
    <3>4. QED
      BY <1>1, <3>2, <3>3
  <2>2. ASSUME NEW x \in Elems(s) PROVE x \in Elems(t)
    BY <1>1, <1>2 DEF Elems
  <2>3. e \in Elems(t)
    BY <1>1, <1>2 DEF Elems
  <2>4. QED
    BY <2>1, <2>2, <2>3, Zenon
<1>4. ASSUME Increasing(s), \A x \in Elems(s) : x < e PROVE Increasing(t)
  <2>1. \A i \in 1 .. n : s[i] < e
    BY <1>1, <1>4 DEF Elems
  <2>2. QED
    BY <1>1, <1>2, <1>4, <2>1 DEF Increasing
<1>5. ASSUME Distinct(s), e \notin Elems(s) PROVE Distinct(t)
  <2>1. \A i \in 1 .. n : s[i] # e
    BY <1>1, <1>5 DEF Elems
  <2>2. QED
    BY <1>1, <1>2, <1>5, <2>1 DEF Distinct
<1>6. QED
  BY <1>2, <1>3, <1>4, <1>5, Zenon DEF t

\* Taking the first element.
LEMMA TailFacts ==
  ASSUME NEW s \in Seq(Nat), s # <<>>
  PROVE  /\ Tail(s) \in Seq(Nat) /\ Head(s) \in Nat
         /\ Elems(s) = Elems(Tail(s)) \cup {Head(s)}
         /\ Distinct(s) => Distinct(Tail(s)) /\ Head(s) \notin Elems(Tail(s))
         /\ Increasing(s) => Increasing(Tail(s)) /\ \A x \in Elems(Tail(s)) : Head(s) < x
<1> DEFINE t == Tail(s)
           n == Len(s)
<1>1. n \in Nat /\ DOMAIN s = 1 .. n /\ (\A i \in DOMAIN s : s[i] \in Nat) /\ n > 0
  BY SeqFacts
<1>2. /\ t \in Seq(Nat) /\ DOMAIN t = 1 .. n - 1 /\ Head(s) = s[1]
      /\ \A i \in 1 .. n - 1 : t[i] = s[i + 1]
  BY <1>1, SeqTail, SeqLength
<1> HIDE DEF t, n
<1>3. Elems(s) = Elems(t) \cup {Head(s)}
  <2>1. ASSUME NEW x \in Elems(s) PROVE x \in Elems(t) \cup {Head(s)}
    <3>1. PICK i \in 1 .. n : x = s[i]
      BY <1>1 DEF Elems
    <3>2. CASE i = 1
      BY <1>2, <3>1, <3>2
    <3>3. CASE i # 1
      <4>1. i - 1 \in 1 .. n - 1 /\ t[i - 1] = s[i]
        BY <1>1, <1>2, <3>1, <3>3
      <4>2. QED
        BY <1>2, <3>1, <4>1, Zenon DEF Elems
    <3>4. QED
      BY <3>2, <3>3
  <2>2. ASSUME NEW x \in Elems(t) PROVE x \in Elems(s)
    <3>1. PICK i \in 1 .. n - 1 : x = t[i]
      BY <1>2 DEF Elems
    <3>2. i + 1 \in 1 .. n /\ x = s[i + 1]
      BY <1>1, <1>2, <3>1
    <3>3. QED
      BY <1>1, <3>2 DEF Elems
  <2>3. Head(s) \in Elems(s)
    BY <1>1, <1>2, SMTT(30) DEF Elems
  <2>4. QED
    BY <2>1, <2>2, <2>3
<1>4. \A i \in 1 .. n - 1 : i + 1 \in 1 .. n /\ 1 \in 1 .. n /\ 1 < i + 1
  BY <1>1
<1>5. ASSUME Distinct(s) PROVE Distinct(t) /\ Head(s) \notin Elems(t)
  <2>1. ASSUME NEW i \in 1 .. n - 1, NEW j \in 1 .. n - 1, t[i] = t[j] PROVE i = j
    <3>1. s[i + 1] = s[j + 1] /\ i + 1 \in 1 .. n /\ j + 1 \in 1 .. n
      BY <1>2, <1>4, <2>1
    <3>2. i + 1 = j + 1
      BY <1>1, <1>5, <3>1, Zenon DEF Distinct
    <3>3. QED
      BY <3>2
  <2>2. ASSUME NEW i \in 1 .. n - 1, t[i] = Head(s) PROVE FALSE
    <3>1. s[1] = s[i + 1] /\ 1 \in 1 .. n /\ i + 1 \in 1 .. n
      BY <1>2, <1>4, <2>2
    <3>2. 1 = i + 1
      BY <1>1, <1>5, <3>1, Zenon DEF Distinct
    <3>3. QED
      BY <1>4, <3>2
  <2>3. QED
    BY <1>2, <2>1, <2>2, Zenon DEF Distinct, Elems
<1>6. ASSUME Increasing(s) PROVE Increasing(t) /\ \A x \in Elems(t) : Head(s) < x
  <2>1. ASSUME NEW i \in 1 .. n - 1, NEW j \in 1 .. n - 1, i < j PROVE t[i] < t[j]
    <3>1. i + 1 < j + 1
      BY <2>1
    <3>2. QED
      BY <1>1, <1>2, <1>4, <1>6, <3>1, Zenon DEF Increasing
  <2>2. ASSUME NEW i \in 1 .. n - 1 PROVE Head(s) < t[i]
    BY <1>1, <1>2, <1>4, <1>6, Zenon DEF Increasing
  <2>3. QED
    BY <1>2, <2>1, <2>2, Zenon DEF Increasing, Elems
<1>7. QED
  BY <1>1, <1>2, <1>3, <1>5, <1>6 DEF t

\* Two lists, one after the other.
LEMMA ConcatFacts ==
  ASSUME NEW s \in Seq(Nat), NEW t \in Seq(Nat)
  PROVE  /\ s \o t \in Seq(Nat)
         /\ Elems(s \o t) = Elems(s) \cup Elems(t)
         /\ Distinct(s) /\ Distinct(t) /\ Elems(s) \cap Elems(t) = {} => Distinct(s \o t)
<1> DEFINE u == s \o t
           n == Len(s)
           m == Len(t)
<1>1. n \in Nat /\ DOMAIN s = 1 .. n /\ m \in Nat /\ DOMAIN t = 1 .. m
  BY SeqFacts
<1>2. /\ u \in Seq(Nat) /\ DOMAIN u = 1 .. n + m
      /\ \A i \in 1 .. n + m : u[i] = IF i <= n THEN s[i] ELSE t[i - n]
  BY SeqConcat, SeqLength
<1> HIDE DEF u, n, m
<1>3. \A i \in 1 .. m : n + i \in 1 .. n + m /\ u[n + i] = t[i]
  BY <1>1, <1>2
<1>4. \A i \in 1 .. n : i \in 1 .. n + m /\ u[i] = s[i]
  BY <1>1, <1>2
<1>5. ASSUME NEW i \in 1 .. n + m
      PROVE  i \in 1 .. n \/ (i - n \in 1 .. m /\ u[i] = t[i - n])
  BY <1>1, <1>2
<1>6. Elems(u) = Elems(s) \cup Elems(t)
  <2>1. Elems(u) \subseteq Elems(s) \cup Elems(t)
    BY <1>1, <1>2, <1>4, <1>5, Zenon DEF Elems
  <2>2. Elems(s) \subseteq Elems(u)
    BY <1>1, <1>2, <1>4, Zenon DEF Elems
  <2>3. Elems(t) \subseteq Elems(u)
    BY <1>1, <1>2, <1>3, ZenonT(30) DEF Elems
  <2>4. QED
    BY <2>1, <2>2, <2>3
<1>7. ASSUME Distinct(s), Distinct(t), Elems(s) \cap Elems(t) = {}
      PROVE  Distinct(u)
  <2> SUFFICES ASSUME NEW i \in 1 .. n + m, NEW j \in 1 .. n + m, u[i] = u[j]
               PROVE  i = j
    BY <1>2 DEF Distinct
  <2>1. \A a \in 1 .. n, b \in 1 .. m : s[a] # t[b]
    BY <1>1, <1>7, Zenon DEF Elems
  <2>2. CASE i \in 1 .. n /\ j \in 1 .. n
    BY <1>1, <1>4, <1>7, <2>2, Zenon DEF Distinct
  <2>3. CASE i \notin 1 .. n /\ j \notin 1 .. n
    <3>1. i - n = j - n
      BY <1>1, <1>5, <1>7, <2>3, Zenon DEF Distinct
    <3>2. QED
      BY <1>1, <3>1
  <2>4. ~ (i \in 1 .. n /\ j \notin 1 .. n) /\ ~ (i \notin 1 .. n /\ j \in 1 .. n)
    BY <1>4, <1>5, <2>1
  <2>5. QED
    BY <2>2, <2>3, <2>4
<1>8. QED
  BY <1>2, <1>6, <1>7 DEF u

\* The list u has the elements of s but e, in their order.
Without(u, s, e) == Increasing(u) /\ Elems(u) = Elems(s) \ {e}

\* A list u that is s without its place k.
LEMMA RemovedAt ==
  ASSUME NEW n \in Nat, NEW k \in 1 .. n, NEW s, NEW u,
         DOMAIN s = 1 .. n, \A i \in 1 .. n : s[i] \in Nat, Increasing(s),
         DOMAIN u = 1 .. n - 1,
         \A i \in 1 .. n - 1 : (i < k => u[i] = s[i]) /\ (~ i < k => u[i] = s[i + 1])
  PROVE  Without(u, s, s[k])
<1>1. ASSUME NEW i \in 1 .. n, i # k PROVE s[i] # s[k]
  <2>1. s[i] < s[k] \/ s[k] < s[i]
    <3>1. i < k \/ k < i
      BY <1>1
    <3>2. QED
      BY <3>1, Zenon DEF Increasing
  <2>2. s[i] \in Nat /\ s[k] \in Nat
    OBVIOUS
  <2>3. QED
    BY <2>1, <2>2
<1>2. Increasing(u)
  <2>1. ASSUME NEW i \in 1 .. n - 1, NEW j \in 1 .. n - 1, i < j PROVE u[i] < u[j]
    <3>1. /\ i \in 1 .. n /\ i + 1 \in 1 .. n /\ j \in 1 .. n /\ j + 1 \in 1 .. n
          /\ i < j + 1 /\ i + 1 < j + 1 /\ (j < k => i < k)
      BY <2>1
    <3>2. s[i] < s[j] /\ s[i] < s[j + 1] /\ s[i + 1] < s[j + 1]
      BY <2>1, <3>1, Zenon DEF Increasing
    <3>3. QED
      BY <3>1, <3>2
  <2>2. QED
    BY <2>1, Zenon DEF Increasing
<1>3. ASSUME NEW i \in 1 .. n - 1 PROVE u[i] \in Elems(s) \ {s[k]}
  <2>2. CASE i < k
    <3>1. u[i] = s[i] /\ i \in 1 .. n /\ i # k
      BY <2>2
    <3>2. QED
      BY <1>1, <3>1, Zenon DEF Elems
  <2>3. CASE ~ i < k
    <3>1. u[i] = s[i + 1] /\ i + 1 \in 1 .. n /\ i + 1 # k
      BY <2>3
    <3>2. QED
      BY <1>1, <3>1, Zenon DEF Elems
  <2>4. QED
    BY <2>2, <2>3
<1>4. ASSUME NEW i \in 1 .. n, i # k PROVE s[i] \in Elems(u)
  <2>1. CASE i < k
    <3>1. i \in 1 .. n - 1 /\ u[i] = s[i]
      BY <2>1
    <3>2. QED
      BY <3>1, Zenon DEF Elems
  <2>2. CASE i > k
    <3>1. i - 1 \in 1 .. n - 1 /\ u[i - 1] = s[i]
      BY <2>2
    <3>2. QED
      BY <3>1, Zenon DEF Elems
  <2>3. QED
    BY <1>4, <2>1, <2>2
<1>5. Elems(u) = Elems(s) \ {s[k]}
  BY <1>3, <1>4 DEF Elems
<1>6. QED
  BY <1>2, <1>5 DEF Without

\* list.Remove of an element: the others stay, in their order.
LEMMA RemoveFacts ==
  ASSUME NEW s \in Seq(Nat), NEW r \in Nat, Increasing(s)
  PROVE  /\ Increasing(ListRemove(s, r))
         /\ Elems(ListRemove(s, r)) = Elems(s) \ {r}
<1>1. CASE r \notin Elems(s)
  BY <1>1 DEF ListRemove
<1>2. CASE r \in Elems(s)
  <2> DEFINE n == Len(s)
             k == CHOOSE i \in DOMAIN s : s[i] = r
             a == SubSeq(s, 1, k - 1)
             b == SubSeq(s, k + 1, n)
             u == a \o b
  <2>1. n \in Nat /\ DOMAIN s = 1 .. n /\ \A i \in 1 .. n : s[i] \in Nat
    BY SeqFacts
  <2>2. k \in 1 .. n /\ s[k] = r
    BY <1>2, <2>1 DEF Elems
  <2>3. ListRemove(s, r) = u
    BY <1>2, Zenon DEF ListRemove
  <2> HIDE DEF k, n
  <2>4. /\ k \in Int /\ n \in Int /\ k - 1 \in Int /\ k + 1 \in Int /\ 1 \in Int
        /\ \A i \in 1 .. k - 1 : s[i] \in Nat
        /\ \A i \in k + 1 .. n : s[i] \in Nat
    BY <2>1, <2>2
  <2>5. /\ a \in Seq(Nat) /\ Len(a) = k - 1
        /\ \A i \in 1 .. k - 1 : a[i] = s[i]
    <3>1. /\ a \in Seq(Nat) /\ Len(a) = IF 1 <= k - 1 THEN k - 1 - 1 + 1 ELSE 0
          /\ \A i \in 1 .. k - 1 - 1 + 1 : a[i] = s[1 + i - 1]
      BY <2>4, SeqSub
    <3> HIDE DEF a
    <3>2. QED
      BY <2>1, <2>2, <3>1
  <2>6. /\ b \in Seq(Nat) /\ Len(b) = n - k
        /\ \A i \in 1 .. n - k : b[i] = s[k + i]
    <3>1. /\ b \in Seq(Nat) /\ Len(b) = IF k + 1 <= n THEN n - (k + 1) + 1 ELSE 0
          /\ \A i \in 1 .. n - (k + 1) + 1 : b[i] = s[k + 1 + i - 1]
      BY <2>4, SeqSub
    <3> HIDE DEF b
    <3>2. QED
      BY <2>1, <2>2, <3>1
  <2> HIDE DEF a, b
  <2>7. /\ u \in Seq(Nat) /\ Len(u) = Len(a) + Len(b)
        /\ \A i \in 1 .. Len(a) + Len(b) : u[i] = IF i <= Len(a) THEN a[i] ELSE b[i - Len(a)]
    BY <2>5, <2>6, SeqConcat, Zenon
  <2> HIDE DEF u
  <2>8. DOMAIN u = 1 .. n - 1
    BY <2>1, <2>2, <2>5, <2>6, <2>7, SeqLength
  <2>9. ASSUME NEW i \in 1 .. n - 1
        PROVE  (i < k => u[i] = s[i]) /\ (~ i < k => u[i] = s[i + 1])
    <3>1. u[i] = IF i <= k - 1 THEN a[i] ELSE b[i - (k - 1)]
      BY <2>1, <2>2, <2>5, <2>6, <2>7
    <3>2. CASE i < k
      BY <2>1, <2>2, <2>5, <3>1, <3>2
    <3>3. CASE ~ i < k
      <4>1. i - (k - 1) \in 1 .. n - k /\ k + (i - (k - 1)) = i + 1
        BY <2>1, <2>2, <3>3
      <4>2. b[i - (k - 1)] = s[i + 1]
        BY <2>6, <4>1
      <4>3. QED
        BY <2>1, <2>2, <3>1, <3>3, <4>2
    <3>4. QED
      BY <3>2, <3>3
  <2>10. Without(u, s, s[k])
    BY <2>1, <2>2, <2>8, <2>9, RemovedAt, Zenon
  <2>11. QED
    BY <2>2, <2>3, <2>10 DEF Without
<1>3. QED
  BY <1>1, <1>2

-----------------------------------------------------------------------------
(* What the invariants are about, before and after a step.                 *)

\* A list over a set is a list over a larger one.
LEMMA SeqSubset ==
  ASSUME NEW S, NEW T, S \subseteq T
  PROVE  \A s \in Seq(S) : s \in Seq(T)
BY SeqFunction

\* The lists hold numbers of submitted requests.
Lists ==
  /\ Req \subseteq Nat \ {0}
  /\ create \in Seq(Nat) /\ Elems(create) \subseteq Req
  /\ processing \in Seq(Nat) /\ Elems(processing) \subseteq Req
  /\ chResults \in Seq(Nat) /\ Elems(chResults) \subseteq Req
  /\ loop.left \in Seq(Nat) /\ Elems(loop.left) \subseteq Req
  /\ \A x \in Conn \X Op : queue[x] \in Seq(Nat) /\ Elems(queue[x]) \subseteq Req

\* What is queued, outside releaseConn and inside.
QueuedIs ==
  /\ Queued \subseteq Req
  /\ loop.conn = NoConn =>
       \A r : r \in Queued <=> \E c \in Conn, o \in Op : r \in Elems(queue[<<c, o>>])
  /\ loop.conn # NoConn =>
       \A r : r \in Queued <=> \/ r \in Elems(loop.left)
                               \/ \E c \in Conn, o \in Op :
                                    c # loop.conn /\ r \in Elems(queue[<<c, o>>])

\* The first follows from the types.
LEMMA ListTypes == TypeOK => Lists
<1> SUFFICES ASSUME TypeOK PROVE Lists
  OBVIOUS
<1>1. Req \subseteq Nat \ {0} /\ Req \subseteq Nat
  BY DEF Req
<1>2. ASSUME NEW s \in Seq(Req) PROVE s \in Seq(Nat) /\ Elems(s) \subseteq Req
  <2>1. s \in Seq(Nat)
    BY <1>1, SeqSubset, Zenon
  <2>2. Elems(s) \subseteq Req
    BY SeqElement, SeqLength DEF Elems
  <2>3. QED
    BY <2>1, <2>2
<1>3. /\ create \in Seq(Req) /\ processing \in Seq(Req) /\ chResults \in Seq(Req)
      /\ loop.left \in Seq(Req) /\ \A x \in Conn \X Op : queue[x] \in Seq(Req)
  BY Zenon DEF TypeOK, SubmitOK, QueuesOK, WaitOK, LoopOK
<1>4. QED
  BY <1>1, <1>2, <1>3, Zenon DEF Lists

\* The second too.
LEMMA QueuedTypes == TypeOK => QueuedIs
<1> SUFFICES ASSUME TypeOK PROVE QueuedIs
  OBVIOUS
<1>1. ASSUME NEW c \in Conn, NEW r
      PROVE  r \in Elems(queue[<<c, "read">>] \o queue[<<c, "write">>])
               <=> \E o \in Op : r \in Elems(queue[<<c, o>>])
  <2>1. Elems(queue[<<c, "read">>] \o queue[<<c, "write">>])
          = Elems(queue[<<c, "read">>]) \cup Elems(queue[<<c, "write">>])
    BY ListTypes, ConcatFacts DEF Op, Lists
  <2>2. QED
    BY <2>1, Zenon DEF Op
<1>2. ASSUME NEW r PROVE r \in Queued <=> \E c \in Conn : r \in Elems(Remaining(c))
  BY DEF Queued
<1>3. ASSUME NEW c \in Conn, c # loop.conn, NEW r
      PROVE  r \in Elems(Remaining(c)) <=> \E o \in Op : r \in Elems(queue[<<c, o>>])
  BY <1>1, <1>3, Zenon DEF Remaining
<1>4. ASSUME loop.conn = NoConn, NEW r
      PROVE  r \in Queued <=> \E c \in Conn, o \in Op : r \in Elems(queue[<<c, o>>])
  <2>1. \A c \in Conn : c # loop.conn
    BY <1>4, NoConnAssumption
  <2>2. QED
    BY <1>2, <1>3, <2>1, Zenon
<1>5. ASSUME loop.conn # NoConn, NEW r
      PROVE  r \in Queued <=> \/ r \in Elems(loop.left)
                              \/ \E c \in Conn, o \in Op :
                                   c # loop.conn /\ r \in Elems(queue[<<c, o>>])
  <2>1. loop.conn \in Conn
    BY <1>5 DEF TypeOK, LoopOK
  <2>2. Remaining(loop.conn) = loop.left
    BY DEF Remaining
  <2>3. QED
    BY <1>2, <1>3, <2>1, <2>2, Zenon
<1>6. Queued \subseteq Req
  <2>1. \A c \in Conn, o \in Op : Elems(queue[<<c, o>>]) \subseteq Req
    BY ListTypes DEF Lists
  <2>2. Elems(loop.left) \subseteq Req
    BY ListTypes DEF Lists
  <2>3. ASSUME NEW r \in Queued PROVE r \in Req
    <3>1. CASE loop.conn = NoConn
      BY <1>4, <2>1, <2>3, <3>1, Zenon
    <3>2. CASE loop.conn # NoConn
      BY <1>5, <2>1, <2>2, <2>3, <3>2, Zenon
    <3>3. QED
      BY <3>1, <3>2
  <2>4. QED
    BY <2>3
<1>7. QED
  BY <1>4, <1>5, <1>6, Zenon DEF QueuedIs

\* Both hold before a step and after it.
LEMMA StepTypes ==
  TypeOK /\ [Next]_vars => TypeOK' /\ Lists /\ Lists' /\ QueuedIs /\ QueuedIs'
<1>1. TypeOK /\ [Next]_vars => TypeOK'
  BY NextType
<1>2. QED
  BY <1>1, ListTypes, QueuedTypes, PTL

\* What was asked for never changes, and only the records of S are written.
SameAsk(a, b) == /\ a.conn = b.conn /\ a.op = b.op /\ a.deadline = b.deadline
                 /\ a.len = b.len /\ a.full = b.full
Kept == Req \subseteq Req' /\ \A r \in Req : SameAsk(cb'[r], cb[r])
Writes(S) == \A r \in Req \ S : cb'[r] = cb[r]

\* No record is written.
LEMMA KeptSame ==
  ASSUME UNCHANGED cb
  PROVE  Kept /\ Writes({}) /\ Req' = Req
BY Zenon DEF Kept, SameAsk, Writes, Req

\* A record is written, but not in what was asked for.
LEMMA KeptWrite ==
  ASSUME CbOK, NEW r \in Req, NEW a \in Aiocb, cb' = [cb EXCEPT ![r] = a],
         SameAsk(a, cb[r])
  PROVE  Kept /\ Writes({r}) /\ Req' = Req
<1>1. Req' = Req
  BY SetRequest, Zenon
<1>2. DOMAIN cb = Req
  BY SeqLength DEF CbOK, Req
<1>3. cb'[r] = a /\ \A q \in Req : q # r => cb'[q] = cb[q]
  BY <1>2
<1>4. \A q : SameAsk(q, q)
  BY DEF SameAsk
<1>5. QED
  BY <1>1, <1>3, <1>4, Zenon DEF Kept, Writes

\* tryRead and tryWrite write the count and the error only.
LEMMA KeptAttempt ==
  ASSUME CbOK, SockOK, NEW r \in Req, Attempt(r)
  PROVE  Kept /\ Writes({r}) /\ Req' = Req
<1> DEFINE p == cb[r]
           a == Try(r).pcb
<1>1. p \in Aiocb /\ a \in Aiocb
  BY TryType, SeqElement DEF CbOK, Req
<1>2. SameAsk(a, p)
  <2> DEFINE t == sock[cb[r].conn]
             x == RawRead(t, p.len - p.size)
             err == IF x.err = "nil" /\ x.n = 0 THEN "EOF" ELSE x.err
             y == RawWrite(t, p.len - p.size)
  <2>1. a \in {TryRead(p, t).pcb, TryWrite(p, t).pcb}
    BY DEF Try
  <2> HIDE DEF p, t, a
  <2>2. TryRead(p, t).pcb \in {p, [p EXCEPT !.size = p.size + x.n, !.err = err]}
    <3> HIDE DEF x
    <3>1. QED
      BY DEF TryRead, x
  <2>3. TryWrite(p, t).pcb = [p EXCEPT !.size = p.size + y.n, !.err = y.err]
    <3> HIDE DEF y
    <3>1. QED
      BY DEF TryWrite, y
  <2> HIDE DEF x, y, err
  <2>4. SameAsk(TryRead(p, t).pcb, p)
    <3> DEFINE n == p.size + x.n
    <3>1. SameAsk([p EXCEPT !.size = n, !.err = err], p) /\ SameAsk(p, p)
      <4> HIDE DEF n
      <4>1. QED
        BY <1>1 DEF Aiocb, SameAsk
    <3>2. QED
      BY <2>2, <3>1
  <2>5. SameAsk(TryWrite(p, t).pcb, p)
    <3> DEFINE n == p.size + y.n
    <3>1. SameAsk([p EXCEPT !.size = n, !.err = y.err], p)
      <4> HIDE DEF n
      <4>1. QED
        BY <1>1 DEF Aiocb, SameAsk
    <3>2. QED
      BY <2>3, <3>1
  <2>6. QED
    BY <2>1, <2>4, <2>5, Zenon
<1> HIDE DEF a
<1>3. cb' = [cb EXCEPT ![r] = a]
  BY DEF Attempt, a
<1>4. QED
  BY <1>1, <1>2, <1>3, KeptWrite, Zenon

\* Recording an error writes the error only.
LEMMA KeptFail ==
  ASSUME CbOK, NEW r \in Req, NEW e \in Error, Fail(r, e)
  PROVE  Kept /\ Writes({r}) /\ Req' = Req /\ cb'[r].err = e
<1> DEFINE a == [cb[r] EXCEPT !.err = e]
<1>1. cb[r] \in Aiocb
  BY SeqElement DEF CbOK, Req
<1>2. a \in Aiocb /\ a.err = e /\ SameAsk(a, cb[r])
  BY <1>1 DEF Aiocb, SameAsk
<1>3. cb' = [cb EXCEPT ![r] = a]
  BY DEF Fail
<1> HIDE DEF a
<1>4. DOMAIN cb = Req
  BY SeqLength DEF CbOK, Req
<1>5. cb'[r] = a
  BY <1>3, <1>4
<1>6. QED
  BY <1>2, <1>3, <1>5, KeptWrite, Zenon

\* Submission adds a record.
LEMMA KeptSubmit ==
  ASSUME TypeOK, NEW c \in Conn, NEW s \in Shapes, Submit(c, s)
  PROVE  /\ Kept /\ Writes({}) /\ Req' = Req \cup {Len(cb) + 1}
         /\ Len(cb) + 1 \in Nat /\ \A r \in Req : r < Len(cb) + 1
<1> DEFINE a == [conn |-> c, op |-> s.op, len |-> s.len, full |-> s.full,
                 deadline |-> s.deadline, size |-> 0, err |-> "nil"]
<1>1. cb' = Append(cb, a) /\ cb \in Seq(Aiocb) /\ cb' \in Seq(Aiocb)
  BY SubmitType, Zenon DEF Submit, TypeOK, CbOK
<1> HIDE DEF a
<1>2. /\ Len(cb) \in Nat /\ Len(cb') = Len(cb) + 1
      /\ \A r \in 1 .. Len(cb) : cb'[r] = cb[r]
  BY <1>1, SeqAppend, SeqLength
<1>3. Req' = Req \cup {Len(cb) + 1} /\ \A r \in Req : cb'[r] = cb[r]
  BY <1>2 DEF Req
<1>4. QED
  BY <1>2, <1>3 DEF Kept, SameAsk, Writes, Req

-----------------------------------------------------------------------------
(* The loop's variables after a step.                                      *)

LoopTo(pc, cur, ret, conn, left, back) ==
  /\ loop'.pc = pc /\ loop'.cur = cur /\ loop'.ret = ret
  /\ loop'.conn = conn /\ loop'.left = left /\ loop'.back = back

\* Moving on, deliver and the start of releaseConn.
LEMMA LoopMoves ==
  ASSUME LoopOK
  PROVE  /\ \A pc : Goto(pc) => LoopTo(pc, loop.cur, loop.ret, loop.conn, loop.left, loop.back)
         /\ \A r, ret : Deliver(r, ret) => LoopTo("send", r, ret, loop.conn, loop.left, loop.back)
         /\ \A c, back : Release(c, back) =>
              LoopTo("release", loop.cur, loop.ret, c,
                     queue[<<c, "read">>] \o queue[<<c, "write">>], back)
         /\ NextSide => LoopTo(loop.pc, loop.cur, loop.ret, loop.conn, loop.left, loop.back)
<1>1. ASSUME NEW pc, Goto(pc)
      PROVE  LoopTo(pc, loop.cur, loop.ret, loop.conn, loop.left, loop.back)
  BY <1>1 DEF Goto, LoopTo, LoopOK
<1>2. ASSUME NEW r, NEW ret, Deliver(r, ret)
      PROVE  LoopTo("send", r, ret, loop.conn, loop.left, loop.back)
  BY <1>2 DEF Deliver, LoopTo, LoopOK
<1>3. ASSUME NEW c, NEW back, Release(c, back)
      PROVE  LoopTo("release", loop.cur, loop.ret, c,
                    queue[<<c, "read">>] \o queue[<<c, "write">>], back)
  <2> DEFINE l == queue[<<c, "read">>] \o queue[<<c, "write">>]
  <2>1. loop' = [loop EXCEPT !.pc = "release", !.conn = c, !.back = back, !.left = l]
    BY <1>3 DEF Release
  <2> HIDE DEF l
  <2>2. LoopTo("release", loop.cur, loop.ret, c, l, back)
    BY <2>1 DEF LoopTo, LoopOK
  <2>3. QED
    BY <2>2 DEF l
<1>4. ASSUME NextSide
      PROVE  LoopTo(loop.pc, loop.cur, loop.ret, loop.conn, loop.left, loop.back)
  <2>1. CASE loop.side = "read"
    BY <1>4, <2>1 DEF NextSide, LoopTo, LoopOK
  <2>2. CASE loop.side # "read"
    BY <1>4, <2>2 DEF NextSide, LoopTo, LoopOK
  <2>3. QED
    BY <2>1, <2>2
<1>5. QED
  BY <1>1, <1>2, <1>3, <1>4, Zenon

\* No request is added to a queue or to releaseConn's list.
LEMMA OwnStep ==
  ASSUME Lists, Own, Kept,
         \A c \in Conn, o \in Op : Elems(queue'[<<c, o>>]) \subseteq Elems(queue[<<c, o>>]),
         Elems(loop'.left) \subseteq Elems(loop.left),
         loop'.conn = loop.conn \/ Elems(loop'.left) = {}
  PROVE  Own'
<1>1. \A r \in Req : cb'[r].conn = cb[r].conn /\ cb'[r].op = cb[r].op
  BY Zenon DEF Kept, SameAsk
<1>2. ASSUME NEW c \in Conn, NEW o \in Op
      PROVE  \A r \in Elems(queue'[<<c, o>>]) : cb'[r].conn = c /\ cb'[r].op = o
  <2>1. <<c, o>> \in Conn \X Op
    OBVIOUS
  <2>2. \A r \in Elems(queue[<<c, o>>]) : r \in Req
    BY <2>1, Zenon DEF Lists
  <2>3. \A r \in Elems(queue[<<c, o>>]) : cb[r].conn = c /\ cb[r].op = o
    BY Zenon DEF Own
  <2>4. Elems(queue'[<<c, o>>]) \subseteq Elems(queue[<<c, o>>])
    BY Zenon
  <2>5. QED
    BY <1>1, <2>2, <2>3, <2>4, Zenon
<1>3. ASSUME NEW r \in Elems(loop'.left)
      PROVE  cb'[r].conn = loop'.conn /\ cb'[r].op \in Op
  <2>1. r \in Elems(loop.left) /\ loop'.conn = loop.conn
    BY <1>3, Zenon
  <2>2. r \in Req
    BY <2>1, Zenon DEF Lists
  <2>3. QED
    BY <1>1, <2>1, <2>2, Zenon DEF Own
<1>4. QED
  BY <1>2, <1>3, Zenon DEF Own

\* Taking the first request of processing.
LEMMA TakeHead ==
  ASSUME Lists, PlacesInv, processing # <<>>
  PROVE  /\ Head(processing) \in Req
         /\ Elems(processing) = Elems(Tail(processing)) \cup {Head(processing)}
         /\ Head(processing) \notin Elems(Tail(processing))
         /\ Increasing(Tail(processing)) /\ Tail(processing) \in Seq(Nat)
         /\ \A q \in Elems(Tail(processing)) : Head(processing) < q
<1>1. processing \in Seq(Nat) /\ Increasing(processing) /\ Elems(processing) \subseteq Req
  BY Zenon DEF Lists, PlacesInv, Sorted
<1>2. Distinct(processing)
  BY <1>1, IncreasingDistinct
<1>3. QED
  BY <1>1, <1>2, TailFacts

\* Starting: the connection is registered.
LEMMA StartingFacts ==
  ASSUME PlacesInv, NEW r, Starting(r)
  PROVE  /\ processing # <<>> /\ r = Head(processing) /\ cb[r].conn \in registered
         /\ loop.pc \in {"pending", "start"}
BY DEF Starting, Handling, PlacesInv, Control

-----------------------------------------------------------------------------
(* Requests are attempted in order, and completed with a result.           *)

\* No earlier request for the operation and the connection of r waits.
First(r) ==
  \A q \in Outstanding : q < r => cb[q].conn # cb[r].conn \/ cb[q].op # cb[r].op

\* handlePending attempts a request only when its queue is empty, and then every
\* request submitted before it is queued elsewhere, completed or gone.
LEMMA FirstStart ==
  ASSUME Lists, QueuedIs, PlacesInv, NEW r \in Req, Starting(r), cb[r].op \in Op,
         queue[<<cb[r].conn, cb[r].op>>] = <<>>
  PROVE  First(r)
<1> SUFFICES ASSUME NEW q \in Outstanding, q < r,
                    cb[q].conn = cb[r].conn, cb[q].op = cb[r].op
             PROVE  FALSE
  BY DEF First
<1>1. processing # <<>> /\ r = Head(processing) /\ loop.pc \in {"pending", "start"}
  BY StartingFacts
<1>2. /\ Elems(processing) = Elems(Tail(processing)) \cup {r}
      /\ \A z \in Elems(Tail(processing)) : r < z
  BY <1>1, TakeHead
<1>3. Outstanding \subseteq Req /\ Req \subseteq Nat
  BY Zenon DEF Outstanding, Lists, QueuedIs
<1>4. q \notin Elems(processing)
  <2>1. ~ (r < q) /\ q # r
    BY <1>3
  <2>2. QED
    BY <1>2, <2>1, Zenon
<1>5. q \notin Elems(create)
  <2>1. r \in Elems(processing)
    BY <1>2
  <2>2. q \in Elems(create) => r < q
    BY <2>1, Zenon DEF PlacesInv, Sorted
  <2>3. QED
    BY <1>3, <2>2
<1>6. q \notin Queued
  <2>1. loop.conn = NoConn
    BY <1>1 DEF PlacesInv, Control, Releasing
  <2>2. ASSUME NEW c \in Conn, NEW o \in Op, q \in Elems(queue[<<c, o>>]) PROVE FALSE
    <3>1. cb[q].conn = c /\ cb[q].op = o
      BY <2>2, Zenon DEF PlacesInv, Own
    <3>2. QED
      BY <2>2, <3>1 DEF Elems
  <2>3. QED
    BY <2>1, <2>2, Zenon DEF QueuedIs
<1>7. QED
  BY <1>4, <1>5, <1>6 DEF Outstanding

\* handleEvents attempts the head of a queue, which is its oldest request and
\* older than all that are not queued yet.
LEMMA FirstQueued ==
  ASSUME TypeOK, Lists, QueuedIs, PlacesInv, NEW c \in Conn, NEW r, Retrying(c, r)
  PROVE  r \in Req /\ r \in Queued /\ cb[r].op \in Op /\ First(r)
<1> DEFINE x == <<c, loop.side>>
<1>1. /\ loop.pc = "events" /\ loop.side \in Op /\ x \in Conn \X Op
      /\ queue[x] # <<>> /\ r = Head(queue[x])
  BY Zenon DEF Retrying, AtEvent, TypeOK, LoopOK
<1>2. queue[x] \in Seq(Nat) /\ Increasing(queue[x]) /\ Elems(queue[x]) \subseteq Req
  BY <1>1, Zenon DEF Lists, PlacesInv, Sorted
<1>3. /\ Elems(queue[x]) = Elems(Tail(queue[x])) \cup {r}
      /\ \A z \in Elems(Tail(queue[x])) : r < z
  BY <1>1, <1>2, TailFacts, Zenon
<1>4. r \in Elems(queue[x]) /\ r \in Req
  BY <1>2, <1>3, Zenon
<1>5. cb[r].conn = c /\ cb[r].op = loop.side
  <2>1. r \in Elems(queue[<<c, loop.side>>]) /\ loop.side \in Op
    BY <1>1, <1>4, Zenon
  <2>2. QED
    BY <2>1, Zenon DEF PlacesInv, Own
<1>6. loop.conn = NoConn
  BY <1>1, Zenon DEF PlacesInv, Control, Releasing
<1>7. r \in Queued
  BY <1>1, <1>4, <1>6, Zenon DEF QueuedIs
<1>8. First(r)
  <2> SUFFICES ASSUME NEW q \in Outstanding, q < r,
                      cb[q].conn = cb[r].conn, cb[q].op = cb[r].op
               PROVE  FALSE
    BY DEF First
  <2>1. Outstanding \subseteq Req /\ Req \subseteq Nat
    BY Zenon DEF Outstanding, Lists, QueuedIs
  <2>2. q \notin Elems(create) \cup Elems(processing)
    <3>1. q \in Elems(create) \cup Elems(processing) => r < q
      BY <1>1, <1>4, Zenon DEF PlacesInv, Sorted
    <3>2. QED
      BY <1>4, <2>1, <3>1
  <2>3. PICK d \in Conn, o \in Op : q \in Elems(queue[<<d, o>>])
    BY <1>6, <2>2, Zenon DEF QueuedIs, Outstanding
  <2>4. d = c /\ o = loop.side
    BY <1>5, <2>3, Zenon DEF PlacesInv, Own
  <2>5. QED
    BY <1>3, <1>4, <2>1, <2>3, <2>4
<1>9. QED
  BY <1>1, <1>4, <1>5, <1>7, <1>8, Zenon
=============================================================================
