----------------------------- MODULE EpollPoller -----------------------------
(***************************************************************************)
(* The Linux poller goroutine: it waits for edges, sends them to the       *)
(* watcher loop as one batch and waits until the loop has acknowledged the *)
(* batch before it reuses the slice that holds it.                         *)
(***************************************************************************)
EXTENDS Socket, Sequences

VARIABLES
  poller,    \* where the goroutine is in Wait
  events,    \* eventSet, the slice the poller fills and the loop reads
  chSignal,  \* the one-slot channel to the loop is full
  done,      \* the one-slot channel back, sig.done, is full
  wake,      \* the eventfd was written and not yet drained
  pdie       \* p.die is closed

pollVars == <<poller, events, chSignal, done, wake, pdie>>

Event == [ident : Conn, ev : SUBSET Op]

PollOK ==
  /\ poller \in {"top", "wait", "send", "ack", "exit"}
  /\ events \in Seq(Event)
  /\ chSignal \in BOOLEAN /\ done \in BOOLEAN
  /\ wake \in BOOLEAN /\ pdie \in BOOLEAN

PollInit ==
  /\ poller = "top" /\ events = <<>>
  /\ chSignal = FALSE /\ done = FALSE /\ wake = FALSE /\ pdie = FALSE

\* The lists that hold every element of S once.
Listings(S) ==
  {s \in UNION {[1 .. n -> S] : n \in 0 .. Cardinality(S)} :
     \A x \in S : \E i \in DOMAIN s : s[i] = x}

Ready == {c \in Conn : sock[c].ready}

\* Top of the loop: return if die is closed, else block in EpollWait.
PollerTop ==
  /\ poller = "top"
  /\ poller' = IF pdie THEN "exit" ELSE "wait"
  /\ UNCHANGED <<events, chSignal, done, wake, pdie, sock>>

\* EpollWait returns: the ready descriptors, in some order, each with all that
\* is ready on it now, are appended to eventSet, and the eventfd is drained.
\* Descriptors on which nothing is ready any more do not end the wait.
PollerWait ==
  /\ poller = "wait"
  /\ wake \/ Ready # {}
  /\ \E list \in Listings({c \in Ready : Mask(sock[c]) # {}}) :
       /\ events' = events \o
            [i \in DOMAIN list |-> [ident |-> list[i], ev |-> Mask(sock[list[i]])]]
       /\ poller' = IF wake \/ list # <<>> THEN "send" ELSE "wait"
  /\ sock' = [c \in Conn |-> [sock[c] EXCEPT !.ready = FALSE]]
  /\ wake' = FALSE
  /\ UNCHANGED <<chSignal, done, pdie>>

\* With a mistake: the poller goes on without waiting for the acknowledgement.
PollerSendOnly ==
  /\ poller = "send" /\ ~ chSignal
  /\ chSignal' = TRUE
  /\ poller' = "top" /\ events' = <<>>
  /\ UNCHANGED <<done, wake, pdie, sock>>

PollerSend ==
  /\ poller = "send" /\ ~ chSignal
  /\ chSignal' = TRUE
  /\ poller' = "ack"
  /\ UNCHANGED <<events, done, wake, pdie, sock>>

\* The loop is done with the batch: eventSet is reused from its start.
PollerAck ==
  /\ poller = "ack" /\ done
  /\ done' = FALSE
  /\ events' = <<>>
  /\ poller' = "top"
  /\ UNCHANGED <<chSignal, wake, pdie, sock>>

\* Either wait ends early when die is closed; the deferred call then closes
\* the epoll descriptor and the eventfd.
PollerDie ==
  /\ poller \in {"send", "ack"} /\ pdie
  /\ poller' = "exit"
  /\ UNCHANGED <<events, chSignal, done, wake, pdie, sock>>

PollerStep == PollerTop \/ PollerWait \/ PollerSend \/ PollerAck \/ PollerDie

-----------------------------------------------------------------------------
(* The operations other goroutines call.                                   *)

\* Close, first half: p.die is closed.
CloseDieChannel ==
  /\ pdie' = TRUE
  /\ UNCHANGED <<poller, events, chSignal, done, wake, sock>>

\* wakeup: the eventfd is written unless the poller has closed it.
Wakeup ==
  /\ wake' = (wake \/ poller # "exit")
  /\ UNCHANGED <<poller, events, chSignal, done, pdie, sock>>

\* Watch fails once the poller has closed its epoll descriptor.
CanWatch == poller # "exit"

\* A newly added descriptor is on the ready list if anything is ready on it.
Watched(s) == [s EXCEPT !.fd = "dup", !.ready = Mask(s) # {}]
=============================================================================
