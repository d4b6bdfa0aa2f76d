----------------------------- MODULE SwapBuffer -----------------------------
(***************************************************************************)
(* The three rotating buffers behind nil-buffer reads.                     *)
(*                                                                         *)
(* Two goroutines share them.  The watcher loop serves a nil-buffer read   *)
(* (tryRead): it rotates the buffers if a swap was requested, reads into   *)
(* the free tail of the front buffer and delivers the result to chResults. *)
(* The consumer (WaitIO) collects what chResults holds, requests a swap    *)
(* and hands the batch to the user, who may use it until the next WaitIO.  *)
(* Requests that bring their own buffer matter here only because their     *)
(* results wake WaitIO too.                                                *)
(***************************************************************************)
EXTENDS Naturals, Sequences

CONSTANTS
  SwapSize,  \* capacity in bytes of each of the three buffers (w.swapSize)
  Cap        \* capacity of chResults

ASSUME SwapSizeAssumption == SwapSize \in Nat
ASSUME CapAssumption == Cap \in Nat \ {0}

VARIABLES
  front,      \* which of the buffers 0, 1, 2 is swapBufferFront
  offset,     \* bufferOffset: bytes of the front buffer already used
  shouldSwap, \* the one-slot channel shouldSwap holds a token
  loop,       \* where the watcher loop is in tryRead and deliver
  cur,        \* the result in the loop's hands while loop = "deliver"
  chResults,  \* results on their way to WaitIO
  waiter,     \* where the consumer is in WaitIO
  results     \* what WaitIO has collected and the user then holds

vars == <<front, offset, shouldSwap, loop, cur, chResults, waiter, results>>

Buffers == 0 .. 2

\* A result points to the bytes lo .. hi - 1 of one of the buffers.  One that
\* uses no swap buffer is the empty region at the current offset.
Region == [buf : Buffers, lo : 0 .. SwapSize, hi : 0 .. SwapSize]

NoBytes == [buf |-> front, lo |-> offset, hi |-> offset]

TypeOK ==
  /\ front \in Buffers
  /\ offset \in 0 .. SwapSize
  /\ shouldSwap \in BOOLEAN
  /\ loop \in {"select", "read", "deliver"}
  /\ cur \in Region
  /\ chResults \in Seq(Region) /\ Len(chResults) <= Cap
  /\ waiter \in {"user", "wait", "drain", "notify"}
  /\ results \in SUBSET Region

Init ==
  /\ front = 0
  /\ offset = 0
  /\ shouldSwap = FALSE
  /\ loop = "select"
  /\ cur = [buf |-> 0, lo |-> 0, hi |-> 0]
  /\ chResults = <<>>
  /\ waiter = "user"
  /\ results = {}

-----------------------------------------------------------------------------
(* The watcher loop.                                                       *)

\* With a mistake: double buffering, the new front is the buffer before.
SelectBufferOfTwo ==
  /\ loop = "select"
  /\ loop' = "read"
  /\ shouldSwap' = FALSE
  /\ front' = IF shouldSwap THEN (front + 1) % 2 ELSE front
  /\ offset' = IF shouldSwap THEN 0 ELSE offset
  /\ UNCHANGED <<cur, chResults, waiter, results>>

\* A nil-buffer read starts: if a swap was requested, front, middle and back
\* move one place round and the new front buffer is used from its start.
SelectBuffer ==
  /\ loop = "select"
  /\ loop' = "read"
  /\ shouldSwap' = FALSE
  /\ front' = IF shouldSwap THEN (front + 1) % 3 ELSE front
  /\ offset' = IF shouldSwap THEN 0 ELSE offset
  /\ UNCHANGED <<cur, chResults, waiter, results>>

\* The socket had nothing to read (EAGAIN): the request stays queued.
ReadBlocks ==
  /\ loop = "read"
  /\ loop' = "select"
  /\ UNCHANGED <<front, offset, shouldSwap, cur, chResults, waiter, results>>

\* With a mistake: the read may use the length of the whole buffer.
ReadSwapWhole(n) ==
  /\ loop = "read"
  /\ offset < SwapSize
  /\ cur' = [buf |-> front, lo |-> offset, hi |-> offset + n]
  /\ offset' = offset + n
  /\ loop' = "deliver"
  /\ UNCHANGED <<front, shouldSwap, chResults, waiter, results>>

\* The read stores n bytes in the free tail of the front buffer; n = 0 when
\* the stream ended or the read failed.
ReadSwap(n) ==
  /\ loop = "read"
  /\ offset < SwapSize
  /\ offset + n <= SwapSize
  /\ cur' = [buf |-> front, lo |-> offset, hi |-> offset + n]
  /\ offset' = offset + n
  /\ loop' = "deliver"
  /\ UNCHANGED <<front, shouldSwap, chResults, waiter, results>>

\* The front buffer is exhausted: the read goes to the backBuffer of its own
\* request record.
ReadBack ==
  /\ loop = "read"
  /\ offset = SwapSize
  /\ cur' = NoBytes
  /\ loop' = "deliver"
  /\ UNCHANGED <<front, offset, shouldSwap, chResults, waiter, results>>

\* A request that brought its own buffer completes, or one that never read.
CompleteOther ==
  /\ loop = "select"
  /\ cur' = NoBytes
  /\ loop' = "deliver"
  /\ UNCHANGED <<front, offset, shouldSwap, chResults, waiter, results>>

\* deliver: blocks while chResults is full.
Deliver ==
  /\ loop = "deliver"
  /\ Len(chResults) < Cap
  /\ chResults' = Append(chResults, cur)
  /\ loop' = "select"
  /\ UNCHANGED <<front, offset, shouldSwap, cur, waiter, results>>

-----------------------------------------------------------------------------
(* The consumer.                                                           *)

\* WaitIO is called: the user gives up the batch of the previous call.
WaitCall ==
  /\ waiter = "user"
  /\ waiter' = "wait"
  /\ results' = {}
  /\ UNCHANGED <<front, offset, shouldSwap, loop, cur, chResults>>

\* A completion is received; the first one is waited for.
WaitReceive ==
  /\ waiter \in {"wait", "drain"}
  /\ chResults # <<>>
  /\ results' = results \cup {Head(chResults)}
  /\ chResults' = Tail(chResults)
  /\ waiter' = "drain"
  /\ UNCHANGED <<front, offset, shouldSwap, loop, cur>>

\* With a mistake: the batch ends although results are left in the channel.
WaitDrainedEarly ==
  /\ waiter = "drain"
  /\ waiter' = "notify"
  /\ UNCHANGED <<front, offset, shouldSwap, loop, cur, chResults, results>>

\* len(chResults) is seen to be 0: the batch is complete.
WaitDrained ==
  /\ waiter = "drain"
  /\ chResults = <<>>
  /\ waiter' = "notify"
  /\ UNCHANGED <<front, offset, shouldSwap, loop, cur, chResults, results>>

\* notifyShouldSwap leaves a token, unless one is there, and WaitIO returns.
WaitReturn ==
  /\ waiter = "notify"
  /\ shouldSwap' = TRUE
  /\ waiter' = "user"
  /\ UNCHANGED <<front, offset, loop, cur, chResults, results>>

-----------------------------------------------------------------------------
LoopStep ==
  \/ SelectBuffer
  \/ ReadBlocks
  \/ \E n \in 0 .. SwapSize : ReadSwap(n)
  \/ ReadBack
  \/ CompleteOther
  \/ Deliver

WaitStep == WaitCall \/ WaitReceive \/ WaitDrained \/ WaitReturn

Next == LoopStep \/ WaitStep

Spec == Init /\ [][Next]_vars

-----------------------------------------------------------------------------
(* Properties.                                                             *)

\* The bytes both regions hold.
Overlap(r, s) ==
  r.buf = s.buf /\ \E b \in r.lo .. r.hi - 1 : b \in s.lo .. s.hi - 1

Elems(s) == {s[i] : i \in 1 .. Len(s)}

\* What OpResult.Buffer promises: "Internal buffers remain valid until the
\* next WaitIO call."  The read that has just stored its bytes (tryRead)
\* overwrote no byte of a completed read that the user has yet to see or may
\* still look at.
ValidUntilNextWaitIO ==
  loop = "deliver" => \A r \in Elems(chResults) \cup results : ~ Overlap(cur, r)

\* Completed reads on their way to the user: those in chResults and those in
\* the batch that WaitIO is collecting.
NotYetReturned ==
  Elems(chResults) \cup (IF waiter = "user" THEN {} ELSE results)

\* The part of that promise the three buffers do keep: no read of the loop
\* touches the bytes of a completed read before WaitIO has returned it.
IntactOnReturn ==
  loop = "deliver" => \A r \in NotYetReturned : ~ Overlap(cur, r)

-----------------------------------------------------------------------------
(* Why IntactOnReturn holds.                                               *)

\* The used part of the front buffer, without the read in the loop's hands.
Used == IF loop = "deliver" THEN cur.lo ELSE offset

\* The buffer that the next rotation makes the front one.
NextBuffer == (front + 1) % 3

\* Inductive invariant over SelectBuffer, tryRead's reads and WaitIO.  What is
\* on its way to the user lies in the used part of the front buffer or in
\* another buffer, and not in the buffer that a pending swap will reuse; from
\* the moment WaitIO saw the channel empty until it requests the swap, what
\* was sent since is one more rotation away from being reused.
Rotation ==
  /\ loop = "deliver" => cur.buf = front /\ cur.lo <= cur.hi /\ cur.hi = offset
  /\ \A r \in NotYetReturned :
       /\ r.buf = front => r.hi <= Used
       /\ shouldSwap => r.buf # NextBuffer
  /\ waiter = "notify" => \A r \in Elems(chResults) :
       /\ r.buf # NextBuffer
       /\ shouldSwap => r.buf = front
=============================================================================
