# A TLA+ model of gaio

gaio is a proactor: users submit reads and writes on `net.Conn`s to a `Watcher`
and collect the completions with `WaitIO`. This directory models how a request
travels through the watcher's goroutines, how the pollers of the three platforms
serve it, and how connections are told apart and given back. It model-checks the
result on small instances with TLC and proves, with TLAPS, the safety properties
and both refinements for all sizes.

## 1. The system

### Parts

| part | source | state | operations |
|---|---|---|---|
| submission API | `watcher.go` `Read` ... `Free`, `aioCreate` | `pendingCreate`, `chPendingNotify` | append under `pendingMutex`, then notify |
| watcher loop | `watcher.go` `loop`, `handlePending`, `handleEvents`, `tryRead`, `tryWrite`, `releaseConn`, `deliver` | `pendingProcessing`, `descs`, `connIdents`, the two lists of each descriptor | register, try, queue, retry, expire, release, deliver |
| WaitIO | `watcher.go` `WaitIO` | `chResults`, `results`, `recycles` | wait for one completion, take what is queued, request a swap |
| internal buffers | `watcher.go` `tryRead`, `notifyShouldSwap` | three buffers, `bufferOffset`, `shouldSwap` | rotate, read into the tail, fall back to `backBuffer` |
| deadlines | `watcher.go` timer case, `time.go` | `timeouts` heap, `timer` | push, remove, expire, reset |
| pollers | `aio_linux.go`, `aio_bsd.go`, `aio_windows.go` | event slice, `chSignal`, `sig.done`, wakeup descriptor | watch, wait, send a batch, wait for the acknowledgement |
| duplication | `aio_unix.go`, `aio_windows.go` | open descriptors | dup, close |
| shutdown | `Close`, `stop`, the deferred function of `loop`, `poller.Close` | `die`, `loopDone`, `p.die` | stop both goroutines, release everything |
| garbage collection | finalizer in `handlePending`, `handleGC`, `GetGC` | `gc`, `gcNotify` | queue unreachable connections, release them |
| CPU affinity | `SetPollerAffinity`, `SetLoopAffinity`, `affinity_*.go` | `cpuid`, `chCPUID` | hand a CPU number to a goroutine |
| pools | `aiocbPool`, `fdDescPool` | records | reuse after `WaitIO`, after release |

### Who runs when

Submitters run in any number. The loop is one goroutine and owns the registered
connections; the poller is another; `WaitIO` is called by one goroutine at a
time; `Close` may come from anywhere. They meet in one-slot channels
(`chPendingNotify`, `chSignal`, `sig.done`, `shouldSwap`), in `chResults`, which
is bounded, and in the closed channels `die`, `p.die` and `loopDone`. The peer
and the kernel change the sockets at any time.

### What is hard, and what has to hold

- *Submission.* The notification follows the append and is dropped if one is
  there. No request may stay unnoticed (`NoLostSubmission`).
- *Readiness.* epoll reports an edge once. No request may wait for a socket that
  is ready (`NoLostReadiness`, with the one exception the code has: a full read
  that took the last bytes before the end of the stream, `CutShort`), requests are
  served in order (`OrderedService`), and no byte of the stream is lost or counted
  twice (`StreamConserved`).
- *Registration.* A duplicate descriptor is open exactly while its connection is
  registered, whatever step fails (`DescriptorsOwned`).
- *Completion.* An event, a deadline, `Free` or shutdown can complete a request;
  each must do so once (`ExactlyOnce`), with a truthful result (`ResultsSound`),
  and let go of the record (`DeliveredUntouched`).
- *Deadlines.* The heap follows the queues (`DeadlinesTracked`) and the timer
  follows the heap (`TimerArmed`), so that a deadline is served
  (`DeadlineServed`).
- *Event batches.* Poller and loop share a slice (`EventSetStable`).
- *Buffers.* Results point into memory that is reused (`IntactOnReturn`).
- *Shutdown.* It ends from every state (`CloseEnds`) and leaves nothing behind
  (`CleanWhenDone`).
- *The whole.* A user sees an abstract completion service: requests are accepted,
  completed once, truthfully and in order, and returned (`ImplementsService`).
- *The heap.* `heap.Remove` trusts the `idx` field of a request, which every swap
  has to maintain (`IdxExact`, `Ordered`); to the loop the array must look like a
  set with an earliest element (`ImplementsSet`).
- *Other platforms.* kqueue registers late, WSAPoll keeps closed handles for a
  while and moves entries about: what was accepted by `Watch` stays watched
  (`StaysWatched`, `PollSetIndexed`), nothing waits for an event that will not come
  (`NoLostReadiness` of `Pollers`), batches are stable (`BatchStable`), poller errors
  reach the user (`ErrorReported`), everything ends (`AllEnd`), an affinity request
  is seen (`AffinityNoticed`), and `openPoll` leaks nothing (`OpenSettles`).
- *Identity.* Connections are found by address, descriptors by number, and both are
  used again: a key must not outlive its meaning (`IdentitySound`), the loop must not
  block with `gcMutex` held (`GCFindsIdle`), and a connection nobody refers to must
  give its descriptor back (`Reclaimed`). `SetLoopAffinity` must return
  (`AffinityAnswered`).

`PROJECT.json` lists the hazards line by line, those without a property too.

## 2. Modules

| module | models |
|---|---|
| `Socket` | the kernel's side of a connection (external): bytes to read, room to write, FIN, RST, the ready list of epoll |
| `EpollPoller` | the poller goroutine of `aio_linux.go` on top of `Socket` |
| `Watcher` | submitters, loop, `WaitIO` and `Close`, on top of `EpollPoller`: the whole system for requests with buffers of their own |
| `CompletionService` | what the watcher promises: requests, results, the order between them, and nothing else |
| `ServiceRefinement` | the refinement mapping from `Watcher` to `CompletionService` |
| `MCWatcher` | the requests users make in each run |
| `WatcherClaims` | statements of the documentation that the code does not keep |
| `SwapBuffer` | the three internal buffers, shared by the loop and `WaitIO` |
| `TimedHeap` | `time.go` under `container/heap`: the array, the `idx` fields, one swap per step |
| `DeadlineSet` | what the loop needs from the heap: a set, its earliest element, removal of any element |
| `PollerClient` | the loop as the client of a poller: requests counted per connection and operation, handles told apart; batch handshake, `stop`, the poller's error, the `cpuid` mailbox |
| `KqueuePoller`, `WSAPoller` | `Wait`, `Watch`, `unwatch` and `wakeup` of `aio_bsd.go` and `aio_windows.go`, with what the kernel does for them |
| `WSAOpen` | `createSocketPair` and `openPoll` of `aio_windows.go`, with the goroutine that dials |
| `Pollers` | the composition of the four modules above, its fairness and properties |
| `Registry` | `descs`, `connIdents`, descriptor numbers, addresses, reachability, finalizers, `handleGC`, `SetLoopAffinity` |
| `MCTimedHeap`, `MCPollers`, `MCRegistry` | symmetry and scenarios of the runs |
| `SwapBufferProofs` | theorems about `SwapBuffer` |
| `WatcherProofs` | theorems about `Watcher` that need no more than its types; the facts about lists and attempts that the next three share |
| `PlacesProofs` | where each request is: `ExactlyOnce`, `DescriptorsOwned`, `DeadlinesTracked`, `CleanWhenDone`, `DeliveredUntouched` |
| `ReadinessProofs` | what each step does to readiness and to the bytes of a stream |
| `ServiceProofs` | `ResultsSound`, `OrderedService`, `NoLostReadiness`, `StreamConserved`, and the refinement of `CompletionService` |
| `TimedHeapProofs` | theorems about `TimedHeap`, and the refinement of `DeadlineSet` |
| `RegistryProofs`, `PollersProofs` | theorems about `Registry` and `Pollers` |

**Requests** are numbered in order of submission; `cb[r]` is the record `aiocb`.
A data buffer is its length, a stream is a count of bytes. `processing` holds
`pendingProcessing` from the request being handled on, `queue[<<c, op>>]` is
`desc.readers` or `desc.writers`, and `registered` stands for `descs` and
`connIdents`. `timeouts` is the set of requests in the heap; any earliest one may
be its root.

**The loop** is one process. `loop.pc` names the place in the code: `select` is
the select of `loop`; `swap`, `pending`, `watch` and `start` are in the
`chPendingNotify` case and `handlePending`; `events` is `handleEvents` and the
acknowledgement; `timer` is the timer case; `release` is `releaseConn`; `send` is
the second half of `deliver`, which may block, and returns to `loop.ret`; `exit`
and `done` are the deferred function. A handler is atomic only between two points
where another goroutine, the kernel or the clock can matter: each attempt, each
send and each descriptor operation is a step.

**Time.** `now` is a clock that stops at `MaxTime`; it may advance between any two
steps, so the time the timer handler has read can be stale when it resets the
timer. The timer keeps its tick in the channel when it is reset, as it does under
the language version the module declares (go 1.21).

**Env** selects optional events: `fin`, `rst` (peer), `dup`, `watch` (failures of
registration), `close` (someone closes the watcher).

**The heap.** `up`, `down` and the loop of `heap.Remove` take one step per swap, so
that `IdxExact` is seen between any two of them. The refinement mapping forgets the
order: `DeadlineSet` sees which requests are in the array and which one a call under
way is taking out, and why.

**The service.** A request *waits* from `aioCreate` until `deliver` has put its
result into `chResults`; the loop's lists, the heap, the timer and the poller are
invisible. Success, EOF and reset are given to the requests of one connection and
operation in order; expiry, release and failed registration may strike any.

**Pollers.** One behaviour uses one platform. kqueue is modelled by the filters
registered for each handle (`note`) and those triggered since they were last
reported (`active`, EV_CLEAR); `kevent` is two steps, since a handle may be closed
between the application of the changes and the return. WSAPoll reports the state of
its snapshot; the lock is free between the poll and `unwatch`, and the step order of
`Wait` after the poll (mailbox, wakeup bytes, invalid handles, batch) is kept.
`pollerErr` is an interface value, written in two steps. An attempt may complete,
would block, or moves only a part of its bytes; in the last two cases the request
stays queued and what made it possible is used up. Two attempts end earlier
(`GivesUp`), with the socket still ready: a write that meets ENOBUFS, and a full read
that takes the last bytes of a stream whose peer has closed. `early` remembers them.
Requests leave the queues by completion or release; deadlines are in `Watcher`. In
`createSocketPair` a connection the listener holds for `Accept` counts as a socket
(`backlog`), since `Accept` returns it also after the dialing end was closed.

**Registry.** An object is `Reachable` through the program, requests, results, the
`gc` list and its finalizer, not through `connIdents`, which stores a number. The
collector takes any unreachable object at any time; addresses and descriptor
numbers are given out again, lowest first.

**Scenarios.** `Pollers` and `Registry` start in one of several scenarios (variable
`run`) that fix the platform, the faults and the bounds, so that one run covers the
sum of the cases and not their product. Faults of `Pollers`: `peer`, `free`, `close`,
`error` (`kevent` or `WSAPoll` fails), `eintr`, `eof`, `nobufs`, `dup` (duplication
fails), `reuse` (handle values are given out again), `open` (start with `openPoll`).

Definitions headed "With a mistake" repeat an action with a plausible programming
error. They take part in no specification; substituting one for the original
makes the property named beside it in `PROJECT.json` fail.

## 3. Runs

| run | instance | distinct states |
|---|---|---|
| `swap` | buffers of 2 bytes, channel of 2 | 0.8 million |
| `service` | 1 connection, 3 requests among full read and write; 2 bytes and FIN from the peer, send buffer of 1, channel of 1 | 2.2 million |
| `deadline` | 1 connection, 3 reads with deadline 1 or 2, clock to 3, 1 byte | 2.0 million |
| `pair` | 2 connections (symmetric), 2 requests among read and `Free`; failures of dup and Watch, FIN and RST | 2.7 million |
| `close` | 1 connection, 2 reads with a deadline, `Close` at any time, fair; with the refinement of `CompletionService` | 0.2 million |
| `heap` | 6 requests (symmetric), 3 deadlines | 11 thousand |
| `pollers` | 7 scenarios: 3 on kqueue, 4 on WSAPoll, with 1 to 3 connections, 1 to 3 requests, at most 2 affinity requests; fair | 0.7 million |
| `registry` | 3 scenarios: 2 objects with 2 addresses and 2 descriptors, 3 objects with 2 addresses and 1 descriptor, 2 objects with 1 of each together with `Close` and `SetLoopAffinity`; 2 requests, channel of 1; fair | 53 thousand |

Why these bounds are enough for the interesting cases. Three requests on one
connection give a head, one behind it and one being submitted. Two bytes against
a length of two make a full read take one or two events; a send buffer of one
makes every write of two short. A result channel of one blocks the loop in
`deliver` whenever a second completion is ready. A clock that reaches the later
deadline plus one lets each deadline pass before, during and after the handling
of the other. Two connections are needed for batches of two events, and for an
event that names a connection released earlier in the batch. Two bytes per
internal buffer give an empty, a half and a fully used one. A heap of six has
three levels, and a node with one child. A poll set of three lets `unwatch` move an
entry from the end to a place that is neither first nor last. More objects than
addresses or descriptors force every kind of key to be used again.

The runs on `Watcher`, `Pollers` and `Registry` do not check for deadlock: once all
requests are used up and nobody closes the watcher, all goroutines rest, as in the
program. The buffer and heap models never rest, and there deadlock is checked.

**Fairness** on `Watcher` (run `close` and the two liveness claims) is weak: the scheduler runs
every goroutine that can go on, `WaitIO` is called again after it returns, the
clock advances while a deadline is pending, and an expired timer fires. Nothing is
assumed about the choice between the ready cases of a select, about the peer, or
about users submitting. In `Pollers` it is weak too: poller, loop, and the calls that
are finite (`stop`, the `WaitIO` under way, `openPoll`) go on when they can; that an
`Accept` without a connection fails is possible, but not assumed. In
`Registry` the goroutines and the collector are weakly fair, and the program keeps
calling `WaitIO`; the cases of the loop's select are strongly fair, because Go chooses
at random among those that are ready and a case that is ready again and again is
taken with probability one. `Reclaimed` and `AffinityAnswered` depend on it: without
it, event batches could keep the loop from `gcNotify` and `chCPUID` for ever.

### Where code and documentation disagree

Each of these runs has one property, quoted from the documentation, and a
counterexample.

- `swap_claim`: internal buffers do not stay valid until the next `WaitIO`. A
  result delivered just after a call saw the channel empty is returned a call
  later. The swaps requested by the call before, by that call, and by the one that
  returns it make three rotations, and the third reuses its buffer. What does hold
  is that a result is intact when `WaitIO` returns it.
- `claim_waitio`: `WaitIO` tests the length of `chResults` and then receives; the
  loop, on its way out, drains the channel in between, and `WaitIO` never returns.
- `claim_readfull`: a full read made short by the end of the data that came with
  the peer's FIN is never tried again, and without a deadline never completes. With
  a deadline it does, but a read queued behind it then stays there, at the end of a
  stream that no edge will announce any more: this is the exception `CutShort` of
  `NoLostReadiness`. kqueue, which also reports a change once, has the same exception
  (`early` in `NoLostReadiness` of `Pollers`); WSAPoll reports the end again and has
  not.
- `claim_watch`: on Windows, `Watch` finds a handle value in `fdMap` that belongs to a
  closed connection, and returns; the poller, which has seen POLLNVAL for the old
  socket, then removes the entry, and the new connection is never reported.
  Without reuse of handle values `StaysWatched` holds (run `pollers`).

Seen while modelling, and not the subject of a run of their own:
- The result of a request canceled by `Close` can be returned by `WaitIO`, although
  the comment of `Close` (`watcher.go:211`) says that `ErrWatcherClosed` is returned
  instead: with `die` closed, the selects of `deliver` and `WaitIO` may still choose
  the channel. `CompletionService` allows it.
- `Free` of a connection the watcher does not know registers it (`watcher.go:720`).
- A read into an empty, non-nil buffer reports `io.EOF` on an open stream
  (`watcher.go:477`).
- A write queued because of ENOBUFS waits for an edge, although the socket was
  writable all the time (`watcher.go:528`; the other exception in `NoLostReadiness` of
  `Pollers`).
- An affinity request stored between the load and the clearing of the mailbox is
  lost. On Windows one stored before the wakeup bytes are drained stays in the
  mailbox until the next event.
- `kevent` and `EpollWait` failing end the poller without a word to the loop.
- When `Dial` fails in `createSocketPair` before it is connected, `Accept` waits,
  possibly for good (the exception in `OpenSettles`). On the BSDs `openPoll` leaves the kqueue open when `kevent` fails.
- `WaitIO` reads `pollerErr` after `die`; if a user closes the watcher while the loop
  stores a poller error, that read is a data race (the case `ErrorReported` excludes).

## 4. Proofs

All theorems are for every value of the constants that satisfies the named
assumptions: finitely many connections, natural bounds, non-zero capacities, and
request shapes that the API accepts.

`SwapBufferProofs`
- `TypeCorrect`: the offset and the regions stay within a buffer.
- `RotationInductive`: `Rotation` is inductive. `IntactOnReturn` alone is not: one
  has to know that what is on its way to the user lies below the used part of the
  front buffer, and is not in the buffer a pending swap would reuse. Between the
  moment `WaitIO` saw the channel empty and its swap request, new results must even
  be two rotations away from reuse.
- `Intact`: `IntactOnReturn` follows.

`WatcherProofs`
- `TypeCorrect`: `TypeOK`, which includes that no request moves more bytes than its
  buffer holds and that `chResults` keeps to its capacity. One lemma per group of
  actions; `Frame` covers the parts a step leaves alone, and `TryType` the two
  attempts.
- `SubmissionNotLost`: `NoLostSubmission` is inductive with `TypeOK`. Only
  submission adds to `pendingCreate`, and it announces the request in the same
  step; the loop gives up the token only for the place where it takes the slice.
- `TimerAlwaysArmed`: from `TimerInv`, which extends `TimerArmed` to every place of
  the loop but the timer case, the only one that may leave the timer stopped for a
  while, and adds that the clock has started.
- `EventSetNotReused`: the action property `EventSetStable`, from `Handshake`: a
  batch is on its way, in the loop's hands or acknowledged, and only one of these,
  and until the poller has taken the acknowledgement it waits.

`PlacesProofs`
- `PlacesInvariant`: the inductive invariant `PlacesInv`. `ExactlyOnce` by itself is
  not inductive: a request could be in a list of another connection, so that a
  release would miss it, or twice in one list. `PlacesInv` therefore says that the
  lists belong to one connection and operation (`Own`), are in submission order and
  without repetition (`Sorted`), agree with the loop's place in the code and with
  the maps (`Control`, `Descriptors`), hold each request in one place at most and in
  one place at least while the watcher is open (`Where`), are empty when the loop has
  ended (`Swept`), and agree with the heap (`DeadlinesTracked`).
- `AlwaysExactlyOnce`, `AlwaysDescriptorsOwned`, `AlwaysDeadlinesTracked`, `AlwaysCleanWhenDone` and the action
  property `AlwaysDeliveredUntouched` follow.

`ServiceProofs`, with the step lemmas of `PlacesProofs` and `ReadinessProofs`
- `ServiceInvariant`: what was delivered or is in the hands of `deliver` is sound, and
  what the socket said to a request was said while no earlier one of its connection
  and operation waited. `AlwaysResultsSound` and the action property
  `AlwaysOrderedService` follow.
- `WatcherImplementsService`: every step is one of three kinds for a user (a request
  is accepted, completed, or returned) or is invisible; `StepKinds` says which.
- `AlwaysNoLostReadiness`: from `ReadyInv`. `NoLostReadiness` speaks of rest only. The
  invariant says at any moment to whom a ready socket is known: whenever a request
  waits for a ready socket, epoll has it on its ready list or an event for it is with
  the poller, in `chSignal`, or in the part of the batch the loop has not handled
  (`Fine`, `Announced`). A write that waits needs more: the socket remembers that it
  was too full (`short`), or there would be no edge when room comes. Also needed is
  `InOrder` (only the first of a queue was ever attempted, and what waits is not
  complete) and that the loop's place in the batch is where it should be (`Cursor`).
- `AlwaysStreamConserved`: from `StreamInv`, which says that running totals of the reads
  exist and end where the socket stands. `Taken` is a recursive function, and a
  definition of this kind proves nothing before a function with these equations is
  known to exist. The invariant carries the existence along from step to step (a
  step changes the totals from one request on), and two functions with these
  equations agree, since there is no least place where they differ.

`TimedHeapProofs`
- `HeapInvariant`: between any two swaps the `idx` fields are exact, and the array is a
  heap but at the place where `up` or `down` has come; there the parent of the place
  is compared with its children, which is what the next swap needs. `IdxAlwaysExact`,
  `AlwaysOrdered` and `RootAlwaysEarliest` (the root has the earliest deadline, for
  heaps of any depth) follow, and `HeapImplementsSet`: the array implements
  `DeadlineSet`.

`RegistryProofs`
- `RegistryInvariant`: both maps name each other's keys, an address stays with its
  object while a key or a request needs it, and nothing refers again to an object
  that is being finalized. `IdentitySound` alone does not survive a collection: what
  protects a key is that the object cannot be collected before its key is gone.
  `AlwaysIdentitySound` and `AlwaysGCFindsIdle` follow.

`PollersProofs`
- `PollersInvariant`: handles, handshake, mailbox, error path, poll set and
  registrations of both pollers and of the poller's opening. From it
  `AlwaysBatchStable`, `AlwaysAffinityNoticed`, `AlwaysErrorReported`,
  `AlwaysPollSetIndexed`, and `AlwaysStaysWatched`.
- `AlwaysNoLostReadiness`: from a second invariant, `ReadyInv`: on
  kqueue, a request that could go on has a filter still to be registered, a triggered
  one, or an event on its way to the loop (`KqDue`), and neither poller blocks over a
  handle it has not yet been told of unless it is about to be woken (`KqFresh`,
  `WsFresh`). What may rest although it could go on is what gave up on kqueue
  (`early`): `Due` leaves it out, and on Windows nothing is left out, since a socket
  in the snapshot that is ready is reported.
- `AlwaysStaysWatched` and `AlwaysNoLostReadiness` assume that no scenario on Windows
  gives out a handle value again: with reuse the first is false (`claim_watch`).

How the proofs are built. A step that preserves an invariant has one case per action.
Facts about heads, tails and appends are small lemmas of the project. Induction over
data is not used: least elements, hence minimal counterexamples, come from the
well-foundedness of the naturals (`WellFoundedInduction`), which is enough for
`RootAlwaysEarliest`, for the choice of the lowest free number, and for `Taken`.

Model-checked only: liveness (`DeadlineServed`, `CloseEnds`, `AllEnd`, `OpenSettles`,
`Reclaimed`, `AffinityAnswered`), since fairness and `ENABLED` are beyond the prover.
Every safety invariant and action property of a passing run, and both refinements,
are theorems; the abstract specifications state no fairness.

## 5. Not modelled, and the plan

Left out on purpose: the contents of buffers and contexts, error wording, logging,
the examples, the system calls that set affinity, the reuse of records through
`sync.Pool`, the type switch over implementations of `net.Conn` in `dupconn`, and
the limit of `maxEvents` per batch (epoll and kqueue keep the others on their lists).
An interrupted `EpollWait` is retried and looks like no step; a failing one is not
modelled. Only one user's `Close` is modelled: later ones wait for the same
`loopDone`. ENOBUFS, which `tryWrite` expects on macOS and the BSDs, is in `Pollers`
and not in `Watcher`, which has epoll. `SwapBuffer` has no `Close`: after it, `deliver`
may drop a result, and a result that is dropped reaches nobody. `Registry` leaves out a failing `Watch`, which `Watcher` has. Requests are
counted in `Pollers`: which one completes, and with what, is the subject of `Watcher`
on epoll. `ImplementsService` is model-checked for the requests of run `close`, and
proved for all.

Planned:
1. `Watcher` on top of the other two pollers.
2. `NoLostReadiness` of `Pollers` with handle reuse on Windows, for the connections that
   `claim_watch` does not concern.
