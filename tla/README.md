# netframe in TLA+

netframe (`../src`) is a small C++ network library in the manner of muduo: one
event loop per thread, non-blocking sockets, callbacks, and functors that cross
threads through a queue. This directory holds TLA+ modules of its parts, the TLC
configurations that check them on small instances, and TLAPS proofs of what can
be proved for instances of any size. Every definition is translated from the
code; `PROJECT.json` lists for each the lines it stands for.

## 1. The system

| component | state it keeps | operations | correct when |
|---|---|---|---|
| `EventLoop` | `m_bquit`, `m_pendingFuntors` under `m_mutex`, an eventfd, the handlers of the last poll | `loop`, `quit`, `runInLoop`, `queueInLoop`, `wakeup`, `updateHandler`, `removeHandler` | it never sleeps over work somebody announced; a functor runs once, in order; a removed handler is not called; `quit` ends it |
| `Handler`, `EPollPoller` | interest and `m_state` per handler, `m_handlermap`, the kernel's interest list | `enable*`, `disable*`, `removeHandler`, `PollEvent` | map, handler and kernel agree; the kernel's pointers are live |
| `Buffer` | a vector and two indices | `append`, `prepend`, `retrieve*`, `readFd`, `ensureWritableBytes` | it is a queue of bytes that does not grow with the traffic |
| `TcpConnection` | `m_state`, the output buffer, the handler's interest | `send`, `shutdown`, the four event callbacks, `connectionEstablished`, `connectionDestroyed` | bytes go out in order and only then the FIN; input is delivered before the end; it ends destroyed |
| `EventLoopThread`, `EventLoopThreadPool` (with `Thread`, `MutexLock`, `Condition`) | `m_ploop`, `m_next`, a thread | `startLoop`, `threadFunc`, `start`, `getNextLoop`, the destructors | no lost or spurious wakeup; loops are used while they exist; joins return; calls are spread evenly |
| `TcpServer`, `Acceptor`, `Socket` | `m_connections`, `m_idleFd`, the `TcpConnectionPtr`s in queues and callbacks | `start`, `listen`, `handleRead`, `newConnection`, `removeConnection`, `removeConnectionInLoop` | a connection lives as long as it is used, then goes with its registration; the backlog drains |
| `PollingServer`, `Polling` | its connections' interest in epoll, `m_serviceKey`, one `m_key` for all connections | accept, read a request, answer it (legacy, no longer started by `main`) | each request is answered once, with a fresh count; a client is not starved |
| `timestamp.h`, `Poller`, `PollerFactory`, `InetAddress`, `Exception`, `CurrentThread`, `Callbacks`, `SocketOps`, `main`, clients | none that matters | wrappers, formatting, tests | |

How they interact. A `TcpServer` on the base loop owns an `Acceptor` and a pool.
`newConnection` picks an io loop and hands it `connectionEstablished`. From then
on the connection lives on the io loop: its `Handler` is registered with that
loop's `EPollPoller`, which reports events to `EventLoop::loop`, which calls
`Handler::handleEvent`, which calls the connection. Other threads reach a
connection or a loop through `queueInLoop` and the eventfd only, except for
`m_state` and `m_bquit`, which they read and write without a lock. A close goes
io loop -> base loop (`removeConnectionInLoop`) -> io loop
(`connectionDestroyed`). Lifetime is a matter of who holds a `TcpConnectionPtr`.
`PollingServer` uses none of this: one thread, one epoll descriptor.

What is hard here: the skipped wakeup of `queueInLoop`; `quit` against a loop
that is about to sleep, has not started or has ended; handlers removed while a
batch of events is dispatched; partial writes against `shutdown`; several flags
in one epoll event; close against functors still queued; descriptors and
addresses that are used again. Nothing is persisted, so there is no recovery.
`PROJECT.json` lists these hazards at their lines.

## 2. The modules

| module | models | abstract specification |
|---|---|---|
| `EventLoop` | `EventLoop.cpp`, `EPollPoller::PollEvent` | `TaskQueue`: one first-in first-out queue |
| `EPollPoller` | `EPollPoller.cpp`, `Handler.h`, epoll's interest list | |
| `Buffer` | `Buffer.h`, `Buffer.cpp` | `ByteQueue`: a sequence of bytes |
| `TcpConnection` | `TcpConnection.cpp`, `Handler::handleEvent` | `OutputStream`: accepted bytes, bytes on the wire, a FIN |
| `EventLoopThreadPool` | `EventLoopThreadPool.cpp`, `EventLoopThread.cpp`, `Thread.cpp`, `Mutex.h`, `Condition.h` | `LoopPool`: serves when all loops run, hands out the one used least, closed when all are over |
| `TcpServer` | `TcpServer.cpp`, `Acceptor.cpp`, the destructors of both and of their loops; EXTENDS `EPollPoller` | `ConnectionLife`: accepted, up, down, about to go, out of the poller, destroyed |
| `PollingServer`, `MCPollingServer` | `pollingserver.cpp`, `Polling.cpp` | |
| `*Proofs` | the theorems about the module they are named for | |

Names follow the code (`m_pendingFuntors` included). Each action is a function
of the code, or the part of it up to the next point at which another thread or
a callback can get in; the comment above the action says which. In every module
the operators whose comment starts with "Mutant" are never used by the
specification: each is a plausible bug in the definition below it, with which
the named property fails.

**EventLoop.** `pc` is where the loop's thread is: outside `loop`, at the test of
`m_bquit`, in `epoll_wait`, dispatching, inside a callback, swapping, calling
functors. The push under the mutex (or the store to `m_bquit`) and the write to
the eventfd by another thread are two steps. User code on the loop's thread may
queue, run, quit, add and remove handlers at every callback. The poll's timeout
is the action `PollNothing`, which has no fairness: what is shown to happen
happens without waiting ten seconds, except for `UnannouncedFunctorRuns`, which
takes a fair timeout as its hypothesis. `ImplementsTaskQueue` maps the queue to
`tmpFunctors \o m_pendingFuntors`.

**Buffer.** Member functions are operators on a record of the three fields, so
that `makeSpace`, `readFd` with its second buffer on the stack, and the others
can be used from each other as in the code. `Unread` is what `peek` shows; the
refinement maps `ByteQueue`'s sequence to it.

**TcpConnection.** The socket is a counter of bytes (`sndbuf`), the input a
counter of chunks. Each byte of output is distinct, so order is visible.
`revents` are the flags of one event still to be looked at, in `Handler`'s
order. `write` may take everything that fits, part of it or nothing, and fails
as a socket does when the peer has reset the connection or the sending side is
shut (`SIGPIPE`, which nothing in the code ignores: `process = "sigpipe"`).
`NDEBUG` says whether `assert` is compiled in. The run that must pass sets it,
because two of the assertions do fail (section 5) and would otherwise end every
interesting behaviour: up to a failing assertion both builds take the same
steps. The runs that show those failures leave it unset, as the Makefile does.

**EPollPoller.** A handler is an address; addresses and descriptors are used
again. `handlers`, `m_handlermap` and `epoll` are the three records of one
registration. Owners do what all owners in the code do: no `removeHandler` with
interest left or twice, no destruction of a registered handler. The connection
that breaks this rule is `TcpServer`'s business.

**EventLoopThreadPool.** One owner thread and N threads that run `threadFunc`.
`threadPc` tells whether the loop object, a local variable of `threadFunc`,
exists. `SpuriousWakeup` lets the wait end without a notification. The look at
`m_ploop` (`FindsNoLoop`) and the wait (`WaitForLoop`) are two steps, so that it
is the mutex, and not the grain of the model, that keeps a notification from
falling between them. `ImplementsLoopPool` maps a loop to "running" from its
publication until its thread has left `threadFunc`, and the program counter of
the owner to one of four phases.

**TcpServer.** A connection is the address of its handler. `Holders` computes
who has a `TcpConnectionPtr` to it; `Drop` destroys it when the last one goes.
`UserKeeps` says whether the user stores the pointer it is given in the
connection callback, as servers with a table of clients do; `UserWaits`,
whether it keeps it until the functors that other threads' `send` queued, and
that bind the bare `this`, have run; `MessagesFit`, whether a socket takes every
message at once, or never (its peer does not read), so that the rest is
buffered and the handler asks to write. `server` follows the end of
`test_TcpServer`: the base loop returns and the body of `~TcpServer` runs. The
members go from the last declared to the first (`TcpServer.h:38-49`):
`m_connections` and the callbacks (43-49) while the io loop may still be in a
callback, which is harmless because of the server it reads `m_ploop` only and the
connections have copies of the callbacks; then the pool (42), which quits and
joins the io loop, whose functors left uncalled are destroyed with it; then the
acceptor (41). The base loop's own functors go last. `Stage` maps an address
to `ConnectionLife`: who has no connection is at "none"; a callback that runs
says which ("up", "down", and "destroyed" for the one that line 174 of
`TcpConnection.cpp` makes of `connectionDestroyed`); between callbacks `m_state`
and the handler's `m_state` tell. The same address comes round again.

**PollingServer.** A client stands for the descriptor of its one connection.
`batch` is what the last `epoll_wait` reported and `LtModel` has not looked at;
between two of its events clients may do anything. `WriteKills` and `WaitFails`
are the two ways in which one client, or a signal, ends the process.

## 3. The runs

| run | instance | shows |
|---|---|---|
| `EventLoop` | 2 functors, 1 other thread, 2 handlers, eventfd up to 1, event list of 1 | `NoStalledFunctor`, `NoStalledQuit`, `NoStaleDispatch`, `ImplementsTaskQueue`, `QuitStopsLoop`, `QueuedFunctorRuns`, `ReadyHandlerServed`, `UnannouncedFunctorRuns` |
| `Buffer_queue` | 2 bytes, prepend 2, size 2, second buffer 2, at most 3 unread | `TypeOK`, `BoundedGrowth`, `PrependRoomKept`, `ImplementsByteQueue` |
| `TcpConnection` | the loop's thread and one other send and shut down, messages of 2 and 3 bytes, a socket of 2, one chunk of input | `NothingLost`, `WriteInterest`, `MessagesWhileUp`, `InputBeforeDown`, `ImplementsOutputStream`, `OutputDrains`, `ShutdownSendsFin`, `PeerLeavesConnectionDestroyed` |
| `EPollPoller` | 3 addresses, 3 descriptors | `AssertionsHold`, `NoDanglingPointer`, `InterestKept` |
| `EventLoopThreadPool` | 2 threads | `NoLostWakeup`, `NoLostQuit`, `ImplementsLoopPool`, `StartReturns`, `JoinReturns` |
| `TcpServer` | 2 connections' addresses and 2 descriptors beside the acceptor's, 3 peers, 1 message; `UserKeeps`, `UserWaits`, `MessagesFit` | `ImplementsConnectionLife`, `NoDanglingMapEntry`, `UsedConnectionsLive`, `NoAbort`, `TeardownClosesDescriptors`, `ClosedConnectionFreed`, `BacklogDrains`, `TeardownCompletes` |
| `PollingServer` | 3 clients with 2, 1 and 0 requests, 2 keys, 2 descriptors, sockets that hold 1 answer | `OneAnswerPerRequest`, `LeakOnlyAfterEnd`, `FreshAnswers`, `RequestAnswered` |
| `TcpConnection_sendAssert`, `TcpConnection_closeAssert`, `EventLoopThreadPool_quit`, `TcpServer_reuse`, `TcpServer_send` | | the violations of section 5 |

Why these bounds are enough to be interesting. With two functors one runs, or
waits in the swapped batch, while the other is pushed; an eventfd that saturates
at one makes the second of two writes fail. An event list of one with two ready
handlers (and the wakeup handler) makes the list grow. The buffer's constants
reach every branch of `makeSpace` and `readFd`, growing and moving included. In
a socket of two bytes a message of two just fits, one of three is written in
part, and the second of two messages finds the socket full (EAGAIN). Two
addresses and two free descriptors for three connections force both to be used
again, and a third connection to meet EMFILE. With two descriptors for three
clients `PollingServer` meets EMFILE too, and the client with two requests may
leave its first answer unread.

Deadlock is checked where the system never stops (`EventLoop`, `Buffer`,
`EPollPoller`). The other models stop when their bounds are used up, the process
has died or everything was destroyed, and say so in their `.cfg`.

## 4. Fairness

- `EventLoop`: the loop's thread keeps running (weak fairness of everything it
  does unasked) and a thread that has pushed a functor goes on to `wakeup`.
  User actions, the peers' and the poll's timeout have none; the code does time
  out, after `kPollTimeMs`, but only `UnannouncedFunctorRuns` leans on it, and
  says so in its formula.
- `TcpConnection`: the loop polls once and runs its functors once per iteration.
  The model abstracts the iteration away, so this is strong fairness of each.
  Callbacks return, calls in progress are finished, the base loop runs its
  functors, and the peer reads. A peer that never reads leaves output unsent,
  in the code as in the model.
- `EventLoopThreadPool`: the owner finishes the call it is in, the threads run,
  and a free mutex is not withheld from one side for ever (strong fairness of
  the two locks). No spurious wakeup, timeout or user action is assumed.
- `TcpServer`: both loops run, and the user drops a pointer to a connection it
  was told is down. A user that keeps it for ever keeps the descriptor too. A
  thread inside `send` finishes it, and once the base loop has returned the
  destructors take their next step when they can (`TeardownCompletes` says that
  they come to their end). That the base loop returns is not assumed.
- `PollingServer`: `Run` goes on (weak fairness of `Wait` and `LtModel`), and
  clients read their answers. A client that does not read is not answered twice.

## 5. Where the code disagrees with itself

1. `TcpConnection_sendAssert`: `assert(remaining < len)` (`TcpConnection.cpp:123`)
   fails on any `send` that writes nothing, for instance when earlier output is
   pending, although the lines below it are there to buffer that data.
2. `TcpConnection_closeAssert`: `handleClose` is entered again in state
   `kDisconnected` (`TcpConnection.cpp:245`): a functor queued by `send` before
   the close runs after it and enables writing, which registers the handler anew.
3. `EventLoopThreadPool_quit`: `~EventLoopThread` calls `quit` on a loop that is
   gone if the loop was quit before, as `test_EventLoopThread` does
   (`main.cpp:70`); and within one `quit` the loop may go between the store and
   the wakeup.
4. `TcpServer_reuse`: `newConnection` never stores the connection. With a user
   that keeps no pointer either (as `main.cpp` does not) the connection is
   destroyed, still registered, right after it was established, or after the last
   of its write-complete functors (`onWriteComplete` in `main.cpp:106` sends
   again, so that a peer that reads can prolong that chain). The next connection
   on the same descriptor fails the assertion of `EPollPoller.cpp:60`.
5. `TcpServer_send`: the functor that `send` queues on another thread
   (`TcpConnection.cpp:71`) may run behind `connectionDestroyed`. If the socket
   does not take the whole message, it enables writing on the handler that was
   just removed; nobody removes it again, and the same assertion fails when the
   descriptor is used again, although this user keeps its pointer long enough.

Other behaviour that is modelled as it is and that no comment contradicts: the
stray semicolon in `TcpConnection.cpp:174` makes every connection report "down"
twice (the third callback of `ConnectionLife`); a `quit` before `loop` starts is forgotten (`EventLoop.cpp:65`, the
exception in `NoLostQuit` and `JoinReturns`); a functor queued by the loop's own thread before
`loop` waits for the first event or timeout (the exception in `NoStalledFunctor`;
`UnannouncedFunctorRuns` bounds the wait). Output that is still buffered when a
peer closes its sending side is dropped (`TcpConnection.cpp:194`). A user
that drops its pointer when it is told that a connection is down, as it may
expect to be allowed, frees a connection whose `send` functor still waits: with
`UserWaits = FALSE` TLC finds the violation of `UsedConnectionsLive`. A
`TcpServer` destroyed on a base loop that runs on would be used by a
`removeConnectionInLoop` queued before; the model destroys it after the loop has
returned, as `test_TcpServer` does. In `PollingServer` all connections share
`m_key`, so that with two keys an answer may count the wrong one
(`FreshAnswers` speaks of one key in use); a client that closes costs a
descriptor for good (`LeakOnlyAfterEnd` bounds it to that case); a signal during
`epoll_wait`, or a client that closes and then resets, ends the process.

## 6. What is proved

All theorems hold for every value of the constants that the `ASSUME`s of the
module admit (`EventLoopAssumption`, `BufferAssumption`, `EPollPollerAssumption`,
`PoolAssumption`, `TcpConnectionAssumption`, `TcpServerAssumption`,
`PollingServerAssumption`; `TaskQueue` needs none). No theorem rests on anything
else, except that four of those about `TcpServer` state in their text what they
assume of the user.

- `EventLoopProofs`. `IInv` is `TypeOK`, `PhasesDistinct` (which program phase
  sets which flag), `AnnouncedBeforePoll`, `NoStalledQuit` and `NoStaleDispatch`. `NoStalledFunctor`
  speaks of `pc = "poll"` alone and is not inductive: `AnnouncedBeforePoll`
  extends it to the phases that lead to the poll without passing
  `m_doPendingFunctors`. `NoStalledQuit` is inductive as it stands, because the
  test of `m_bquit` comes right before the poll and only the dispatch behind it
  reads the eventfd. Refinement of `TaskQueue` is proved by steps: the swap
  is a stutter, a push appends to the tail of the concatenation, a call removes
  its head.
- `TaskQueueProofs`: the queue loses and repeats nothing. With the refinement
  this gives `EachFunctorOnce` for the loop.
- `BufferProofs`. `BInv` is `TypeOK`, `BoundedGrowth` and the bound on unread
  bytes, on which growth depends. One lemma per member function says what it
  does to `Unread`, to the size and to the room for `prepend`. From these come
  the refinement of `ByteQueue`, the bound on the vector, and `MoveIsForward`,
  which is the assertion in `makeSpace`.
- `EPollPollerProofs`. `IInv` adds `Ownership` (one live handler per open
  descriptor), `Mapped` (the map has exactly the handlers that are not `kNew`)
  and `Watched` (the interest list has exactly those that are `kAdded`, with
  their events). The types and the three invariants of the run follow. The
  theorems assume the owners' discipline described in section 2.
- `EventLoopThreadPoolProofs`. `Handshake` ties the owner's progress to the
  threads' (a loop is published only by a thread that exists, and `start` passes
  a thread only after it published); `Exclusion` says where `m_mutex` is held;
  `Waiting` what the owner has seen under it, from which `NoLostWakeup` follows;
  `Quitting` that from its first half on a destructor's `quit` is in `m_bquit`
  or was forgotten, from which `NoLostQuit` follows; `Joined` which threads are
  over; `Rounds` that the loops below `m_next` are one call ahead of the rest.
  The refinement of `LoopPool` uses all of them: the last `LoopStarted` is its
  `Serve` (by `Handshake`), `GetNextLoop` its `Use` (by `Rounds`), the last
  `Join` its `Closed` (by `Joined`), and a thread's publication and exit are its
  `Begin` and `End`. Nothing is assumed about loops being used only while they
  exist: a use of one that is gone sets `dangling` and ends the behaviour, which
  the refinement covers.
- `TcpConnectionProofs`. `ConnInv` adds to the types and `WriteInterest` what
  holds them together: `connectionEstablished` is the first functor and runs once
  (`EstablishedOnce`), `connectionDestroyed` waits only for a connection that is
  down (`DestroyedAfterClose`), the handler asks for input exactly while the
  connection is up (`ReadInterest`), what the flags of the event at hand still
  promise (`EventFlags`: a hang-up without readable data means that nothing is
  left to read), and `NothingLost`, `written \o outputBuffer = taken`. `SendStep`
  and `WriteStep` say what `sendInLoop` and `handleWrite` do to the bytes. All
  safety properties of the run follow, and the refinement of `OutputStream`:
  `sendInLoop` is its `Accept`, `handleWrite` its `Deliver` or `Finish`,
  `shutdownInLoop` its `Finish` (nothing is unsent then, by `WriteInterest` and
  `NothingLost`) and `handleClose` its `Close`. `NDEBUG` is any value: the proofs
  cover the build with assertions, which the passing run does not.
- `TcpServerProofs`, in three layers.
  `LifeInv` holds whatever the user does: exactly the connections somebody has a
  `TcpConnectionPtr` to exist (`LiveIffHeld`), which descriptors are open
  (`Descriptors`), how far the acceptor is registered, that the kernel's list
  leads to live handlers (`KernelLive`: one destroyed unremoved takes its
  descriptor with it), and what is over in which phase of the destruction. From
  it follow the types and `TeardownClosesDescriptors`, for every user.
  `SendersWait` adds, for a user that keeps its pointer until the functors of
  `send` have run (`UserWaits`), that each such functor finds the user holding
  the connection; `UsedConnectionsLive` follows.
  `ServerInv` is for `CarefulUser`, `UserKeeps /\ MessagesFit`. Each part is
  needed: without the first connections die too early, without the second
  the finding `TcpServer_send` is a counterexample (section 5). While the io loop
  runs, `EPollPollerProofs`' own `IInv` holds too: its steps are reused lemma by
  lemma, and what makes it survive the destruction of a connection is
  `Registered`: a connection in the map has its user, or is on its way through
  `connectionDestroyed`, so that the last pointer goes behind `removeHandler`.
  When that loop has stopped, only `Ownership` remains, which is all that the
  destructors need. `NoAbort` and `NoDanglingMapEntry` follow.
  The refinement of `ConnectionLife` adds `InOrder`: a connection has at most one
  `connectionEstablished`, one removal and one `connectionDestroyed` under way,
  each only in the states of `m_state` in which it may come, so that a functor
  left over from an earlier connection at the address never meets a new one.
- `PollingServerProofs`. `IInv` adds `Lives` (the two ends of a connection agree),
  `RoomKept` (an event reported as writable still is when `LtModel` comes to it,
  so that the EAGAIN branch of `m_handleSendFd` is dead) and `Counted` (with one
  key, no answer exceeds its count, and who waits has seen only smaller ones),
  from which `FreshAnswers` follows.

The types of every module but `Buffer`, `DisconnectedForGood` (only the
unsynchronised `shutdown` of another thread takes `m_state` out of
`kDisconnected`), `LoopsStarted`, `RoundRobin` (both follow from `LoopPool` as
well), `LiveIffHeld`, `KernelLive` and `EachFunctorOnce` are proved for every
instance and have no run.

Only model-checked: the liveness properties (they rest on fairness, outside the
prover's reach) and the violations.

## 7. Not modelled

Failure of `pthread_create`, `epoll_create1`, `bind` or `listen` (only printed by
the code); `accept` errors other than EMFILE (with ENFILE, ENOBUFS or ENOMEM
`Acceptor::handleRead` does nothing and the loop spins); a second `start` before
the queued `listen` has run, which listens twice; member functions called on the
wrong thread, which `assertInLoopThread` does not notice; the contents of
messages, and how the network cuts them; addresses, formatting, logging, socket
options; `timestamp.h`, which measures and prints; `main` and the clients, which
only decide what the environment of the modules does. `Buffer::swap`,
`Condition::waitForSeconds` and the high-water callback are never used, and
`PollingServer`'s edge-triggered variant is commented out.

## 8. What could follow

1. `TcpServer` with several io loops: today one map stands for all pollers, which
   is sound because descriptors are unique, but the end of a server joins one
   loop only.
2. What `OutputStream`, `LoopPool` and `ConnectionLife` promise, as theorems about
   them: the bytes on the wire are a prefix of the accepted ones.
3. An abstract specification of `PollingServer`: a counter per key.
