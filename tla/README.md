# simple_muduo in TLA+

simple_muduo is a C++11 reduction of the muduo network library: one event loop
per thread, non-blocking sockets behind epoll, and callbacks. This directory
holds TLA+ models of it, the TLC configurations that check them, and proofs for
TLAPS. Every definition is written from the source; `PROJECT.json` maps each to
its lines.

## The system

| Component | State | Operations | Correct when |
|---|---|---|---|
| EventLoop | `quit_`, `pendingFunctors_`, `callingPendingFunctors_`, the eventfd | `loop`, `quit`, `runInLoop`, `queueInLoop`, `wakeup`, `doPendingFunctors` | functors run once, in order; the loop never sleeps on work; `quit()` ends it |
| TimerQueue, Timer | `timers_` by time, `activeTimers_` by id, `cancelTimers_`, heap objects | `addTimer`, `cancelTimer`, `runTimer`, `getExpiredTimers` | the indexes agree; each Timer has one owner; nothing fires early or twice; a cancel that finds its timer holds |
| Poller, EPollPoller, Channel | `channels_`, `index_`, `events_`, the kernel's epoll set | `updateChannel`, `removeChannel`, `poll`, the setters of `events_` | `index_` says what the kernel has; `poll()` reports living channels only; no ready one starves |
| Buffer | `buffer_`, `readerIndex_`, `writerIndex_` | `append`, `prepend`, `retrieve`, `retrieveAsString`, `readFd` | it is a byte queue; indices stay in bounds; it grows only when it must |
| TcpConnection | `state_`, `outputBuffer_`, channel, reference count | `send`, `shutdown`, `forceClose`, four handlers, `connectEstablished`, `connectDestroyed` | the stream is in order; the FIN follows the bytes; it goes down once and is freed after leaving the poller |
| TcpServer, Acceptor, EventLoopThreadPool | `connections_`, the listening channel, the spare descriptor, `loops_`, `next_` | `start`, `newConnection`, `removeConnection`, destructor, `Acceptor::handleRead`, `getNextLoop` | every connection is spread, forgotten, destroyed in its loop and closed; no descriptor leaks; clients are answered when descriptors run out |
| Connector, TcpClient | `state_`, `connect_`, `channel_`, `retry_`, `connection_` | `connect`, `stop`, `disconnect`, `restart`, `retry`, handlers, destructor | one attempt at a time; a socket that is not handed over is closed; `stop()` ends an attempt; what is handed over is connected to the server; destruction leaves nothing behind |
| EventLoopThread, Thread | `loop_`, mutex and condition | `startLoop`, `threadFunc`, destructor | the handshake ends with a live loop; destruction joins the thread and uses nothing that is gone |
| InetAddress | a union of `sockaddr_in` and `sockaddr_in6` | constructors, `toIpPort`, `resolve`, `setScopeId`; `isSelfConnect` of SocketsOps | the kernel reads from it the server that was asked for |
| UdpSocket | its channel | `start`, destructor | the channel it leaves in the poller harms nobody |
| Socket, SocketsOps, Logger | descriptors | wrappers of system calls | - |

How they interact. `loop()` computes a timeout from `TimerQueue`, calls
`Poller::poll()`, calls `Channel::handleEvent()` of each active channel, then
`TimerQueue::runTimer()`, then `doPendingFunctors()`. Channels call back into
`TcpConnection`, `Connector` and `Acceptor`. Other threads reach a loop only
through `runInLoop()`/`queueInLoop()`/`quit()` and through members they read
directly (`state_`, `connect_`). `TcpServer` and `TcpClient` are called back
by connections through bare pointers. `LOG_ERROR` aborts, and the CMake build
keeps assertions: both are ends of the program in the models.

What is hard here: the unlocked functor queue, the order of queueing, swapping
and waking; callbacks that change what is being iterated over (channels,
timers); stale values (`now` sampled before `poll()`, old `revents_`, `state_`
read in another thread); lifetimes held by `shared_ptr`, by bare `this` and by
queued functors; retries that overlap with clean-up. `PROJECT.json` lists these
under `hazards`, each with its line.

## Modules

**EventLoop** models the owner's thread and any number of other threads.
`queueInLoop()` takes three steps (enter `emplace_back`, leave it, decide about
`wakeup()`), because nothing makes it atomic: its `unique_lock` is built with
`std::defer_lock`. Accesses that overlap are a data race, so `EmplaceBack` then
chooses among the outcomes of a torn `emplace_back`: stored, lost, stored over
the last element, or a crash. Each stage of `loop()` is an action. In callbacks
the owner may queue and quit. `ran`, `emplaced`, `early` and `raced` are
history. A signal may interrupt `poll()`.

**TimerQueue** has the part of `loop()` that drives it, with a clock in ticks.
The owner's calls act at once, other threads' go through the queue. `heap` and
`alive` follow the Timer objects; `low` says whether one lies below `INT_MAX`,
which the pivot of `getExpiredTimers()` depends on. A failed assertion sets
`aborted`.

**Buffer** follows the code operation by operation over a record of the three
members, so that `readFd` calls `append` calls `ensureWritableBytes` calls
`makeSPace` as in the source. **ByteQueue** is the abstract specification: a
sequence of bytes to which bytes are added at either end and which leave from
the front. `writeFd` reads the buffer only.

**Poller** puts `EPollPoller` and `Channel` over a model of the kernel's epoll
set: level-triggered, with `EPOLLHUP` reported unasked, at most as many events
as the array holds, and `EINTR`. Two rules that the classes above keep are
guards: one registered channel per descriptor, and destruction only after
`remove()`. A `UdpSocket` breaks the second: its destructor closes the
descriptor and destroys the channel without `remove()`, so that `channels_`
keeps a dead pointer until the descriptor is used again; the kernel then has
forgotten the descriptor, which is why nothing fails. Channels are destroyed by
functors and by handlers. A channel is on the list of active channels until its
`handleEvent()` has returned, so a handler may destroy one that `loop()` is in,
or still has to call (`~TcpServer()`, `~Acceptor()`, `~UdpSocket()`): the model
goes on to `HandleDead`, where the program is taken to end. `freed` is history:
the channels destroyed since `poll()`. A new channel at the address of one that
was destroyed has no `revents_` and is passed over. One more way to break the
second rule is outside the module: a Connector destroyed during an attempt
(`~TcpClient()`) leaves its registered channel to the poller; that is
`useAfterFree` in `Connector`.

**TcpConnection** models one connection: the four tests of
`handleEventWithGuard()` on one `revents_`, the handlers, the functors of the
loop (which of them hold a `shared_ptr` decides `Alive`), other threads whose
`send`, `shutdown` and `forceClose` are split between reading `state_`, storing
it and queueing, and the peer: data, FIN, reset. The server's `connections_`
and destructor are included, for a connection in the server's own loop and in
one of a pool (`server.threadPool()->start()`; `TcpServer::start()` itself
never starts the pool). Between `poll()` and `handleEvent()` (`lpc` = "active")
the handlers of other channels come: they may use the connection, let it go,
or destroy the server, and with it perhaps the channel (`HandleDead`). Faults
are `died` (SIGPIPE or abort) and `useAfterFree`.

**Connector** models the Connector together with TcpClient. `startInLoop()` is
a place of its own because `retry()`, `restart()` and `start()` call it on the
spot. Sockets are numbered, so that leaks can be seen; the local end of a
connection may be the server's own address (a self-connection). `socket()` may
fail, and so may the `epoll_ctl()` of the new TcpConnection, whose descriptor is
1 (see below): both abort. `~TcpClient()`
comes at any moment in either kind of thread, with the connection up, going
down, or held by somebody else: the `closeCallback_` is exchanged, the
connection closed by force or left alone, and the Connector dies under its
channel and its queued functors, if it has any (`useAfterFree`).

**InetAddress**, which `Connector` extends, has the addresses as operators:
the union in which `sin_addr` and `sin6_flowinfo` share their bytes, ports in
network byte order, the constructors with `fromIpPort()`, `resolve()`,
`toIpPort()` and `isSelfConnect()`. `Constructed` (in `Connector`) has every way
to make the InetAddress of a server, the wrong ones included: an IPv4 text with
the flag `ipv6`, which `inet_pton()` cannot read, leaves `::`; `resolve()` into
an InetAddress made for IPv6 writes over `sin6_flowinfo` and leaves `::` or
`::1`. Both denote this host. `Fits` tells these from the others.

**EventLoopThread** models the thread that owns the object and the thread it
starts, step by step: `sem_wait`, the mutex, `cond_.wait()` with spurious
wakeups, the publication of `loop_`, `loop()`, the end of `threadFunc()`, and a
destructor that reads `loop_` twice without the lock. `quit()` may be called
by the init callback, by callbacks and by user code.

**TcpServer** models the server with its Acceptor and pool: several clients,
a base loop and the loops of the pool, each with its queue, and the process's
descriptors, which other code takes and gives back. `Acceptor::handleRead()` is
one step when `accept()` succeeds, and four system calls with others in between
when it fails with EMFILE. A connection is reduced to its states; what happens
inside one is in `TcpConnection`.

**ConnectionLife** is the abstract specification of a connection of a server:
accepted, up, down at most once, forgotten by the server and only then gone. As
long as the server exists it forgets only what is down; its end, which comes
once, forgets all.
`TcpServer` implements it for all its connections and loops (`ConnectionsLive`),
`TcpConnection` for one connection with its handlers, stale events, buffers and
functors (`ConnectionLives`): the two views of a connection agree.

The queue of functors is taken to be FIFO in `TimerQueue`, `TcpConnection` and
`Connector`; `EventLoop` shows that it is as long as accesses do not overlap.
There and in those modules `EINTR` is an iteration in which the event comes
after `poll()`.

## Runs

| Run | Shows |
|---|---|
| `event_loop` | no sleep on work, FIFO and exactly once, pending functors run, `quit()` ends the loop; 3 threads, 2 functors |
| `event_loop_race` (violation) | the unlocked queue loses a functor or crashes |
| `timer_queue` | indexes, ownership, cancels that find their timer, never early, one-shot once, due timers fire; 2 timers, 4 instants |
| `buffer` | a byte queue that grows only when it must |
| `poller` | index and kernel agree and `epoll_ctl` never fails, also after a UdpSocket has closed its descriptor under its channel; a dead channel is among the active ones only when a handler of the same round has destroyed it; every ready channel is reported again and again although the array starts with one event; 2 channels, 2 descriptors |
| `tcp_connection` | EPOLLOUT while buffered, the FIN after exactly the bytes sent, `shutdown()` and the peer's FIN are carried through; the loop, another thread, the peer |
| `tcp_connection_owner` | used in its own thread only, in the server's loop or another, `~TcpServer()` at any moment: messages that meet a partly flushed buffer stay in order, down once, dies only of a reset, removed from the poller first, never forgotten without `connectDestroyed()`; implements `ConnectionLife` |
| `tcp_connection_late` (violation) | a queued `send()` writes after the FIN or the close |
| `connector` | channel registered while connecting, every socket that is not handed over is closed, `resetChannel()` meets its own channel, what is handed over is connected, not with itself, and to the server asked for where the InetAddress fits, an idle client is destroyed cleanly, `stop()` ends the attempt, a connection closed by force is destroyed; 3 sockets, 3 calls, an IPv4 and an IPv6 server |
| `connector_retry` (violation) | `retry()` fails `assert(!channel_)` |
| `event_loop_thread` | `startLoop()` returns a live loop and does return; the destructor gets through `join()` and uses nothing that is gone, but for the cases its properties name |
| `tcp_server` | descriptors are accounted for and the spare one kept, round robin, sockets closed after `connectDestroyed()`, `ConnectionLife`, clients answered, connections released; 3 clients, up to 2 loops, 3 descriptors, one other user of them |

Five type invariants are conjuncts of one invariant of the run
(`IndexesAgree`, `IndexMirrorsKernel`, `WritingWhileBuffered`,
`ChannelWhileConnecting`, `DescriptorsAccounted`). All seven are proved.

The violation runs state what a comment of the source says and end in a
counterexample; `findings` quotes the line. Other disagreements between code
and comments are behaviours of the models that no run claims to be absent:

- without a timer `loop()` polls with timeout 0, and `kPollTimeMs`, "the
  default timeout of the Poller", is unused (EventLoop.cpp:20, 111);
- `queueInLoop()` "wakes the loop's thread" (EventLoop.h:36) only for other
  threads and during `doPendingFunctors()`: what the owner queues before
  `loop()` waits for the first `poll()` to return;
- a Timer at an address above `INT_MAX` that is due exactly at `now` sorts
  behind the pivot and fails the assertion at TimerQueue.cpp:120
  (`RunTimerAborts`);
- `disableAll()` on a channel that was never enabled, as in the destructor of
  an Acceptor that did not listen, adds it to the epoll set
  (EPollPoller.cpp:67) until `remove()` follows;
- `send()` from another thread binds the address of the caller's bytes and a
  bare `this` (TcpConnection.cpp:67), although Buffer.h:13 calls it
  thread-safe (byte 0 and `useAfterFree` in `RunSend`);
- `forceClose()` and `shutdown()` from another thread can store
  `kDisconnecting` over `kDisconnected`, after which the connection is closed a
  second time (the FIXME at TcpConnection.cpp:153);
- a `stop()` that overtakes a queued `start()` aborts in `startInLoop()`
  (Connector.cpp:50), although both "can be called in any thread";
- a handler that destroys a channel the loop has still to call, or is in, by
  `~TcpServer()` (TcpServer.cpp:50-61), `~Acceptor()` (Acceptor.cpp:40-46) or
  `~UdpSocket()` (UdpSocket.cpp:20-27): the loop calls a dead channel
  (EventLoop.cpp:119; `HandleDead`);
- `~TcpServer()` inside a handler of a `kDisconnecting` connection that still
  has bytes buffered: `handleWrite()` registers the removed channel again;
- a cancel that overtakes its timer's queued `addTimerInLoop()` finds the timer
  nowhere and is lost (TimerQueue.cpp:59-65): the timer is armed and fires. So
  `CancelledNeverRearmed` counts only the cancels that find their timer;
- `std::bind(&TcpClient::newConnection, this, 1)` (TcpClient.cpp:50) gives the
  TcpConnection descriptor 1 and drops the connected socket, which is never
  closed (`NewConnectionFd`; `handed` sockets stay in `opened`). No property says
  that it is: `UnhandedSocketsClosed` is about the others, and `HandedIsServer`
  about the socket, not about the TcpConnection;
- an InetAddress made from an IPv4 text with `ipv6` set (InetAddress.cpp:50-62),
  or by `resolve()` into one for IPv6 (InetAddress.cpp:91-105), denotes this
  host, without an error: the client connects to whatever listens here;
- a `quit()` between the publication of `loop_` and the `quit_ = false` of
  `loop()` (EventLoop.cpp:88) is overwritten, and `join()` waits for ever
  (`lostQuit`); and the `wakeup()` of a `quit()` may come when the loop has
  seen `quit_` and is gone (EventLoop.cpp:142, fault "late wakeup");
- an init callback or an early callback that quits the loop lets `startLoop()`
  wait for ever (the exception in `StartLoopReturns`);
- `TcpServer::start()` is said to start the threads of the pool
  (TcpServer.cpp:74) and does not; the pool's own `start()` leaks its
  EventLoopThreads; `getAllLoops()` returns the base loop when there are others
  and an empty vector when there are none;
- the Acceptor's first spare descriptor is `dev/null`, a relative path, so there
  is usually none, and when descriptors run out the loop spins on the listening
  socket (`robbed`); `~Acceptor()` never closes the spare descriptor;
- the listening socket is AF_INET and bound with the size of a `sockaddr_in`,
  whatever the InetAddress is; text that `inet_pton()` cannot read becomes
  0.0.0.0 without an error;
- `~TcpClient()` during an attempt, or in another thread while functors are
  queued, leaves callbacks to freed objects ("FIXME: unsafe" in Connector.cpp);
- `UdpSocket::send()` ignores its `peer_addr`; `~UdpSocket()` without `start()`
  dereferences a null `channel_`.

Where a run has liveness properties, all of its properties are checked under
the fair specification, without symmetry.

Bounds. Every bound is a constant: `MaxFunctors`, `MaxTimers`, `MaxTime`,
`MaxRequests`, `MaxContent`, `MaxBytes`, `MaxMessage`, `MaxCloses`,
`MaxAttempts`, `MaxCalls`, `MaxSpurious`, `MaxThreads`, `MaxClients`,
`MaxStarts`, `MaxForeign`, `Limit`, `UdpChans`. They are small but reach the cases that matter: a
functor queued by a functor while another thread queues; a batch of two timers
that cancel each other, two timers due at the same instant and one beyond
the timeout's rounding; buffers of four bytes with two bytes of prepend space,
in which every branch of `makeSPace` and `readFd` is taken, also by reads that
fill the vector exactly; more ready descriptors than the event array holds; a
message that the kernel takes only in part; three sockets, so that a retry
follows a retry; three descriptors for three clients, the spare one and a
stranger, so that `accept()` fails with EMFILE and each of the four system
calls after it can be robbed; a pool that grows while connections exist. In
`poller` one of the two channels may be a UdpSocket's, so that a descriptor
passes from a UdpSocket to a managed channel and back. A third byte, in
`tcp_connection_owner`, lets a message arrive while the kernel has room and the
buffer is not empty.
`SendSpace` and `highWaterMark_` are 1 or 2. In the Buffer the
bounds only limit TLC: the theorems hold for all sizes.
`CHECK_DEADLOCK FALSE` stands where the program can really end (crash, abort)
or where a bound stops it.

Fairness. The owner's steps of `loop()` are weakly fair (threads are
scheduled, callbacks return, `poll()` returns at its timeout), and so is the
rest of a call another thread has begun. Nobody is obliged to call anything. In
`Poller`, `poll()` is strongly fair: not every `epoll_wait()` is interrupted.
In `TcpServer` the running of queued functors is strongly fair: every turn of
`loop()` ends with `doPendingFunctors()`, even when a handler is called in every
turn. In `EventLoopThread` both threads are weakly fair, and user code that
quits or destroys is not obliged to. In `TimerQueue` time passes. In `TcpConnection` the peer keeps reading, without
which a buffered FIN may rightly wait for ever.

## Proofs

Proved with TLAPS, for every value of the constants:

- `EventLoopProofs!TypeCorrect`, `NoLostWakeup`, `Fifo`. Assumptions: the
  owner is not one of the others, `MaxFunctors` is a number.
  `NeverSleepsOnWork` is not inductive. `WakeInv` strengthens it over the part
  of the loop between the swap and the next `handleRead()`: there, pending
  functors that the owner did not queue before `loop()` imply that the eventfd
  is set or that somebody is about to set it (`Woken`); and `quit_` implies the
  same in `poll()`. A step of `queueInLoop()` by the owner needs `ControlInv`,
  which ties `callingPendingFunctors_` to the position of the owner and says
  that the owner calls only from callbacks. In the other part of the loop no
  claim is needed, because the swap is still to come. `FifoInv` adds that the
  local vector is empty outside `doPendingFunctors()` and that nothing is torn
  before the first overlap.
- `BufferProofs!BufferTypes`, `BufferRefines`: the Buffer implements ByteQueue,
  for any byte set and any sizes (`ByteAssumption`, `SizeAssumption`). Lemmas
  say for each helper what it does to the readable bytes: `makeSPace` and
  `ensureWritableBytes` keep them and make room, `append` adds, `retrieve`
  drops a prefix, also when `prepend` has eaten into the cheap space. The
  inductive invariant is the order of the indices within the vector.

- `EventLoopThreadProofs!TypeCorrect`, `StartLoopLive`, `DestructorSafe`, for
  any number of spurious wakeups (`SpuriousAssumption`). `DestroySafe` needs to
  know why the unlocked read of `loop_` is harmless: `LoopInv` says that `loop_`
  is set exactly between the two critical sections of `threadFunc()`,
  `PublishedInv` that whoever has returned from `startLoop()` is past the first
  of them, and `QuietInv` that without a `quit()` of user code `quit_` is not
  set before the destructor sets it, so that the second one has not begun when
  the destructor reads `loop_` for the second time.

- `TimerQueueProofs`: the three invariants and `TriggeredWhenDue`, for any
  number of timers, requests and ticks and any placement of the objects in
  memory. Assumptions: the bounds are numbers, and there is at least one tick
  in a millisecond and one instant after 0. `IndexesAgree` and
  `TimersOwnedOnce` need `MirrorInv` (`timers_` is determined by the armed ids
  and their objects) and `FreshInv` (ids are given out once, so that a new
  timer is not already in an index). `CancelledNeverRearmed` needs to know what
  protects a timer that is in the batch when it is cancelled: `CancelInv` says
  that `cancelTimers_` remembers it, and `BatchInv` that `callingTimesFunctor_`
  is set exactly while there is a batch. `TimeInv` carries `TriggeredWhenDue`:
  the batch is due at the sampled time, and a one-shot timer that has fired is
  neither armed nor queued nor left in the batch. That
  `getNearestExpiration()` finds a timer rests on the well-founded order of the
  naturals.
- `PollerProofs`: `IndexMirrorsKernel` and `DeadByHandlersOnly`, for any
  channels, some of them of UdpSockets, any descriptors and any initial size of
  the event array. Assumptions: there is a descriptor and an interest,
  `EPOLLHUP` is not an interest, the array is not empty. The map and the
  kernel are related in both directions: `AddedInv` from a kAdded channel to
  the kernel, `KernelInv` from a registered descriptor to its channel. `MapInv`
  adds `channels_`, which `removeChannel()` asserts, and `OpenInv` what the
  channels of UdpSockets break: their descriptors leave the epoll set by
  `close()`. `DeadByHandlersOnly` rests on the last: `KernelInv` says that the
  kernel's pointers, which `poll()` puts on the list, are to living channels, and
  `ListInv` that the list is empty when functors run.
- `TcpServerProofs`: `DescriptorsAccounted`, `RoundRobin`,
  `ClosedAfterDestroyed` and the refinement `ConnectionsLive`, for any number
  of clients, loops, calls of `start()`, strangers and descriptors
  (`ServerBounds`, `LimitAssumption`). Descriptors: `CountInv` counts the open
  sockets with the finite-set theorems, through each of the four system calls
  of `Acceptor::handleRead()`; `SpareInv` says that the spare one is back unless
  somebody took it meanwhile. `RoundRobin` is a fact about pairs of
  connections; `PoolInv` gives for each of the last connections its distance
  from `next_` modulo the size of the pool. The life of the connections is an
  invariant of the queues: `FunctorOK` says what is true of a connection while
  a functor is queued for it, `QueueInv` which functor must be queued in which
  state, and that `connectDestroyed()` stands behind `connectEstablished()`.
- `ConnectorProofs`: the five invariants, for any IPv4 and IPv6 servers, any
  ports and any number of attempts and calls (`BoundsAssumption`,
  `ServersAssumption`). `ChannelInv` ties the state, the channel's
  registration and the open sockets together, `ResetInv` counts the
  `resetChannel()` in the queue: one exactly while an object out of the poller
  waits. `EventInv` covers the inside of `handleEvent()`, where `retry()` may
  have begun a new attempt under the old events. `AddressInv` is about
  arithmetic: byte order is an involution on ports, and an InetAddress that fits,
  in whichever way it was made, denotes the same server to the kernel and in
  text; for `isSelfConnect()` it need not fit, so that a self-connection is never
  missed (`HandedInv`). `RestInv` and
  `IdleInv` are what `DestroyedCleanly` needs: no attempt goes on while a
  connection is up, and after a destruction in an idle loop none is queued.
- `TcpConnectionProofs`, in two parts. For any threads that call `send()`,
  `shutdown()` and `forceClose()`, any sizes, and a server that may be
  destroyed (`ServerAssumption`, `SizesAssumption`): `BytesInOrder`,
  `WritingWhileBuffered`, `FinAfterBytes`, `ForgottenIsDestroyed`. The first is
  stronger than what the run checks, which excludes other threads. `WriteInv`
  and `FinInv` are about open connections only: `handleClose()` disables
  EPOLLOUT with bytes in the buffer. The lemmas see the peer, the kernel and
  the buffer as one stream, which grows at its end and moves. For a
  connection used in its loop's thread only (`Sole`, that is `Others = {}`):
  `ClosedOnceAlive`, `ChannelRemovedFirst` and the refinement
  `ConnectionLives`. Other threads may store `kDisconnecting` over
  `kDisconnected`, and the three are false then. `LifeInv` is the invariant:
  `connectEstablished()` is the first functor and nothing has happened before
  it (`EstablishInv`, `ConnectingInv`); a connection that is up is in the
  poller (`UpInv`); one that has gone down is out of it, and what is left of
  `revents_` does not bring `handleClose()` again (`DownInv`);
  `connectDestroyed()` is still to be queued, is queued once, or has run
  (`DestroyInv`); after the FIN nothing is written (`SentInv`), so that only a
  reset raises SIGPIPE (`FaultInv`).
- `BufferProofs!BufferGrowth`: `GrowthIsBounded` for all sizes. The test in
  `makeSPace()` gives the inequality; that `readFd()` appends to a vector that
  it has filled is the case to look at.

With these, every invariant and every action property that a run checks, and
the three refinements, hold for every value of the constants (the last three
of `TcpConnection` for `Others = {}`, as in their run). The runs stay,
since they show in addition that the hazards occur and that each property
fails under a mutated definition.

Only model-checked: the liveness properties (`PendingFunctorRuns`,
`QuitLeavesLoop`, `DueTimerFires`, `ReadyChannelsReported`,
`ShutdownCompletes`, `PeerCloseCompletes`, `StopEndsAttempt`,
`OrphanDestroyed`, `StartLoopReturns`, `DestructorReturns`, `ClientsAnswered`,
`ConnectionsReleased`), which need fairness and ENABLED and are out of the
prover's reach. For them the runs' bounds matter.

## Not modelled

Formatting of times and the punctuation of addresses, logging, socket options,
thread names and ids, queries that change nothing (`getAllLoops`, `hasChannel`),
and the wrappers of SocketsOps that nobody calls (`bindOrDie`, `listenOrDie`,
`accept`, `read`, `readv`, `write`, `shutdownWrite`). `send()` and
`handleRead()` of UdpSocket pass datagrams on and keep no state. The example
programs are demonstrations of select, poll and epoll that use none of the
library's classes, or use only its timers, and are no part of it.
`gettimeofday()` stepping back and timeouts beyond 24.8 days (overflow of
`timeoutMs`) are outside `TimerQueue`. Descriptor 1, on which a TcpClient's
connection is made, is no socket of the model: that `~TcpConnection()` closes
it, after which `socket()` may return it, is left out, as are the bytes written
to it. The epoll and eventfd descriptors of each EventLoop, without which it
aborts, are not counted in `used` of `TcpServer`: `Limit` is what is left when
all loops have theirs. Errors of `accept()` other than EMFILE change nothing
and are stuttering steps; the fairness takes them to end. The depth of the stack in immediate
retries is not modelled.

## Plan

The classes of the library that keep state have their modules, and their
safety properties are proved. What is left:

- the safety part of liveness arguments as invariants of their own, such as
  "a queued functor's loop is awake" of `TcpServer`, or the functors that stand
  between `stop()` and the end of an attempt;
- the first part of `ClosedOnceAlive`, that the connection goes down once and is
  destroyed once, with other threads that only call `send()`, which stores
  nothing in `state_`;
- `EventLoop!FifoExactlyOnce` as the refinement of an abstract queue, so that
  the modules that take the queue to be FIFO could be instances of it.
