--------------------------- MODULE TcpConnection ---------------------------
(***************************************************************************)
(* One TcpConnection of a TcpServer: its state, its output buffer and its  *)
(* channel, between the thread of its loop, other threads that hold a      *)
(* TcpConnectionPtr, and the peer behind the kernel's socket.              *)
(*                                                                         *)
(* The loop's thread is at lpc:                                            *)
(*   "poll"                             in epoll_wait()                    *)
(*   "active"   in the list of active channels, among the handlers of      *)
(*              those before it (user code)                                *)
(*   "close", "error", "read", "write"  in the four tests of               *)
(*              Channel::handleEventWithGuard(), on the revents_ of poll() *)
(*   "message"  in messageCallback_ (user code)                            *)
(*   "swap"     before doPendingFunctors(), among the handlers of other    *)
(*              channels and timers (user code)                            *)
(*   "pending"  in doPendingFunctors(), between functors (user code)       *)
(* A functor bound to shared_from_this() keeps the connection alive until  *)
(* the batch it is in has been destroyed; sendInLoop() and                 *)
(* shutdownInLoop() are bound to a bare "this". The queue of functors is   *)
(* FIFO (module EventLoop shows when that holds).                          *)
(*                                                                         *)
(* Bytes are numbered in the order in which sendInLoop() gets them; 0 is a *)
(* byte read through a dangling pointer.                                   *)
(***************************************************************************)
EXTENDS Naturals, Sequences, FiniteSets

CONSTANTS
  Others,          \* the other threads that hold the connection
  IoLoops,         \* getNextLoop(): the server's own loop ("base"), another ("sub")
  ServerDies,      \* may ~TcpServer() run while connections exist?
  MaxBytes,        \* bound on the bytes given to send()
  MaxMessage,      \* the largest message
  SendSpace,       \* size of the kernel's send buffer
  highWaterMark_,
  MaxCloses        \* bound on the calls of forceClose()

ASSUME ServerAssumption == IoLoops \subseteq {"base", "sub"} /\ ServerDies \in BOOLEAN
ASSUME SizesAssumption ==
  /\ MaxBytes \in Nat /\ MaxMessage \in Nat /\ MaxCloses \in Nat
  /\ SendSpace \in Nat \ {0} /\ highWaterMark_ \in Nat

VARIABLES
  lpc, revents_,
  state_,
  outputBuffer_,
  events_, index_,         \* of channel_
  pendingFunctors_,
  functors, batchRef,      \* the batch: yet to run / binds a shared_ptr?
  ioLoop,                  \* the loop the connection lives in
  connections_,            \* does the server's map hold the connection?
  server,                  \* does the TcpServer exist?
  removals,                \* removeConnectionInLoop() calls on their way
  holders,                 \* threads that hold a TcpConnectionPtr
  call,                    \* where each other thread is in a call
  sndbuf, received,        \* bytes in the kernel / at the peer
  fin,                     \* shutdownWrite() has been called
  inData, peerFin, rst,    \* data, end of stream and reset from the peer
  soError,                 \* is the reset still to be reported by a system call?
  promised,                \* number of bytes given to send() so far
  forced,                  \* number of forceClose() calls so far
  accepted,                \* history: the bytes given to sendInLoop()
  closes, destroys,        \* history: handleClose(), connectDestroyed() calls
  fault                    \* "died": SIGPIPE, or abort() in LOG_ERROR

batch == <<functors, batchRef>>
loopVars == <<lpc, revents_, batch>>
chan == <<events_, index_>>
connVars == <<state_, outputBuffer_, chan>>
queueVars == <<pendingFunctors_, call>>
refVars == <<ioLoop, connections_, server, removals, holders>>
peerVars == <<received, inData, peerFin, rst, soError>>
kernelVars == <<sndbuf, fin, peerVars>>
given == <<promised, forced, accepted>>
history == <<given, closes, destroys>>
others == <<connVars, refVars, queueVars, kernelVars, history, fault>>
vars == <<loopVars, others>>

Owner == "owner"
Functor == [op : {"established", "send", "shutdown", "forceClose", "destroyed", "user"},
            n : 0 .. MaxMessage]
Call == [op : {"idle", "send", "shutdown", "shutdownSet", "forceClose", "forceCloseSet"},
         n : 0 .. MaxMessage]

TypeOK ==
  /\ lpc \in {"poll", "active", "close", "error", "read", "message", "write", "swap", "pending"}
  /\ revents_ \subseteq {"IN", "OUT", "HUP", "ERR"}
  /\ state_ \in {"kDisconnected", "kConnecting", "kConnected", "kDisconnecting"}
  /\ outputBuffer_ \in Seq(Nat)
  /\ events_ \subseteq {"read", "write"} /\ index_ \in {"kNew", "kAdded", "kDeleted"}
  /\ pendingFunctors_ \in Seq(Functor) /\ functors \in Seq(Functor) /\ batchRef \in BOOLEAN
  /\ ioLoop \in IoLoops
  /\ connections_ \in BOOLEAN /\ server \in BOOLEAN /\ removals \in Nat
  /\ holders \subseteq Others \cup {Owner}
  /\ call \in [Others -> Call]
  /\ sndbuf \in Seq(Nat) /\ Len(sndbuf) <= SendSpace
  /\ received \in Seq(Nat) /\ accepted \in Seq(Nat)
  /\ fin \in BOOLEAN /\ inData \in BOOLEAN /\ peerFin \in BOOLEAN
  /\ rst \in BOOLEAN /\ soError \in BOOLEAN
  /\ promised \in 0 .. MaxBytes /\ forced \in 0 .. MaxCloses
  /\ closes \in 0 .. 2 /\ destroys \in 0 .. 2
  /\ fault \in {"none", "died", "useAfterFree"}

Bound(op) == [op |-> op, n |-> 0]

\* The constructor: the channel is not in the poller yet.
Constructed == state_ = "kConnecting" /\ events_ = {} /\ index_ = "kNew"

\* newConnection() has run: connectEstablished() has been called, when the
\* connection lives in the server's loop, or waits in the queue of its own.
Init ==
  /\ ioLoop \in IoLoops
  /\ \/ /\ ioLoop = "base" /\ lpc = "swap"
        /\ state_ = "kConnected" /\ events_ = {"read"} /\ index_ = "kAdded"
        /\ pendingFunctors_ = <<>>
        /\ holders = Others \cup {Owner}
     \/ /\ ioLoop = "sub" /\ lpc = "poll"
        /\ Constructed
        /\ pendingFunctors_ = <<Bound("established")>>
        /\ holders = {}
  /\ revents_ = {} /\ functors = <<>> /\ batchRef = FALSE
  /\ outputBuffer_ = <<>>
  /\ connections_ = TRUE /\ server = TRUE /\ removals = 0
  /\ call = [t \in Others |-> Bound("idle")]
  /\ sndbuf = <<>> /\ received = <<>> /\ fin = FALSE
  /\ inData = FALSE /\ peerFin = FALSE /\ rst = FALSE /\ soError = FALSE
  /\ promised = 0 /\ forced = 0 /\ accepted = <<>>
  /\ closes = 0 /\ destroys = 0
  /\ fault = "none"

-----------------------------------------------------------------------------
Running == fault = "none"

\* Functors that hold a TcpConnectionPtr.
Shared(f) == f.op \in {"established", "forceClose", "destroyed", "user"}

Elements(queue) == {queue[i] : i \in DOMAIN queue}

Holding(queue) == \E i \in DOMAIN queue : Shared(queue[i])

\* Channel::handleEvent() locks tie_ for as long as it calls handlers.
InHandleEvent == lpc \in {"close", "error", "read", "message", "write"}

\* The reference count is positive.
Alive ==
  \/ connections_ \/ removals > 0 \/ holders # {}
  \/ Holding(pendingFunctors_) \/ Holding(functors) \/ batchRef
  \/ InHandleEvent

\* A counter of which only "none", "one" and "more" matter.
More(n) == IF n < 2 THEN n + 1 ELSE n

Prefix(s, k) == SubSeq(s, 1, k)
Rest(s, k) == SubSeq(s, k + 1, Len(s))
Least(m, n) == IF m <= n THEN m ELSE n

\* Channel::update(), as in module Poller.
Update(evs) ==
  /\ events_' = evs
  /\ index_' = IF index_ = "kAdded" /\ evs = {} THEN "kDeleted" ELSE "kAdded"

-----------------------------------------------------------------------------
(***************************************************************************)
(* The handlers, as operators on the connection's part of the state.       *)
(***************************************************************************)

\* Mutant of DirectWrite: does not look at what is buffered.
DirectWriteAlways == TRUE

\* if (!channel_->isWriting() && outputBuffer_.readableBytes() == 0)
DirectWrite == "write" \notin events_ /\ outputBuffer_ = <<>>

\* write() fails with EPIPE or ECONNRESET: SIGPIPE, or LOG_ERROR.
WriteFails ==
  /\ DirectWrite
  /\ fin \/ rst
  /\ fault' = "died"
  /\ UNCHANGED <<outputBuffer_, chan, pendingFunctors_, sndbuf, accepted>>

\* write() takes everything: writeCompleteCallback_ is queued.
WrittenAll(bytes) ==
  /\ DirectWrite
  /\ ~fin /\ ~rst
  /\ Len(bytes) <= SendSpace - Len(sndbuf)
  /\ sndbuf' = sndbuf \o bytes
  /\ accepted' = accepted \o bytes
  /\ pendingFunctors_' = Append(pendingFunctors_, Bound("user"))
  /\ UNCHANGED <<outputBuffer_, chan, fault>>

Remaining(bytes, nwrote) == Rest(bytes, nwrote)

\* Mutant of EnsureWriting: does not ask for EPOLLOUT.
EnsureWritingNever == UNCHANGED chan

\* if (!channel_->isWriting()) channel_->enableWriting();
EnsureWriting ==
  IF "write" \in events_ THEN UNCHANGED chan
                          ELSE Update(events_ \cup {"write"})

\* write() takes a part, or nothing, or is not called: the rest is buffered,
\* highWaterMarkCallback_ queued and EPOLLOUT asked for.
BufferRest(bytes) ==
  LET nwrote == IF DirectWrite THEN Least(Len(bytes), SendSpace - Len(sndbuf)) ELSE 0
      oldLen == Len(outputBuffer_)
  IN /\ DirectWrite => ~fin /\ ~rst /\ nwrote < Len(bytes)
     /\ sndbuf' = sndbuf \o Prefix(bytes, nwrote)
     /\ outputBuffer_' = outputBuffer_ \o Remaining(bytes, nwrote)
     /\ accepted' = accepted \o bytes
     /\ pendingFunctors_' =
          IF oldLen < highWaterMark_ /\ Len(outputBuffer_') >= highWaterMark_
            THEN Append(pendingFunctors_, Bound("user")) ELSE pendingFunctors_
     /\ EnsureWriting
     /\ UNCHANGED fault

\* sendInLoop(), which only logs when the connection is kDisconnected.
SendInLoop(bytes) == WriteFails \/ WrittenAll(bytes) \/ BufferRest(bytes)

\* Socket::shutdownWrite(). A socket that both sides have closed, or that was
\* reset, may no longer be shut down: LOG_ERROR aborts.
ShutdownWrite ==
  \/ ~rst /\ fin' = TRUE /\ UNCHANGED fault
  \/ (rst \/ (fin /\ peerFin)) /\ fault' = "died" /\ UNCHANGED fin

\* Mutant of ShutdownInLoop: does not wait for the buffer.
ShutdownInLoopNow == ShutdownWrite

\* if(!channel_->isWriting()) socket_->shutdownWrite();
ShutdownInLoop ==
  IF "write" \in events_ THEN UNCHANGED <<fin, fault>> ELSE ShutdownWrite

\* Mutant of QueueDestroyed: the connection is only erased.
QueueDestroyedNever == UNCHANGED pendingFunctors_

QueueDestroyed == pendingFunctors_' = Append(pendingFunctors_, Bound("destroyed"))

\* Mutant of RemoveConnection: closeCallback_ is not called.
RemoveConnectionNever == UNCHANGED <<connections_, removals, pendingFunctors_, fault>>

\* Mutant of RemoveConnection: connectDestroyed() is queued straight away, and
\* the server not told.
RemoveConnectionHere == QueueDestroyed /\ UNCHANGED <<connections_, removals, fault>>

\* TcpServer::removeConnection(), called through a bare pointer to the
\* server: erases the connection and queues connectDestroyed(), at once when
\* the connection lives in the server's loop.
RemoveConnection ==
  \/ /\ server /\ ioLoop = "base"
     /\ connections_' = FALSE
     /\ QueueDestroyed
     /\ UNCHANGED <<removals, fault>>
  \/ /\ server /\ ioLoop = "sub"
     /\ removals' = removals + 1
     /\ UNCHANGED <<connections_, pendingFunctors_, fault>>
  \/ /\ ~server
     /\ fault' = "useAfterFree"
     /\ UNCHANGED <<connections_, removals, pendingFunctors_>>

\* Mutant of SetDisconnected: the state is left as it is.
SetDisconnectedNever == UNCHANGED state_

SetDisconnected == state_' = "kDisconnected"

HandleClose ==
  /\ SetDisconnected
  /\ Update({})
  /\ closes' = More(closes)
  /\ RemoveConnection
  /\ UNCHANGED <<outputBuffer_, ioLoop, server, holders, call, kernelVars, given, destroys>>

\* Mutant of RemoveChannel: the channel stays in the poller.
RemoveChannelNever == UNCHANGED index_

\* channel_->remove(), as in module Poller.
RemoveChannel == index_' = "kNew"

\* connectDestroyed(): disableAll() if still connected, then remove().
ConnectDestroyed ==
  /\ destroys' = More(destroys)
  /\ IF state_ = "kConnected" THEN state_' = "kDisconnected" /\ events_' = {}
                              ELSE UNCHANGED <<state_, events_>>
  /\ RemoveChannel

-----------------------------------------------------------------------------
(***************************************************************************)
(* The loop: poll() and Channel::handleEventWithGuard().                   *)
(***************************************************************************)
At(point) == Running /\ lpc = point

Dies ==
  /\ fault' = "died"
  /\ UNCHANGED <<loopVars, connVars, refVars, queueVars, kernelVars, history>>

\* What epoll_wait() reports for the socket.
Ready ==
  IF index_ # "kAdded" \/ ~Alive THEN {}
  ELSE (IF "read" \in events_ /\ (inData \/ peerFin \/ rst) THEN {"IN"} ELSE {})
    \cup (IF "write" \in events_ /\ (Len(sndbuf) < SendSpace \/ fin \/ rst) THEN {"OUT"} ELSE {})
    \cup (IF (fin /\ peerFin) \/ rst THEN {"HUP"} ELSE {})
    \cup (IF soError THEN {"ERR"} ELSE {})

Poll ==
  /\ At("poll")
  /\ revents_' = Ready
  /\ lpc' = IF Ready = {} THEN "swap" ELSE "active"
  /\ UNCHANGED <<batch, others>>

\* Channel::handleEvent() locks tie_.
HandleEvent ==
  /\ At("active")
  /\ Alive
  /\ lpc' = "close"
  /\ UNCHANGED <<revents_, batch, others>>

\* Another handler has let the connection and its channel go since poll().
HandleDead ==
  /\ At("active")
  /\ ~Alive
  /\ fault' = "useAfterFree"
  /\ UNCHANGED <<loopVars, connVars, refVars, queueVars, kernelVars, history>>

\* (revents_ & EPOLLHUP) && !(revents_ & EPOLLIN)
CloseEvent ==
  /\ At("close")
  /\ lpc' = "error"
  /\ IF "HUP" \in revents_ /\ "IN" \notin revents_ THEN HandleClose ELSE UNCHANGED others
  /\ UNCHANGED <<revents_, batch>>

\* handleError() is a LOG_ERROR.
ErrorEvent ==
  /\ At("error")
  /\ lpc' = "read"
  /\ fault' = IF "ERR" \in revents_ THEN "died" ELSE fault
  /\ UNCHANGED <<revents_, batch, connVars, refVars, queueVars, kernelVars, history>>

\* handleRead(): data, then the end of the stream, or an error. What was there
\* when poll() returned is still there; a reset may have come since.
ReadMessage ==
  /\ At("read")
  /\ "IN" \in revents_ /\ inData
  /\ inData' = FALSE
  /\ lpc' = "message"
  /\ UNCHANGED <<revents_, batch, connVars, refVars, queueVars, sndbuf, fin, received, peerFin,
                 rst, soError, history, fault>>

ReadEnd ==
  /\ At("read")
  /\ "IN" \in revents_ /\ ~inData
  /\ peerFin \/ (rst /\ ~soError)
  /\ HandleClose
  /\ lpc' = "write"
  /\ UNCHANGED <<revents_, batch>>

ReadFails ==
  /\ At("read")
  /\ "IN" \in revents_ /\ ~inData /\ soError
  /\ Dies

NoReadEvent ==
  /\ At("read")
  /\ "IN" \notin revents_
  /\ lpc' = "write"
  /\ UNCHANGED <<revents_, batch, others>>

MessageReturns ==
  /\ At("message")
  /\ lpc' = "write"
  /\ UNCHANGED <<revents_, batch, others>>

\* Mutant of PendingShutdown: forgets the shutdown() that waited.
PendingShutdownNever == UNCHANGED <<fin, fault>>

\* if (state_ == kDisconnecting) shutdownInLoop(); EPOLLOUT is no longer asked for.
PendingShutdown ==
  IF state_ = "kDisconnecting" THEN ShutdownWrite ELSE UNCHANGED <<fin, fault>>

\* The rest of handleWrite() after retrieve(n): an empty buffer ends the
\* interest in EPOLLOUT, and carries out the shutdown() that waited for it.
Flushed ==
  \/ /\ outputBuffer_' # <<>>
     /\ UNCHANGED <<chan, pendingFunctors_, fin, fault>>
  \/ /\ outputBuffer_' = <<>>
     /\ Update(events_ \ {"write"})
     /\ pendingFunctors_' = Append(pendingFunctors_, Bound("user"))
     /\ PendingShutdown

\* handleWrite() when the kernel takes bytes.
WriteEvent ==
  /\ At("write")
  /\ "OUT" \in revents_ /\ "write" \in events_
  /\ ~fin /\ ~rst
  /\ LET n == Least(Len(outputBuffer_), SendSpace - Len(sndbuf))
     IN /\ n > 0
        /\ sndbuf' = sndbuf \o Prefix(outputBuffer_, n)
        /\ outputBuffer_' = Rest(outputBuffer_, n)
  /\ Flushed
  /\ revents_' = {}
  /\ lpc' = "swap"
  /\ UNCHANGED <<batch, state_, refVars, call, peerVars, history>>

\* handleWrite() when write() fails: SIGPIPE.
WriteEventFails ==
  /\ At("write")
  /\ "OUT" \in revents_ /\ "write" \in events_
  /\ fin \/ rst
  /\ Dies

\* handleWrite() when write() reports the reset: it is only logged.
WriteEventReset ==
  /\ At("write")
  /\ "OUT" \in revents_ /\ "write" \in events_
  /\ soError
  /\ soError' = FALSE
  /\ revents_' = {}
  /\ lpc' = "swap"
  /\ UNCHANGED <<batch, connVars, refVars, queueVars, sndbuf, fin, received, inData, peerFin, rst,
                 history, fault>>

\* No EPOLLOUT, or nothing left to write: "is down, no more writing".
NoWriteEvent ==
  /\ At("write")
  /\ ~("OUT" \in revents_ /\ "write" \in events_)
  /\ revents_' = {}
  /\ lpc' = "swap"
  /\ UNCHANGED <<batch, others>>

-----------------------------------------------------------------------------
(***************************************************************************)
(* doPendingFunctors().                                                    *)
(***************************************************************************)
Swap ==
  /\ At("swap")
  /\ functors' = pendingFunctors_
  /\ batchRef' = Holding(pendingFunctors_)
  /\ pendingFunctors_' = <<>>
  /\ lpc' = "pending"
  /\ UNCHANGED <<revents_, connVars, refVars, call, kernelVars, history, fault>>

\* The batch is destroyed, and with it the references its functors held.
BatchDone ==
  /\ At("pending")
  /\ functors = <<>>
  /\ batchRef' = FALSE
  /\ lpc' = "poll"
  /\ UNCHANGED <<revents_, functors, others>>

RunNext(op) ==
  /\ At("pending")
  /\ functors # <<>>
  /\ Head(functors).op = op
  /\ functors' = Tail(functors)
  /\ UNCHANGED <<lpc, revents_, batchRef>>

\* connectEstablished(); connectionCallback_ hands the connection out.
RunEstablished ==
  /\ RunNext("established")
  /\ state_' = "kConnected"
  /\ Update(events_ \cup {"read"})
  /\ holders' = Others \cup {Owner}
  /\ UNCHANGED <<outputBuffer_, ioLoop, connections_, server, removals, queueVars, kernelVars,
                 history, fault>>

\* The bytes of a message of length n that are sent next.
NextBytes(n) == [i \in 1 .. n |-> Len(accepted) + i]

\* sendInLoop() for another thread, with the address of that thread's string:
\* the bytes may be gone by now, and so may the connection.
RunSend ==
  /\ RunNext("send")
  /\ LET n == Head(functors).n
     IN \/ /\ Alive
           /\ SendInLoop(NextBytes(n)) \/ SendInLoop([i \in 1 .. n |-> 0])
        \/ /\ ~Alive
           /\ fault' = "useAfterFree"
           /\ UNCHANGED <<outputBuffer_, chan, pendingFunctors_, sndbuf, accepted>>
  /\ UNCHANGED <<state_, refVars, call, fin, peerVars, promised, forced, closes, destroys>>

\* shutdownInLoop() for another thread.
RunShutdown ==
  /\ RunNext("shutdown")
  /\ \/ Alive /\ ShutdownInLoop
     \/ ~Alive /\ fault' = "useAfterFree" /\ UNCHANGED fin
  /\ UNCHANGED <<connVars, refVars, queueVars, sndbuf, peerVars, history>>

\* if (state_ == kConnected || state_ == kDisconnecting)
Closable == state_ \in {"kConnected", "kDisconnecting"}

\* forceCloseInLoop()
RunForceClose ==
  /\ RunNext("forceClose")
  /\ IF Closable THEN HandleClose ELSE UNCHANGED others

RunDestroyed ==
  /\ RunNext("destroyed")
  /\ ConnectDestroyed
  /\ UNCHANGED <<outputBuffer_, refVars, queueVars, kernelVars, given, closes, fault>>

\* writeCompleteCallback_ or highWaterMarkCallback_.
RunUser ==
  /\ RunNext("user")
  /\ UNCHANGED others

RunFunctor ==
  RunEstablished \/ RunSend \/ RunShutdown \/ RunForceClose \/ RunDestroyed \/ RunUser

-----------------------------------------------------------------------------
(***************************************************************************)
(* send(), shutdown() and forceClose() called in the loop's thread.        *)
(***************************************************************************)
OwnerInUserCode ==
  /\ Running
  /\ lpc = "message" \/ (lpc \in {"active", "swap", "pending"} /\ Owner \in holders)

OwnerSend(n) ==
  /\ OwnerInUserCode
  /\ state_ = "kConnected"
  /\ promised + n <= MaxBytes
  /\ promised' = promised + n
  /\ SendInLoop(NextBytes(n))
  /\ UNCHANGED <<loopVars, state_, refVars, call, fin, peerVars, forced, closes, destroys>>

OwnerShutdown ==
  /\ OwnerInUserCode
  /\ state_ = "kConnected"
  /\ state_' = "kDisconnecting"
  /\ ShutdownInLoop
  /\ UNCHANGED <<loopVars, outputBuffer_, chan, refVars, queueVars, sndbuf, peerVars, history>>

OwnerForceClose ==
  /\ OwnerInUserCode
  /\ Closable
  /\ forced < MaxCloses
  /\ forced' = forced + 1
  /\ state_' = "kDisconnecting"
  /\ pendingFunctors_' = Append(pendingFunctors_, Bound("forceClose"))
  /\ UNCHANGED <<loopVars, outputBuffer_, chan, refVars, call, kernelVars, promised, accepted,
                 closes, destroys, fault>>

\* ~TcpServer(): connectDestroyed() at once, or in the connection's loop.
DestroyServer ==
  /\ ServerDies /\ server
  /\ Running
  /\ ioLoop = "base" => lpc \in {"active", "message", "swap", "pending"}
  /\ server' = FALSE
  /\ connections_' = FALSE
  /\ \/ connections_ /\ ioLoop = "base" /\ ConnectDestroyed /\ UNCHANGED pendingFunctors_
     \/ connections_ /\ ioLoop = "sub" /\ QueueDestroyed /\ UNCHANGED <<state_, chan, destroys>>
     \/ ~connections_ /\ UNCHANGED <<state_, chan, pendingFunctors_, destroys>>
  /\ UNCHANGED <<loopVars, outputBuffer_, ioLoop, removals, holders, call, kernelVars, given,
                 closes, fault>>

\* removeConnectionInLoop() in the server's loop, when it is another one.
RemoveConnectionInLoop ==
  /\ Running
  /\ removals > 0
  /\ removals' = removals - 1
  /\ connections_' = FALSE
  /\ QueueDestroyed
  /\ fault' = IF server THEN fault ELSE "useAfterFree"
  /\ UNCHANGED <<loopVars, connVars, ioLoop, server, holders, call, kernelVars, history>>

-----------------------------------------------------------------------------
(***************************************************************************)
(* The same calls in other threads, where other steps come between reading *)
(* state_, storing it and queueing the functor.                            *)
(***************************************************************************)
Calling(t, op) == Running /\ call[t].op = op

Step(t, op, n) == call' = [call EXCEPT ![t] = [op |-> op, n |-> n]]

Begin(t, op, n) ==
  /\ Calling(t, "idle") /\ t \in holders
  /\ Step(t, op, n)
  /\ UNCHANGED <<loopVars, connVars, refVars, pendingFunctors_, kernelVars, closes, destroys, fault>>

BeginSend(t, n) ==
  /\ Begin(t, "send", n)
  /\ state_ = "kConnected"
  /\ promised + n <= MaxBytes
  /\ promised' = promised + n
  /\ UNCHANGED <<forced, accepted>>

BeginShutdown(t) ==
  /\ Begin(t, "shutdown", 0)
  /\ state_ = "kConnected"
  /\ UNCHANGED given

BeginForceClose(t) ==
  /\ Begin(t, "forceClose", 0)
  /\ Closable
  /\ forced < MaxCloses
  /\ forced' = forced + 1
  /\ UNCHANGED <<promised, accepted>>

SetDisconnecting(t) ==
  /\ \/ Calling(t, "shutdown") /\ Step(t, "shutdownSet", 0)
     \/ Calling(t, "forceClose") /\ Step(t, "forceCloseSet", 0)
  /\ state_' = "kDisconnecting"
  /\ UNCHANGED <<loopVars, outputBuffer_, chan, refVars, pendingFunctors_, kernelVars, history,
                 fault>>

\* Where a call is when it has done all but queue its functor.
Stored == [send |-> "send", shutdown |-> "shutdownSet", forceClose |-> "forceCloseSet"]

Queue(t) ==
  /\ \E op \in DOMAIN Stored :
       /\ Calling(t, Stored[op])
       /\ pendingFunctors_' = Append(pendingFunctors_, [op |-> op, n |-> call[t].n])
  /\ Step(t, "idle", 0)
  /\ UNCHANGED <<loopVars, connVars, refVars, kernelVars, history, fault>>

\* A thread lets go of its TcpConnectionPtr.
Release(t) ==
  /\ Running
  /\ t \in holders
  /\ IF t = Owner THEN lpc \in {"active", "message", "swap", "pending"} ELSE call[t].op = "idle"
  /\ holders' = holders \ {t}
  /\ UNCHANGED <<loopVars, connVars, ioLoop, connections_, server, removals, queueVars,
                 kernelVars, history, fault>>

-----------------------------------------------------------------------------
(***************************************************************************)
(* The peer and the network.                                               *)
(***************************************************************************)
Peer == Running /\ ~rst /\ UNCHANGED <<loopVars, connVars, refVars, queueVars, fin, history, fault>>

PeerReads ==
  /\ Peer
  /\ sndbuf # <<>>
  /\ received' = Append(received, Head(sndbuf))
  /\ sndbuf' = Tail(sndbuf)
  /\ UNCHANGED <<inData, peerFin, rst, soError>>

PeerSends ==
  /\ Peer /\ ~peerFin /\ ~inData
  /\ inData' = TRUE
  /\ UNCHANGED <<sndbuf, received, peerFin, rst, soError>>

PeerCloses ==
  /\ Peer /\ ~peerFin
  /\ peerFin' = TRUE
  /\ UNCHANGED <<sndbuf, received, inData, rst, soError>>

PeerResets ==
  /\ Peer
  /\ rst' = TRUE /\ soError' = TRUE
  /\ UNCHANGED <<sndbuf, received, inData, peerFin>>

-----------------------------------------------------------------------------
LoopStep ==
  \/ Poll \/ HandleEvent \/ HandleDead \/ CloseEvent \/ ErrorEvent
  \/ ReadMessage \/ ReadEnd \/ ReadFails \/ NoReadEvent \/ MessageReturns
  \/ WriteEvent \/ WriteEventFails \/ WriteEventReset \/ NoWriteEvent
  \/ Swap \/ RunFunctor \/ BatchDone

OwnerCall == OwnerShutdown \/ OwnerForceClose \/ \E n \in 1 .. MaxMessage : OwnerSend(n)

FinishCall(t) == SetDisconnecting(t) \/ Queue(t)

Next ==
  \/ LoopStep \/ OwnerCall \/ DestroyServer \/ RemoveConnectionInLoop
  \/ \E t \in Others : \/ BeginShutdown(t) \/ BeginForceClose(t) \/ FinishCall(t)
                       \/ \E n \in 1 .. MaxMessage : BeginSend(t, n)
  \/ \E t \in Others \cup {Owner} : Release(t)
  \/ PeerReads \/ PeerSends \/ PeerCloses \/ PeerResets

\* The loops and the calls in progress go on, and the peer keeps reading.
Fairness ==
  /\ WF_vars(LoopStep)
  /\ WF_vars(RemoveConnectionInLoop)
  /\ \A t \in Others : WF_vars(FinishCall(t))
  /\ WF_vars(PeerReads)

Spec == Init /\ [][Next]_vars
FairSpec == Spec /\ Fairness

-----------------------------------------------------------------------------
(***************************************************************************)
(* Properties.                                                             *)
(***************************************************************************)

\* The connection is still on its way down or up: handleClose() and
\* connectDestroyed() have not run.
Open == closes = 0 /\ destroys = 0

\* The bytes that sendInLoop() takes reach the peer in that order, none twice
\* and none left out, although the first write() bypasses the output buffer:
\* the peer, the kernel and the buffer hold exactly them. (Those of a call whose
\* write() fails are not taken: the program dies.)
BytesInOrder == received \o sndbuf \o outputBuffer_ = accepted

\* As long as the connection is open, EPOLLOUT is asked for exactly while
\* bytes are buffered: otherwise they would never leave, or the level-
\* triggered event would spin the loop.
WritingWhileBuffered ==
  TypeOK /\ (Open => (("write" \in events_) <=> (outputBuffer_ # <<>>)))

\* shutdown() does not cut off what was sent before, whichever thread sent it:
\* when the FIN has gone out of an open connection, all the bytes handed to
\* sendInLoop() are with the peer or the kernel, in order.
FinAfterBytes == fin /\ Open => received \o sndbuf = accepted

\* Where only the loop's thread uses the connection, whatever the order of
\* its calls, of the peer's and of stale revents_: the connection goes down
\* at most once, so that closeCallback_ is called at most once, and the
\* program does not die unless the peer resets, and touches no freed object
\* unless the server was destroyed first (closeCallback_ has its address).
ClosedOnceAlive ==
  /\ closes <= 1 /\ destroys <= 1
  /\ fault = "died" => rst
  /\ fault = "useAfterFree" => ~server

\* In the same setting, and as long as the server exists, the poller does not
\* know the channel of a connection that has been destroyed. (~TcpServer()
\* inside a handler does not guarantee it: connectDestroyed() leaves the
\* events of a kDisconnecting channel enabled, and the next disableWriting()
\* of handleWrite() registers it again.)
ChannelRemovedFirst == server /\ ~Alive => index_ = "kNew"

\* The server never forgets a connection whose channel is left behind, even
\* when the connection goes down in one loop while the server is destroyed in
\* another: connectDestroyed(), which removes the channel, has run or is
\* queued in the connection's loop.
ForgottenIsDestroyed ==
  Running /\ ~connections_ =>
    \/ destroys > 0
    \/ Bound("destroyed") \in Elements(pendingFunctors_) \cup Elements(functors)

\* Where the connection is in its life.
Phase ==
  IF destroys > 0 THEN "gone"
  ELSE IF closes > 0 THEN "down"
  ELSE IF state_ = "kConnecting" THEN "connecting" ELSE "up"

\* The connection with its handlers, its stale events and its functors lives
\* the life that TcpServer's loops give it in module TcpServer: up, down once,
\* forgotten, and destroyed only then and once.
Life == INSTANCE ConnectionLife WITH
  Conns <- {1}, listed <- {c \in {1} : connections_}, phase <- [c \in {1} |-> Phase]

ConnectionLives == Life!Spec

\* shutdown() is carried out: after it the FIN goes out once the buffer has
\* been written, unless the connection goes down in another way first.
ShutdownCompletes ==
  state_ = "kDisconnecting" ~> fin \/ ~Open \/ fault # "none"

\* The end of the peer's stream takes the connection down: connectDestroyed()
\* runs and the server forgets the connection.
PeerCloseCompletes ==
  peerFin ~> (destroys > 0 /\ ~connections_) \/ fault # "none"

\* TcpConnection.cpp says that after shutdown() nothing more can be sent:
\* sendInLoop() takes no bytes once the FIN is out or the connection down.
NoSendAfterShutdown ==
  [][accepted' # accepted => ~fin /\ state_ # "kDisconnected"]_vars
=============================================================================
