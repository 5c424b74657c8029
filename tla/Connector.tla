----------------------------- MODULE Connector -----------------------------
(***************************************************************************)
(* Connector.cpp and TcpClient.cpp: what drives the Connector, takes over  *)
(* the connection it establishes and lets go of both in ~TcpClient().      *)
(*                                                                         *)
(* The loop's thread is at lpc:                                            *)
(*   "poll"            in epoll_wait()                                     *)
(*   "error", "write"  in handleEvent() of the Connector's channel, at the *)
(*                     tests of EPOLLERR and EPOLLOUT in revents_          *)
(*   "start"           at the entry of startInLoop(), which retry(),       *)
(*                     restart() and the owner's start() call on the spot; *)
(*                     it returns to "back"                                *)
(*   "pending"         in doPendingFunctors(), or in any other callback    *)
(* Other threads store connect_ and queue a functor; whatever runs between *)
(* the two might as well run before the store. Assertions are compiled in, *)
(* as in the CMake build.                                                  *)
(*                                                                         *)
(* Descriptors are numbers; the process starts with 0, 1 and 2.            *)
(***************************************************************************)
EXTENDS Naturals, Sequences, FiniteSets, InetAddress

CONSTANTS
  Servers,       \* the servers, as <<ip, port>>
  MaxAttempts,   \* bound on the sockets the Connector creates
  MaxCalls       \* bound on the calls of connect() and stop() in the queue

ASSUME BoundsAssumption == MaxAttempts \in Nat /\ MaxCalls \in Nat

\* uint16_t
Ports == 0 .. 65535

ASSUME ServersAssumption == Servers \subseteq (IPv4 \cup IPv6) \X Ports

VARIABLES
  lpc, back, revents_,
  state_, connect_,       \* of the Connector
  channel_,               \* the descriptor of channel_'s object, 0 for none
  registered,             \* is that channel in the poller?
  pendingFunctors_,       \* of the loop
  left,                   \* how many of them this doPendingFunctors() still runs
  attempts,               \* sockets created so far
  opened,                 \* open sockets
  status,                 \* of each attempt: "connecting", "failed" or, when it
                          \* is connected, the local <<ip, port>>
  asked, serverAddr_,     \* the server, as the user names it / as InetAddress
  clientConnect_, retry_, \* connect_ and retry_ of the TcpClient
  connection_,            \* descriptor of its TcpConnection, 0 for none
  closeCallback_,         \* of that: TcpClient's, or detail::removeConnection
  died,                   \* is the TcpClient destroyed, "idle" or "busy"?
  handed,                 \* sockets given to newConnectionCallback_
  fault                   \* what has ended the program

loopVars == <<lpc, back, revents_>>
queueVars == <<pendingFunctors_, left>>
sockVars == <<attempts, opened, status>>
chan == <<channel_, registered>>
connectorVars == <<state_, connect_, chan>>
owned == <<asked, serverAddr_, retry_>>
userVars == <<owned, clientConnect_, died>>
connVars == <<connection_, closeCallback_>>
clientVars == <<connVars, handed, userVars>>
outside == <<sockVars, clientVars, fault>>
vars == <<loopVars, connectorVars, queueVars, outside>>

Sockets == 3 .. (2 + MaxAttempts)

\* The ways to make the InetAddress of a server, with any value of the flags.
Constructed(ip, port) ==
  LET bare == {PortAddress(port, l, b) : l, b \in BOOLEAN}
  IN {setScopeId(IpAddress(ip, port, b), 2) : b \in BOOLEAN}
       \cup {addr \in bare : toIp(addr) = ip}
       \cup {resolve(addr, ip) : addr \in {a \in bare : ip \in IPv4}}

\* connect() to an unspecified address reaches this host.
Reached(ip) == CASE ip = "0.0.0.0" -> "127.0.0.1" [] ip = "::" -> "::1" [] OTHER -> ip

\* The endpoint that connect(serverAddr_) reaches.
KernelPeer ==
  <<Reached(IF serverAddr_.family = "AF_INET" THEN serverAddr_.word ELSE serverAddr_.addr6),
    (serverAddr_.port % 256) * 256 + serverAddr_.port \div 256>>

\* Local ends of a connection: an ephemeral port, or the server's own.
Locals == {<<KernelPeer[1], 1024>>, KernelPeer}

ConnectorFunctors == {"start", "stop", "reset"}

TypeOK ==
  /\ lpc \in {"poll", "error", "write", "start", "pending"}
  /\ back \in {"write", "pending"}
  /\ revents_ \subseteq {"ERR", "OUT"}
  /\ state_ \in {"kDisconnected", "kConnecting", "kConnected"}
  /\ channel_ \in {0} \cup Sockets
  /\ pendingFunctors_ \in Seq(ConnectorFunctors \cup {"setCloseCallback", "forceClose", "destroyed"})
  /\ left \in 0 .. Len(pendingFunctors_)
  /\ attempts \in 0 .. MaxAttempts
  /\ status \in [Sockets -> {<<"connecting">>, <<"failed">>} \cup Locals]
  /\ asked \in Servers
  /\ connect_ \in BOOLEAN /\ registered \in BOOLEAN
  /\ clientConnect_ \in BOOLEAN /\ retry_ \in BOOLEAN
  /\ connection_ \in {0, 1} /\ closeCallback_ \in {"client", "detail"}
  /\ died \in {"no", "idle", "busy"}
  /\ opened \subseteq Sockets /\ handed \subseteq Sockets
  /\ fault \in {"none", "assertState", "assertChannel", "assertWrite", "LOG_ERROR", "useAfterFree"}

Init ==
  /\ lpc = "pending" /\ back = "pending" /\ revents_ = {}
  /\ state_ = "kDisconnected" /\ connect_ = FALSE
  /\ channel_ = 0 /\ registered = FALSE
  /\ pendingFunctors_ = <<>> /\ left = 0
  /\ attempts = 0 /\ opened = {}
  /\ status = [s \in Sockets |-> <<"connecting">>]
  /\ asked \in Servers /\ serverAddr_ \in Constructed(asked[1], asked[2])
  /\ clientConnect_ = TRUE /\ retry_ \in BOOLEAN
  /\ connection_ = 0 /\ closeCallback_ = "client"
  /\ died = "no" /\ handed = {}
  /\ fault = "none"

-----------------------------------------------------------------------------
\* What getsockname() and getpeername() store for an endpoint.
SockName(endpoint) ==
  LET port == (endpoint[2] % 256) * 256 + endpoint[2] \div 256
  IN IF endpoint[1] \in IPv6
     THEN [ZeroAddress EXCEPT !.family = "AF_INET6", !.port = port, !.addr6 = endpoint[1]]
     ELSE [ZeroAddress EXCEPT !.family = "AF_INET", !.port = port, !.word = endpoint[1]]

Connected(s) == Len(status[s]) = 2

SelfConnected(s) ==
  Connected(s) /\ isSelfConnect(SockName(status[s]), SockName(KernelPeer))

\* The loop's thread is at this point, in a Connector that exists.
At(point) == fault = "none" /\ lpc = point /\ (lpc \in {"error", "write", "start"} => died = "no")

\* Mutant of RemoveAndResetChannel: the channel's fd is only removed.
RemoveOnly ==
  /\ registered' = FALSE
  /\ UNCHANGED queueVars

\* removeAndResetChannel(): the object stays until resetChannel() runs.
RemoveAndResetChannel ==
  /\ registered' = FALSE
  /\ pendingFunctors_' = Append(pendingFunctors_, "reset")
  /\ UNCHANGED left

\* startInLoop() is called now and returns to "point".
CallStartInLoop(point) == lpc' = "start" /\ back' = point

\* Mutant of Close: the socket stays open.
CloseNever(sockfd) == UNCHANGED <<opened, status>>

\* sockets::close(): the kernel forgets the socket.
Close(sockfd) ==
  /\ opened' = opened \ {sockfd}
  /\ status' = [status EXCEPT ![sockfd] = <<"connecting">>]

\* retry()
Retry(sockfd, point) ==
  /\ Close(sockfd)
  /\ state_' = "kDisconnected"
  /\ IF connect_ THEN CallStartInLoop(point) ELSE lpc' = point /\ UNCHANGED back

-----------------------------------------------------------------------------
(***************************************************************************)
(* startInLoop(), connect() and connecting().                              *)
(***************************************************************************)

\* assert(state_ == kDisconnected), and the LOG_ERROR of "do not connect".
StartFails ==
  /\ At("start")
  /\ \/ state_ # "kDisconnected" /\ fault' = "assertState"
     \/ state_ = "kDisconnected" /\ ~connect_ /\ fault' = "LOG_ERROR"
  /\ UNCHANGED <<loopVars, connectorVars, queueVars, sockVars, clientVars>>

MayConnect ==
  /\ At("start")
  /\ state_ = "kDisconnected" /\ connect_
  /\ attempts < MaxAttempts
  /\ attempts' = attempts + 1

NewSocket == 3 + attempts

\* socket() fails: LOG_ERROR.
SocketFails ==
  /\ At("start")
  /\ state_ = "kDisconnected" /\ connect_
  /\ fault' = "LOG_ERROR"
  /\ UNCHANGED <<loopVars, connectorVars, queueVars, sockVars, clientVars>>

\* Mutant of EnableWriting: the channel is not registered.
EnableWritingNever == UNCHANGED registered

\* channel_->enableWriting() on a new channel.
EnableWriting == registered' = TRUE

\* connect() succeeds or is in progress: connecting().
Connecting ==
  /\ MayConnect
  /\ channel_ = 0
  /\ opened' = opened \cup {NewSocket}
  /\ state_' = "kConnecting"
  /\ channel_' = NewSocket
  /\ EnableWriting
  /\ lpc' = back
  /\ UNCHANGED <<back, revents_, connect_, queueVars, status, clientVars, fault>>

\* assert(!channel_) in connecting()
ConnectingFails ==
  /\ MayConnect
  /\ channel_ # 0
  /\ opened' = opened \cup {NewSocket}
  /\ state_' = "kConnecting"
  /\ fault' = "assertChannel"
  /\ UNCHANGED <<loopVars, connect_, chan, queueVars, status, clientVars>>

\* connect() fails with ECONNREFUSED, ENETUNREACH, ...: retry() at once.
ConnectRefused ==
  /\ MayConnect
  /\ Retry(NewSocket, back)
  /\ UNCHANGED <<revents_, connect_, chan, queueVars, clientVars, fault>>

\* connect() fails with EACCES, ...: the socket is closed.
ConnectGivesUp ==
  /\ MayConnect
  /\ lpc' = back
  /\ UNCHANGED <<back, revents_, connectorVars, queueVars, opened, status, clientVars, fault>>

-----------------------------------------------------------------------------
(***************************************************************************)
(* poll() and the channel's callbacks.                                     *)
(***************************************************************************)

\* A connection attempt ends: established, connected to itself, or refused.
AttemptEnds(s) ==
  /\ fault = "none"
  /\ s \in opened
  /\ status[s] = <<"connecting">>
  /\ \E r \in Locals \cup {<<"failed">>} : status' = [status EXCEPT ![s] = r]
  /\ UNCHANGED <<loopVars, connectorVars, queueVars, attempts, opened, clientVars, fault>>

Ready ==
  IF ~registered \/ status[channel_] = <<"connecting">> THEN {}
  ELSE {"OUT"} \cup (IF status[channel_] = <<"failed">> THEN {"ERR"} ELSE {})

Poll ==
  /\ At("poll")
  /\ died # "no" => Ready = {}
  /\ revents_' = Ready
  /\ lpc' = IF Ready = {} THEN "pending" ELSE "error"
  /\ left' = Len(pendingFunctors_)
  /\ UNCHANGED <<back, connectorVars, pendingFunctors_, outside>>

HandleError ==
  /\ At("error")
  /\ "ERR" \in revents_ /\ state_ = "kConnecting"
  /\ RemoveAndResetChannel
  /\ Retry(channel_, "write")
  /\ UNCHANGED <<revents_, connect_, channel_, attempts, clientVars, fault>>

NoError ==
  /\ At("error")
  /\ ~("ERR" \in revents_ /\ state_ = "kConnecting")
  /\ lpc' = "write"
  /\ UNCHANGED <<back, revents_, connectorVars, queueVars, outside>>

\* TcpClient's newConnectionCallback_: std::bind(&newConnection, this, 1)
\* drops the socket it is called with.
NewConnectionFd(sockfd) == 1

\* TcpClient::newConnection(), called with the socket.
NewConnection(sockfd) ==
  /\ handed' = handed \cup {sockfd}
  /\ connection_' = NewConnectionFd(sockfd)
  /\ closeCallback_' = "client"

\* handleWrite() on a connection that was refused or made to itself.
WriteRetries ==
  /\ At("write")
  /\ state_ = "kConnecting"
  /\ status[channel_] = <<"failed">> \/ SelfConnected(channel_)
  /\ RemoveAndResetChannel
  /\ Retry(channel_, "pending")
  /\ UNCHANGED <<revents_, connect_, channel_, attempts, clientVars, fault>>

\* handleWrite() on an established connection: handed over, or closed. The new
\* TcpConnection registers its descriptor, for which epoll_ctl() may fail.
WriteConnected ==
  /\ At("write")
  /\ state_ = "kConnecting"
  /\ status[channel_] # <<"failed">> /\ ~SelfConnected(channel_)
  /\ RemoveAndResetChannel
  /\ state_' = "kConnected"
  /\ \/ /\ connect_
        /\ NewConnection(channel_)
        /\ fault' \in {fault, "LOG_ERROR"}
        /\ UNCHANGED <<opened, status>>
     \/ /\ ~connect_
        /\ Close(channel_)
        /\ UNCHANGED <<connVars, handed, fault>>
  /\ lpc' = "pending"
  /\ UNCHANGED <<back, revents_, connect_, channel_, attempts, userVars>>

\* handleWrite() otherwise: assert(state_ == kDisconnected)
WriteIgnored ==
  /\ At("write")
  /\ state_ # "kConnecting"
  /\ lpc' = "pending"
  /\ fault' = IF state_ = "kDisconnected" THEN fault ELSE "assertWrite"
  /\ UNCHANGED <<back, revents_, connectorVars, queueVars, sockVars, clientVars>>

-----------------------------------------------------------------------------
(***************************************************************************)
(* doPendingFunctors().                                                    *)
(***************************************************************************)
RunNext(f) ==
  /\ At("pending")
  /\ left > 0
  /\ Head(pendingFunctors_) = f
  /\ f \in ConnectorFunctors => died = "no"

Dequeued == pendingFunctors_' = Tail(pendingFunctors_) /\ left' = left - 1

RunStart ==
  /\ RunNext("start")
  /\ Dequeued
  /\ CallStartInLoop("pending")
  /\ UNCHANGED <<revents_, connectorVars, outside>>

\* stopInLoop()
RunStop ==
  /\ RunNext("stop")
  /\ left' = left - 1
  /\ \/ /\ state_ = "kConnecting"
        /\ registered' = FALSE
        /\ pendingFunctors_' = Append(Tail(pendingFunctors_), "reset")
        /\ Retry(channel_, "pending")
     \/ /\ state_ # "kConnecting"
        /\ pendingFunctors_' = Tail(pendingFunctors_)
        /\ UNCHANGED <<lpc, back, state_, registered, opened, status>>
  /\ UNCHANGED <<revents_, connect_, channel_, attempts, clientVars, fault>>

\* resetChannel()
RunReset ==
  /\ RunNext("reset")
  /\ Dequeued
  /\ channel_' = 0
  /\ UNCHANGED <<loopVars, state_, connect_, registered, outside>>

PendingDone ==
  /\ At("pending")
  /\ left = 0
  /\ lpc' = "poll"
  /\ revents_' = {}
  /\ UNCHANGED <<back, connectorVars, queueVars, outside>>

-----------------------------------------------------------------------------
(***************************************************************************)
(* TcpClient.                                                              *)
(***************************************************************************)
Client == fault = "none" /\ died = "no"

\* connect() in the loop's thread.
OwnerConnect ==
  /\ Client /\ At("pending")
  /\ clientConnect_' = TRUE
  /\ connect_' = TRUE
  /\ CallStartInLoop("pending")
  /\ UNCHANGED <<revents_, state_, chan, queueVars, sockVars, connVars, handed, owned, died,
                 fault>>

\* connect() in another thread.
OtherConnect ==
  /\ Client
  /\ Len(pendingFunctors_) < MaxCalls
  /\ clientConnect_' = TRUE
  /\ connect_' = TRUE
  /\ pendingFunctors_' = Append(pendingFunctors_, "start")
  /\ UNCHANGED <<loopVars, state_, chan, left, sockVars, connVars, handed, owned, died, fault>>

\* Mutant of StopQueued: stopInLoop() is not queued.
StopNotQueued == pendingFunctors_

StopQueued == Append(pendingFunctors_, "stop")

\* stop() in any thread.
Stop ==
  /\ Client
  /\ Len(pendingFunctors_) < MaxCalls
  /\ clientConnect_' = FALSE
  /\ connect_' = FALSE
  /\ pendingFunctors_' = StopQueued
  /\ UNCHANGED <<loopVars, state_, chan, left, sockVars, connVars, handed, owned, died, fault>>

\* disconnect(): the Connector is left alone.
Disconnect ==
  /\ Client
  /\ clientConnect_' = FALSE
  /\ UNCHANGED <<loopVars, connectorVars, queueVars, sockVars, connVars, handed, owned, died,
                 fault>>

\* Connector::restart(), in the loop.
Restart ==
  /\ state_' = "kDisconnected"
  /\ connect_' = TRUE
  /\ CallStartInLoop("pending")

\* handleClose() of the TcpConnection, before which pendingFunctors_ is this,
\* calls removeConnection(): the connection is let go and destroyed, and
\* restart() called, perhaps.
RemoveConnection(queue) ==
  /\ connection_' = 0
  /\ pendingFunctors_' = Append(queue, "destroyed")
  /\ \/ closeCallback_ = "client" /\ retry_ /\ clientConnect_ /\ Restart
     \/ /\ ~(closeCallback_ = "client" /\ retry_ /\ clientConnect_)
        /\ UNCHANGED <<lpc, back, state_, connect_>>

\* The peer closes the connection.
ConnectionCloses ==
  /\ At("pending")
  /\ connection_ # 0
  /\ closeCallback_ = "client" => died = "no"
  /\ RemoveConnection(pendingFunctors_)
  /\ UNCHANGED <<revents_, chan, left, sockVars, closeCallback_, handed, userVars, fault>>

\* Mutant of SetCloseCallback: the closeCallback_ is left as it is.
KeepCloseCallback == closeCallback_

SetCloseCallback == "detail"

\* Does ~TcpClient() leave the Connector's channel or functors behind?
Busy ==
  \/ registered \/ lpc \in {"error", "write", "start"}
  \/ \E i \in DOMAIN pendingFunctors_ : pendingFunctors_[i] \in ConnectorFunctors

\* ~TcpClient() in the loop's thread: a connection that nobody else holds is
\* closed by force, another one lives on. The Connector is destroyed.
OwnerDestroy ==
  /\ Client /\ At("pending")
  /\ died' = IF Busy THEN "busy" ELSE "idle"
  /\ IF connection_ = 0 THEN UNCHANGED <<pendingFunctors_, closeCallback_>>
     ELSE /\ closeCallback_' = SetCloseCallback
          /\ \E unique \in BOOLEAN : pendingFunctors_' =
               IF unique THEN Append(pendingFunctors_, "forceClose") ELSE pendingFunctors_
  /\ UNCHANGED <<loopVars, connectorVars, left, sockVars, connection_, handed, owned,
                 clientConnect_, fault>>

\* ~TcpClient() in another thread queues setCloseCallback().
OtherDestroy ==
  /\ Client
  /\ died' = "busy"
  /\ IF connection_ = 0 THEN UNCHANGED pendingFunctors_
     ELSE LET queue == Append(pendingFunctors_, "setCloseCallback")
          IN \E unique \in BOOLEAN :
               pendingFunctors_' = IF unique THEN Append(queue, "forceClose") ELSE queue
  /\ UNCHANGED <<loopVars, connectorVars, left, sockVars, connVars, handed, owned, clientConnect_,
                 fault>>

\* What is left of a dead TcpClient and its Connector is used: by the poller,
\* by a handler or functor, or through the closeCallback_.
UseAfterFree ==
  /\ fault = "none" /\ died # "no"
  /\ \/ lpc \in {"error", "write", "start"}
     \/ lpc = "poll" /\ Ready # {}
     \/ lpc = "pending" /\ left > 0 /\ Head(pendingFunctors_) \in ConnectorFunctors
     \/ lpc = "pending" /\ connection_ # 0 /\ closeCallback_ = "client"
  /\ fault' = "useAfterFree"
  /\ UNCHANGED <<loopVars, connectorVars, queueVars, sockVars, clientVars>>

RunSetCloseCallback ==
  /\ RunNext("setCloseCallback")
  /\ Dequeued
  /\ closeCallback_' = SetCloseCallback
  /\ UNCHANGED <<loopVars, connectorVars, sockVars, connection_, handed, userVars, fault>>

\* Mutant of StillOpen: tests kConnected only, which forceClose() has changed.
StillOpenConnected == FALSE

\* if (state_ == kConnected || state_ == kDisconnecting)
StillOpen == connection_ # 0

\* forceCloseInLoop(), unless the connection is down by now.
RunForceClose ==
  /\ RunNext("forceClose")
  /\ left' = left - 1
  /\ \/ /\ StillOpen
        /\ closeCallback_ = "client" => died = "no"
        /\ RemoveConnection(Tail(pendingFunctors_))
     \/ /\ ~StillOpen
        /\ pendingFunctors_' = Tail(pendingFunctors_)
        /\ UNCHANGED <<lpc, back, state_, connect_, connection_>>
  /\ UNCHANGED <<revents_, chan, sockVars, closeCallback_, handed, userVars, fault>>

\* connectDestroyed()
RunDestroyed ==
  /\ RunNext("destroyed")
  /\ Dequeued
  /\ UNCHANGED <<loopVars, connectorVars, outside>>

-----------------------------------------------------------------------------
LoopStep ==
  \/ StartFails \/ SocketFails \/ Connecting \/ ConnectingFails
  \/ ConnectRefused \/ ConnectGivesUp
  \/ Poll \/ HandleError \/ NoError \/ WriteRetries \/ WriteConnected \/ WriteIgnored
  \/ RunStart \/ RunStop \/ RunReset \/ PendingDone
  \/ RunSetCloseCallback \/ RunForceClose \/ RunDestroyed \/ UseAfterFree

Next ==
  \/ LoopStep
  \/ OwnerConnect \/ OtherConnect \/ Stop \/ Disconnect \/ OwnerDestroy \/ OtherDestroy
  \/ ConnectionCloses
  \/ \E s \in Sockets : AttemptEnds(s)

Spec == Init /\ [][Next]_vars

\* The loop keeps running, until the bound on its sockets stops it.
FairSpec == Spec /\ WF_vars(LoopStep)

-----------------------------------------------------------------------------
(***************************************************************************)
(* Properties.                                                             *)
(***************************************************************************)

\* The Connector's state says what the poller has: its channel is registered
\* exactly while it is connecting, and then belongs to an open socket that
\* nobody else uses. So poll() reports nothing of an attempt that is over, and a
\* stop() or error during the attempt finds its channel. (handleWrite() may still
\* see the old revents_ after handleError() has ended the attempt.)
ChannelWhileConnecting ==
  TypeOK /\ (fault = "none" =>
    /\ registered <=> state_ = "kConnecting"
    /\ registered => channel_ \in opened \ handed)

\* The Connector closes what it does not hand over, whatever fails and whenever
\* stop() comes: apart from the sockets given to newConnectionCallback_, the only
\* open one is that being connected. (The sockets handed over are TcpClient's,
\* which drops them.)
UnhandedSocketsClosed ==
  fault = "none" => opened \ handed = IF registered THEN {channel_} ELSE {}

\* A queued resetChannel() destroys the channel it was queued for and never
\* the channel of a later attempt: one is queued exactly while the old object
\* waits, out of the poller, to be destroyed.
ResetForOldChannel ==
  fault = "none" =>
    Cardinality({i \in DOMAIN pendingFunctors_ : pendingFunctors_[i] = "reset"})
      = IF channel_ # 0 /\ ~registered THEN 1 ELSE 0

\* stop() ends a connection attempt in progress, unless connect() follows.
StopEndsAttempt ==
  ~connect_ /\ state_ = "kConnecting"
    ~> connect_ \/ state_ # "kConnecting" \/ fault # "none"

\* TcpClient.h says that the Connector reconnects again and again, so that
\* client and server may start in any order: a connection attempt that fails
\* is followed by another one.
RetryIsPossible == fault # "assertChannel"

\* The InetAddress can hold the server's address. It cannot after
\* InetAddress("1.2.3.4", port, true), where inet_pton() fails, nor when resolve()
\* stores an IPv4 address in one for IPv6: these denote this host.
Fits == serverAddr_.family = IF asked[1] \in IPv6 THEN "AF_INET6" ELSE "AF_INET"

\* A socket that the Connector hands over is connected, and not to itself,
\* which a connect() to a port of this host may do: the comparison of its two
\* ends sees that in either family, whatever the InetAddress denotes. Where the
\* InetAddress fits, the other end is the server asked for, under the name that
\* toIpPort() gives it, in whichever way it was made.
HandedIsServer ==
  \A s \in handed :
    /\ Connected(s) /\ status[s] # KernelPeer
    /\ Fits => KernelPeer = <<Reached(asked[1]), asked[2]>> /\ toIpPort(serverAddr_) = asked

\* ~TcpClient() in the loop's thread, when no attempt is in progress and none
\* of the Connector's functors queued, leaves nothing behind that would use
\* the dead objects.
DestroyedCleanly == fault = "useAfterFree" => died = "busy"

\* A connection that ~TcpClient() closes by force goes down and is destroyed.
OrphanDestroyed ==
  LET Queued(f) == \E i \in DOMAIN pendingFunctors_ : pendingFunctors_[i] = f
  IN Queued("forceClose") ~> (connection_ = 0 /\ ~Queued("destroyed")) \/ fault # "none"
=============================================================================
