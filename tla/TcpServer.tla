------------------------------ MODULE TcpServer ------------------------------
(***************************************************************************)
(* TcpServer with its Acceptor and its EventLoopThreadPool: a base loop 0  *)
(* that accepts, the pool's loops 1, 2, ... that the connections are given *)
(* to in turn, and the descriptors of the process, which everybody shares. *)
(*                                                                         *)
(* Each loop runs the functors queued to it in order; a handler or functor *)
(* is one step, except Acceptor::handleRead() when descriptors have run    *)
(* out. The base loop's thread is then at apc, between the system calls:   *)
(*   "close"     before close(idleFd_)                                     *)
(*   "accept"    before idleFd_ = accept(...)                              *)
(*   "closeNew"  before the second close(idleFd_)                          *)
(*   "open"      before idleFd_ = open("/dev/null", ...)                   *)
(* and at "loop" otherwise, in callbacks and user code. Module             *)
(* TcpConnection has the rest of a connection's life.                      *)
(***************************************************************************)
EXTENDS Naturals, Sequences, FiniteSets

CONSTANTS
  MaxThreads,    \* bound on the threads of the pool
  MaxClients,    \* bound on the clients that connect
  MaxStarts,     \* bound on the calls of start()
  MaxForeign,    \* bound on the descriptors the rest of the program opens
  Limit          \* RLIMIT_NOFILE, less what is open all the time and what the
                 \* loops open for themselves, without which they abort

ASSUME ServerBounds ==
  MaxThreads \in Nat /\ MaxClients \in Nat /\ MaxStarts \in Nat /\ MaxForeign \in Nat
ASSUME LimitAssumption == Limit \in Nat \ {0}

VARIABLES
  server,              \* does the TcpServer exist?
  started_, listening,
  loops_, next_,       \* of threadPool_
  nextConnId_,
  connections_,        \* the map; connection names are their numbers
  pendingFunctors_,    \* of each loop
  state_, ioLoop,      \* of each connection
  destroyed,           \* connections whose connectDestroyed() has run
  open,                \* connections whose descriptor is open
  apc, idleFd_,        \* idleFd_: "none", "null" (/dev/null) or "client"
  backlog,             \* clients in the listening socket's queue
  clients,             \* clients so far
  foreign,             \* descriptors of the rest of the program
  used,                \* open descriptors, as the kernel counts them
  grown,               \* history: nextConnId_ when the pool last grew
  robbed,              \* history: could idleFd_ have been lost to others?
  fault                \* a functor or callback used the dead server

serverVars == <<server, started_, listening, loops_, next_, grown>>
connVars == <<nextConnId_, connections_, pendingFunctors_, state_, ioLoop, destroyed>>
clientVars == <<backlog, clients>>
otherVars == <<foreign, robbed>>
fdVars == <<open, apc, idleFd_, used, otherVars>>
vars == <<serverVars, connVars, clientVars, fdVars, fault>>

Conns == 1 .. MaxClients
Loops == 0 .. MaxThreads
Functor == [op : {"established", "remove", "destroyed"}, c : Conns] \cup {[op |-> "listen", c |-> 0]}

TypeOK ==
  /\ server \in BOOLEAN /\ listening \in BOOLEAN /\ robbed \in BOOLEAN /\ fault \in BOOLEAN
  /\ started_ \in 0 .. MaxStarts
  /\ loops_ \in Seq(1 .. MaxThreads)
  /\ IF loops_ = <<>> THEN next_ = 0 ELSE next_ \in 0 .. Len(loops_) - 1
  /\ nextConnId_ \in 1 .. MaxClients + 1 /\ grown \in 1 .. MaxClients + 1
  /\ connections_ \subseteq Conns /\ destroyed \subseteq Conns /\ open \subseteq Conns
  /\ pendingFunctors_ \in [Loops -> Seq(Functor)]
  /\ state_ \in [Conns -> {"none", "kConnecting", "kConnected", "kDisconnected"}]
  /\ ioLoop \in [Conns -> Loops]
  /\ apc \in {"loop", "close", "accept", "closeNew", "open"}
  /\ idleFd_ \in {"none", "null", "client"}
  /\ backlog \in 0 .. MaxClients /\ clients \in 0 .. MaxClients
  /\ foreign \in 0 .. MaxForeign
  /\ used \in 0 .. Limit

\* The constructor opens "dev/null", a relative path that seldom exists.
AcceptorInit ==
  /\ listening = FALSE /\ apc = "loop"
  /\ \/ idleFd_ = "null" /\ used = 1 /\ robbed = FALSE
     \/ idleFd_ = "none" /\ used = 0 /\ robbed = TRUE

PoolInit == loops_ = <<>> /\ next_ = 0 /\ grown = 1

Init ==
  /\ server = TRUE /\ started_ = 0
  /\ AcceptorInit /\ PoolInit
  /\ nextConnId_ = 1
  /\ connections_ = {}
  /\ pendingFunctors_ = [l \in Loops |-> <<>>]
  /\ state_ = [c \in Conns |-> "none"]
  /\ ioLoop = [c \in Conns |-> 0]
  /\ destroyed = {} /\ open = {}
  /\ backlog = 0 /\ clients = 0 /\ foreign = 0
  /\ fault = FALSE

-----------------------------------------------------------------------------
Running == ~fault

\* The thread of loop l is between two handlers or functors.
InLoop(l) == Running /\ (l = 0 => apc = "loop")

Bound(op, c) == [op |-> op, c |-> c]

Queued(l, f) == pendingFunctors_' = [pendingFunctors_ EXCEPT ![l] = Append(@, f)]

-----------------------------------------------------------------------------
(***************************************************************************)
(* start() and the pool.                                                   *)
(***************************************************************************)

\* start() in the base loop's thread, or in another one. The pool is not
\* started.
Start ==
  /\ Running /\ server
  /\ started_ < MaxStarts
  /\ started_' = started_ + 1
  /\ \/ started_ = 0 /\ InLoop(0) /\ listening' = TRUE /\ UNCHANGED pendingFunctors_
     \/ started_ = 0 /\ Queued(0, Bound("listen", 0)) /\ UNCHANGED listening
     \/ started_ > 0 /\ UNCHANGED <<listening, pendingFunctors_>>
  /\ UNCHANGED <<server, loops_, next_, grown, nextConnId_, connections_, state_, ioLoop,
                 destroyed, clientVars, fdVars, fault>>

\* The user calls threadPool()->start() in the base loop's thread, for n
\* threads; each startLoop() returns a new loop (module EventLoopThread).
StartPool(n) ==
  /\ InLoop(0) /\ server
  /\ Len(loops_) + n <= MaxThreads
  /\ loops_' = loops_ \o [i \in 1 .. n |-> Len(loops_) + i]
  /\ grown' = nextConnId_
  /\ UNCHANGED <<server, started_, listening, next_, connVars, clientVars, fdVars, fault>>

\* getNextLoop() returns this loop and stores this index.
NextLoop == IF loops_ = <<>> THEN 0 ELSE loops_[next_ + 1]

\* Mutant of NextIndex: never gets to the last loop.
NextIndexShort == IF loops_ = <<>> \/ next_ + 2 >= Len(loops_) THEN 0 ELSE next_ + 1

NextIndex == IF loops_ = <<>> \/ next_ + 1 >= Len(loops_) THEN 0 ELSE next_ + 1

-----------------------------------------------------------------------------
(***************************************************************************)
(* Acceptor::handleRead() and TcpServer::newConnection().                  *)
(***************************************************************************)
ClientConnects ==
  /\ Running /\ listening
  /\ clients < MaxClients
  /\ clients' = clients + 1
  /\ backlog' = backlog + 1
  /\ UNCHANGED <<serverVars, connVars, fdVars, fault>>

Readable == InLoop(0) /\ listening /\ backlog > 0

\* The socket is accepted and newConnection() called: runInLoop() calls
\* connectEstablished() on the spot if the connection stays in the base loop.
HandleRead ==
  /\ Readable
  /\ used < Limit
  /\ used' = used + 1
  /\ backlog' = backlog - 1
  /\ LET c == nextConnId_
         l == NextLoop
     IN /\ nextConnId_' = c + 1
        /\ open' = open \cup {c}
        /\ connections_' = connections_ \cup {c}
        /\ ioLoop' = [ioLoop EXCEPT ![c] = l]
        /\ next_' = NextIndex
        /\ IF l = 0 THEN /\ state_' = [state_ EXCEPT ![c] = "kConnected"]
                         /\ UNCHANGED pendingFunctors_
                    ELSE /\ state_' = [state_ EXCEPT ![c] = "kConnecting"]
                         /\ Queued(l, Bound("established", c))
  /\ UNCHANGED <<server, started_, listening, loops_, grown, destroyed, clients, apc, idleFd_,
                 otherVars, fault>>

\* accept4() fails with EMFILE. After any other error handleRead() does
\* nothing: a step that changes nothing, and the fairness says that such errors
\* do not go on for ever.
HandleReadEmfile ==
  /\ Readable
  /\ used = Limit
  /\ apc' = "close"
  /\ UNCHANGED <<serverVars, connVars, clientVars, open, idleFd_, used, otherVars, fault>>

EmfileStep(from, to) ==
  /\ Running /\ apc = from /\ apc' = to
  /\ UNCHANGED <<serverVars, connVars, clients, open, otherVars, fault>>

\* close(idleFd_), which may be -1.
ClosedIdle == IF idleFd_ = "none" THEN used ELSE used - 1

\* Mutant of CloseIdle: idleFd_ is not given up first.
KeepIdle == EmfileStep("close", "accept") /\ UNCHANGED <<idleFd_, backlog, used>>

CloseIdle ==
  /\ EmfileStep("close", "accept")
  /\ used' = ClosedIdle
  /\ UNCHANGED <<idleFd_, backlog>>

AcceptIdle ==
  /\ EmfileStep("accept", "closeNew")
  /\ \/ used < Limit /\ used' = used + 1 /\ backlog' = backlog - 1 /\ idleFd_' = "client"
     \/ used = Limit /\ idleFd_' = "none" /\ UNCHANGED <<used, backlog>>

\* Mutant of CloseNew: the client's socket is not closed.
LeakNew == EmfileStep("closeNew", "open") /\ UNCHANGED <<idleFd_, backlog, used>>

CloseNew ==
  /\ EmfileStep("closeNew", "open")
  /\ used' = ClosedIdle
  /\ UNCHANGED <<idleFd_, backlog>>

OpenIdle ==
  /\ EmfileStep("open", "loop")
  /\ \/ used < Limit /\ used' = used + 1 /\ idleFd_' = "null"
     \/ used = Limit /\ idleFd_' = "none" /\ UNCHANGED used
  /\ UNCHANGED backlog

\* The rest of the program opens and closes descriptors of its own, in any
\* thread, also while the base loop has given up idleFd_.
ForeignOpen ==
  /\ Running
  /\ foreign < MaxForeign /\ used < Limit
  /\ foreign' = foreign + 1 /\ used' = used + 1
  /\ robbed' = (robbed \/ apc # "loop")
  /\ UNCHANGED <<serverVars, connVars, clientVars, open, apc, idleFd_, fault>>

ForeignClose ==
  /\ Running
  /\ foreign > 0
  /\ foreign' = foreign - 1 /\ used' = used - 1
  /\ UNCHANGED <<serverVars, connVars, clientVars, open, apc, idleFd_, robbed, fault>>

-----------------------------------------------------------------------------
(***************************************************************************)
(* The end of a connection, and of the server.                             *)
(***************************************************************************)

\* Mutant of RemoveConnectionInLoop: connectDestroyed() is not queued.
RemoveAndForget(c, queues) ==
  /\ connections_' = connections_ \ {c}
  /\ pendingFunctors_' = queues

\* Mutant of RemoveConnectionInLoop: the connection stays in the map.
RemoveNoErase(c, queues) ==
  /\ UNCHANGED connections_
  /\ pendingFunctors_' = [queues EXCEPT ![ioLoop[c]] = Append(@, Bound("destroyed", c))]

\* removeConnectionInLoop(), when the loops' queues are these: it always
\* queues connectDestroyed(), also when the connection is in the base loop.
RemoveConnectionInLoop(c, queues) ==
  /\ connections_' = connections_ \ {c}
  /\ pendingFunctors_' = [queues EXCEPT ![ioLoop[c]] = Append(@, Bound("destroyed", c))]

\* handleClose() in the connection's loop calls closeCallback_, which is
\* TcpServer::removeConnection() with the bare address of the server.
HandleClose(c) ==
  /\ InLoop(ioLoop[c])
  /\ state_[c] = "kConnected"
  /\ state_' = [state_ EXCEPT ![c] = "kDisconnected"]
  /\ \/ /\ server /\ ioLoop[c] = 0
        /\ RemoveConnectionInLoop(c, pendingFunctors_)
        /\ UNCHANGED fault
     \/ /\ server /\ ioLoop[c] # 0
        /\ Queued(0, Bound("remove", c))
        /\ UNCHANGED <<connections_, fault>>
     \/ /\ ~server
        /\ fault' = TRUE
        /\ UNCHANGED <<connections_, pendingFunctors_>>
  /\ UNCHANGED <<serverVars, nextConnId_, ioLoop, destroyed, clientVars, fdVars>>

\* connectDestroyed() of the connections in D.
ConnectDestroyed(D) ==
  /\ state_' = [c \in Conns |-> IF c \in D THEN "kDisconnected" ELSE state_[c]]
  /\ destroyed' = destroyed \cup D

\* doPendingFunctors() of loop l gets to the next functor; Acceptor::listen()
\* and removeConnectionInLoop() are bound to bare addresses.
RunFunctor(l) ==
  /\ InLoop(l)
  /\ pendingFunctors_[l] # <<>>
  /\ LET f == Head(pendingFunctors_[l])
         rest == [pendingFunctors_ EXCEPT ![l] = Tail(@)]
     IN \/ /\ f.op \in {"listen", "remove"} /\ ~server
           /\ fault' = TRUE
           /\ UNCHANGED <<pendingFunctors_, listening, connections_, state_, destroyed>>
        \/ /\ f.op = "listen" /\ server
           /\ listening' = TRUE
           /\ pendingFunctors_' = rest
           /\ UNCHANGED <<connections_, state_, destroyed, fault>>
        \/ /\ f.op = "remove" /\ server
           /\ RemoveConnectionInLoop(f.c, rest)
           /\ UNCHANGED <<listening, state_, destroyed, fault>>
        \/ /\ f.op = "established"
           /\ state_' = [state_ EXCEPT ![f.c] = "kConnected"]
           /\ pendingFunctors_' = rest
           /\ UNCHANGED <<listening, connections_, destroyed, fault>>
        \/ /\ f.op = "destroyed"
           /\ ConnectDestroyed({f.c})
           /\ pendingFunctors_' = rest
           /\ UNCHANGED <<listening, connections_, fault>>
  /\ UNCHANGED <<server, started_, loops_, next_, grown, nextConnId_, ioLoop, clientVars, fdVars>>

\* Nobody has a TcpConnectionPtr any more.
Unreferenced(c) ==
  /\ c \notin connections_
  /\ \A l \in Loops : \A i \in DOMAIN pendingFunctors_[l] : pendingFunctors_[l][i].c # c

\* ~TcpConnection() closes the socket, when the last functor bound to the
\* connection is destroyed with its batch.
FreeConnection(c) ==
  /\ Running
  /\ c \in open /\ Unreferenced(c)
  /\ open' = open \ {c}
  /\ used' = used - 1
  /\ UNCHANGED <<serverVars, connVars, clientVars, apc, idleFd_, otherVars, fault>>

\* The orders in which an iteration of an unordered_map may meet the elements of
\* a set.
Orders(S) ==
  {order \in [1 .. Cardinality(S) -> S] : S = {order[i] : i \in DOMAIN order}}

\* ~Acceptor() takes the listening socket out of the poller and closes it, with
\* the clients in its queue, but leaves idleFd_ open.
DestroyAcceptor == listening' = FALSE /\ backlog' = 0

\* ~TcpServer() in the base loop's thread: connectDestroyed() now, or in the
\* connection's own loop. The pool's threads go on.
DestroyServer ==
  /\ InLoop(0) /\ server
  /\ server' = FALSE /\ DestroyAcceptor
  /\ connections_' = {}
  /\ ConnectDestroyed({c \in connections_ : ioLoop[c] = 0})
  /\ LET Of(l) == Orders({c \in connections_ : ioLoop[c] = l /\ l # 0})
     IN \E orders \in [Loops -> UNION {Of(l) : l \in Loops}] :
          /\ \A l \in Loops : orders[l] \in Of(l)
          /\ pendingFunctors_' =
               [l \in Loops |-> pendingFunctors_[l] \o
                  [i \in DOMAIN orders[l] |-> Bound("destroyed", orders[l][i])]]
  /\ UNCHANGED <<started_, loops_, next_, grown, nextConnId_, ioLoop, clients, fdVars, fault>>

-----------------------------------------------------------------------------
AcceptorStep ==
  HandleRead \/ HandleReadEmfile \/ CloseIdle \/ AcceptIdle \/ CloseNew \/ OpenIdle

Next ==
  \/ Start \/ DestroyServer \/ AcceptorStep
  \/ \E n \in 1 .. MaxThreads : StartPool(n)
  \/ ClientConnects \/ ForeignOpen \/ ForeignClose
  \/ \E c \in Conns : HandleClose(c) \/ FreeConnection(c)
  \/ \E l \in Loops : RunFunctor(l)

\* Every loop handles what is ready and, at the end of each turn, runs what is
\* queued, even if handleRead() is called in every turn.
Fairness ==
  /\ WF_vars(AcceptorStep)
  /\ \A l \in Loops : SF_vars(RunFunctor(l))
  /\ \A c \in Conns : WF_vars(FreeConnection(c))

Spec == Init /\ [][Next]_vars
FairSpec == Spec /\ Fairness

-----------------------------------------------------------------------------
(***************************************************************************)
(* Properties.                                                             *)
(***************************************************************************)

\* No descriptor leaks and none is closed twice, whichever system call of
\* handleRead() fails and whatever others open and close between them: the
\* kernel's count is what connections, idleFd_ and others hold. (The idleFd_
\* of a destroyed Acceptor is counted: nobody closes it.) The spare descriptor
\* is given up only for the moment: back in its loop the Acceptor has it again,
\* unless it could not be opened in the constructor or another thread took a
\* descriptor in that moment.
DescriptorsAccounted ==
  LET idle == IF idleFd_ = "none" \/ apc \in {"accept", "open"} THEN 0 ELSE 1
  IN /\ TypeOK
     /\ used = Cardinality(open) + foreign + idle
     /\ apc = "loop" /\ ~robbed => idleFd_ = "null"

\* getNextLoop() spreads the connections evenly: any as many connections in a
\* row as there are loops, made since the pool last grew, are in different
\* loops.
RoundRobin ==
  \A c, d \in grown .. nextConnId_ - 1 :
    c < d /\ d - c < Len(loops_) => ioLoop[c] # ioLoop[d]

\* A connection's socket is closed only after connectDestroyed() has taken
\* its channel out of the poller of its loop, whichever thread drops the last
\* reference; and the dead server is used only after ~TcpServer().
ClosedAfterDestroyed ==
  /\ \A c \in 1 .. nextConnId_ - 1 : c \in open \/ c \in destroyed
  /\ fault => ~server

\* Where a connection is in its life.
PhaseOf == [none |-> "none", kConnecting |-> "connecting", kConnected |-> "up", kDisconnected |-> "down"]

Phase == [c \in Conns |-> IF c \in destroyed THEN "gone" ELSE PhaseOf[state_[c]]]

\* What the connections' loops and the base loop do to one connection, each
\* through the other's queue, is the life that ConnectionLife describes.
Life == INSTANCE ConnectionLife WITH listed <- connections_, phase <- Phase

ConnectionsLive == Life!Spec

\* A client that connects is accepted, or turned away at once when descriptors
\* have run out, unless the spare one was missing from the start or is lost to
\* another thread: then the loop spins on the listening socket.
ClientsAnswered == backlog > 0 ~> backlog = 0 \/ robbed \/ fault

\* Whoever closes a connection, and when the server is destroyed everybody,
\* gives the descriptor back: the connection passes through the base loop and
\* its own and is freed, unless the dead server is used on the way.
ConnectionsReleased ==
  \A c \in Conns :
    state_[c] = "kDisconnected" \/ (~server /\ c \in open) ~> c \notin open \/ fault
=============================================================================
