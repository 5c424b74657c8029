--------------------------- MODULE ConnectorProofs ---------------------------
(***************************************************************************)
(* Proofs about Connector, for any servers and any number of attempts and  *)
(* calls: the Connector's channel, its sockets and its queued              *)
(* resetChannel() go together, what is handed over is connected, not to    *)
(* itself, and to the server asked for where its InetAddress fits, and     *)
(* ~TcpClient() in an idle loop leaves nothing behind that uses the dead   *)
(* objects.                                                                *)
(***************************************************************************)
EXTENDS Connector, TLAPS, FiniteSetTheorems

-----------------------------------------------------------------------------
(***************************************************************************)
(* The inductive invariant.                                                *)
(***************************************************************************)

\* A functor is in the queue; resetChannel() is in it at most once.
Has(q, f) == \E i \in DOMAIN q : q[i] = f
OneReset(q) == \A i, j \in DOMAIN q : q[i] = "reset" /\ q[j] = "reset" => i = j

\* Sockets are numbered in the order of their creation.
SocketInv == opened \subseteq 3 .. 2 + attempts

\* An InetAddress that fits denotes the server, for the kernel and in text.
AddressInv ==
  Fits => KernelPeer = <<Reached(asked[1]), asked[2]>> /\ toIpPort(serverAddr_) = asked

\* What was handed over is open, connected, and not to itself.
HandedInv == \A s \in handed : s \in opened /\ status[s] \in Locals \ {KernelPeer}

\* The channel's registration, the state and the open sockets go together;
\* nobody closes those that were handed over.
ChannelInv ==
  fault = "none" =>
    /\ registered <=> state_ = "kConnecting"
    /\ registered => channel_ \in opened /\ channel_ \notin handed
    /\ opened = handed \cup (IF registered THEN {channel_} ELSE {})

\* An object out of the poller waits for one resetChannel().
ResetInv ==
  fault = "none" =>
    /\ OneReset(pendingFunctors_)
    /\ Has(pendingFunctors_, "reset") <=> channel_ # 0 /\ ~registered

\* The events that handleEvent() works on are those of an attempt that has
\* ended: startInLoop() called by handleError() meets the old channel.
EventInv ==
  fault = "none" =>
    /\ lpc \in {"error", "write"} /\ registered => status[channel_] \in {<<"failed">>} \cup Locals
    /\ lpc = "start" /\ back = "write" => channel_ # 0

\* The Connector rests while the TcpClient has a connection.
RestInv == fault = "none" /\ connection_ # 0 => state_ = "kConnected"

\* ~TcpClient() has left nothing behind.
IdleInv ==
  /\ fault = "useAfterFree" => died = "busy"
  /\ died = "idle" =>
       /\ lpc \in {"poll", "pending"} /\ ~registered
       /\ \A f \in ConnectorFunctors : ~Has(pendingFunctors_, f)
       /\ connection_ = 0 \/ closeCallback_ = "detail"

IInv ==
  /\ TypeOK /\ SocketInv /\ AddressInv /\ HandedInv /\ ChannelInv /\ ResetInv /\ EventInv
  /\ RestInv /\ IdleInv

-----------------------------------------------------------------------------
(***************************************************************************)
(* Addresses.                                                              *)
(***************************************************************************)

\* A 16-bit word is made of two bytes.
LEMMA TwoBytes ==
  ASSUME NEW p \in Int, NEW a \in Int, NEW b \in Int, p = a * 256 + b, 0 <= b, b <= 255,
         0 <= p, p <= 65535
  PROVE  0 <= a /\ a <= 255
OBVIOUS

\* Taking it apart again.
LEMMA SwapBytes ==
  ASSUME NEW a \in Int, NEW b \in Int, 0 <= a, a <= 255, 0 <= b, b <= 255
  PROVE  (b * 256 + a) % 256 = a /\ (b * 256 + a) \div 256 = b
OBVIOUS

\* A port survives the two conversions.
LEMMA PortRoundTrip ==
  ASSUME NEW p \in Ports
  PROVE  /\ networkToHost16(hostToNetwork16(p)) = p
         /\ (hostToNetwork16(p) % 256) * 256 + hostToNetwork16(p) \div 256 = p
<1>0. p \in Int /\ 0 <= p /\ p <= 65535
  BY DEF Ports
<1>1. p \div 256 \in Int /\ p % 256 \in Int /\ 0 <= p % 256 /\ p % 256 <= 255
  BY <1>0
<1>2. p - (p % 256) = (p \div 256) * 256
  BY <1>0
<1>3. PICK a \in Int, b \in Int : a = p \div 256 /\ b = p % 256
  BY <1>1
<1>4. p = a * 256 + b /\ 0 <= b /\ b <= 255
  BY <1>0, <1>1, <1>2, <1>3
<1>5. 0 <= a /\ a <= 255
  BY <1>0, <1>4, TwoBytes
<1>6. (b * 256 + a) % 256 = a /\ (b * 256 + a) \div 256 = b
  BY <1>4, <1>5, SwapBytes
<1>7. hostToNetwork16(p) = b * 256 + a
  BY <1>3 DEF hostToNetwork16
<1> QED BY <1>4, <1>6, <1>7 DEF networkToHost16

\* The port of an InetAddress without an IP address, and of what resolve() makes
\* of it.
LEMMA PortAddressFacts ==
  ASSUME NEW ip, NEW port, NEW l \in BOOLEAN, NEW b \in BOOLEAN, NEW a, a = PortAddress(port, l, b)
  PROVE  /\ a.port = hostToNetwork16(port)
         /\ resolve(a, ip).port = a.port /\ resolve(a, ip).family = a.family
         /\ resolve(a, ip).word = ip
<1>1. CASE b
  BY <1>1 DEF PortAddress, ZeroAddress, resolve
<1>2. CASE ~b
  BY <1>2 DEF PortAddress, ZeroAddress, resolve
<1> QED BY <1>1, <1>2

\* A server, and the addresses made for it: the port is right, and so is the IP
\* address when the family is that of its text.
LEMMA ConstructedFacts ==
  ASSUME NEW ip \in IPv4 \cup IPv6, NEW port \in Ports, NEW addr \in Constructed(ip, port)
  PROVE  /\ addr.port = hostToNetwork16(port)
         /\ addr.family = (IF ip \in IPv6 THEN "AF_INET6" ELSE "AF_INET") => toIp(addr) = ip
<1> DEFINE bare == {PortAddress(port, l, b) : l, b \in BOOLEAN}
<1>0. ip \in IPv6 => ip \notin IPv4
  BY DEF IPv4, IPv6
<1>1. \/ \E b \in BOOLEAN : addr = setScopeId(IpAddress(ip, port, b), 2)
      \/ addr \in bare /\ toIp(addr) = ip
      \/ ip \in IPv4 /\ \E a \in bare : addr = resolve(a, ip)
  <2>1. Constructed(ip, port) =
             {setScopeId(IpAddress(ip, port, b), 2) : b \in BOOLEAN}
        \cup {a \in bare : toIp(a) = ip}
        \cup {resolve(a, ip) : a \in {a1 \in bare : ip \in IPv4}}
    BY DEF Constructed
  <2> HIDE DEF bare
  <2> QED BY <2>1
<1>2. ASSUME NEW a \in bare
      PROVE  /\ a.port = hostToNetwork16(port)
             /\ resolve(a, ip).port = a.port /\ resolve(a, ip).family = a.family
             /\ resolve(a, ip).word = ip
  <2>1. PICK l \in BOOLEAN, b \in BOOLEAN : a = PortAddress(port, l, b)
    OBVIOUS
  <2> HIDE DEF bare
  <2> QED BY <2>1, PortAddressFacts
<1>3. ASSUME NEW b \in BOOLEAN, addr = setScopeId(IpAddress(ip, port, b), 2)
      PROVE  /\ addr.port = hostToNetwork16(port)
             /\ addr.family = (IF ip \in IPv6 THEN "AF_INET6" ELSE "AF_INET") => toIp(addr) = ip
  <2>1. PICK family \in {"AF_INET", "AF_INET6"} :
          addr = setScopeId(fromIpPort(ip, port, family), 2)
    BY <1>3, Zenon DEF IpAddress
  <2>2. /\ addr.port = hostToNetwork16(port) /\ addr.family = family
        /\ addr.word = IF family = "AF_INET" /\ ip \in IPv4 THEN ip ELSE "0.0.0.0"
        /\ addr.addr6 = IF family = "AF_INET6" /\ ip \in IPv6 THEN ip ELSE "::"
    BY <2>1 DEF setScopeId, fromIpPort, ZeroAddress
  <2> QED BY <2>2 DEF toIp
<1>4. CASE addr \in bare /\ toIp(addr) = ip
  BY <1>2, <1>4
<1>5. CASE ip \in IPv4 /\ \E a \in bare : addr = resolve(a, ip)
  BY <1>0, <1>2, <1>5 DEF toIp
<1> QED BY <1>1, <1>3, <1>4, <1>5

\* Every way to make an InetAddress that fits makes that of the server.
LEMMA ServerAddress ==
  ASSUME asked \in Servers, serverAddr_ \in Constructed(asked[1], asked[2])
  PROVE  AddressInv
<1>1. asked \in (IPv4 \cup IPv6) \X Ports
  BY ServersAssumption
<1>2. asked = <<asked[1], asked[2]>> /\ asked[1] \in IPv4 \cup IPv6 /\ asked[2] \in Ports
  BY <1>1
<1>3. /\ serverAddr_.port = hostToNetwork16(asked[2])
      /\ Fits => toIp(serverAddr_) = asked[1]
  BY <1>2, ConstructedFacts DEF Fits
<1>4. KernelPeer = <<Reached(toIp(serverAddr_)), asked[2]>>
  BY <1>2, <1>3, PortRoundTrip DEF KernelPeer, toIp
<1>5. toIpPort(serverAddr_) = <<toIp(serverAddr_), asked[2]>>
  BY <1>2, <1>3, PortRoundTrip DEF toIpPort
<1> QED BY <1>2, <1>3, <1>4, <1>5 DEF AddressInv

\* The endpoint of the server is a pair.
LEMMA PeerLength == Len(KernelPeer) = 2
BY DEF KernelPeer

\* A connection whose local end is the server's is one with itself.
LEMMA SelfConnectFacts ==
  ASSUME NEW s \in Sockets, status[s] = KernelPeer
  PROVE  SelfConnected(s)
<1>1. Connected(s)
  BY PeerLength DEF Connected
<1>2. SockName(KernelPeer).family \in {"AF_INET", "AF_INET6"}
  BY DEF SockName, ZeroAddress
<1>3. isSelfConnect(SockName(status[s]), SockName(KernelPeer))
  BY <1>2 DEF isSelfConnect
<1> QED BY <1>1, <1>3 DEF SelfConnected

\* What an attempt that has not ended, or has failed, is not.
LEMMA LocalsFacts ==
  /\ <<"connecting">> \notin Locals /\ <<"failed">> \notin Locals
  /\ <<"connecting">> # <<"failed">>
<1>2. \A r \in Locals : Len(r) = 2
  BY PeerLength DEF Locals
<1>3. Len(<<"connecting">>) = 1 /\ Len(<<"failed">>) = 1
  OBVIOUS
<1>4. <<"connecting">>[1] = "connecting" /\ <<"failed">>[1] = "failed"
  OBVIOUS
<1> QED BY <1>2, <1>3, <1>4

-----------------------------------------------------------------------------
(***************************************************************************)
(* The queue.                                                              *)
(***************************************************************************)
Functors == ConnectorFunctors \cup {"setCloseCallback", "forceClose", "destroyed"}

\* Appending a functor.
LEMMA AppendFunctor ==
  ASSUME NEW q \in Seq(Functors), NEW f \in Functors, NEW q2, q2 = Append(q, f)
  PROVE  /\ q2 \in Seq(Functors) /\ Len(q2) = Len(q) + 1 /\ Len(q) \in Nat
         /\ \A g \in Functors : Has(q2, g) <=> Has(q, g) \/ g = f
         /\ OneReset(q) /\ (f = "reset" => ~Has(q, "reset")) => OneReset(q2)
<1>0. q \in Seq(Functors) /\ Len(q) \in Nat /\ DOMAIN q = 1 .. Len(q)
  OBVIOUS
<1>1. /\ q2 \in Seq(Functors) /\ Len(q2) = Len(q) + 1 /\ Len(q) \in Nat
      /\ DOMAIN q = 1 .. Len(q) /\ DOMAIN q2 = 1 .. Len(q) + 1
      /\ \A i \in 1 .. Len(q) : q2[i] = q[i]
      /\ q2[Len(q) + 1] = f
  BY <1>0
<1>2. \A i \in DOMAIN q2 : (i \in DOMAIN q /\ q2[i] = q[i]) \/ (i = Len(q) + 1 /\ q2[i] = f)
  BY <1>1
<1>3. /\ \A i \in DOMAIN q : i \in DOMAIN q2 /\ q2[i] = q[i]
      /\ Len(q) + 1 \in DOMAIN q2
  BY <1>1
<1>4. \A g \in Functors : Has(q2, g) <=> Has(q, g) \/ g = f
  BY <1>1, <1>2, <1>3 DEF Has
<1>5. ASSUME OneReset(q), f = "reset" => ~Has(q, "reset") PROVE OneReset(q2)
  BY <1>2, <1>5 DEF OneReset, Has
<1> QED BY <1>1, <1>4, <1>5

\* Taking the first functor.
LEMMA TailFunctor ==
  ASSUME NEW q \in Seq(Functors), NEW n \in 0 .. Len(q), n > 0
  PROVE  /\ Head(q) \in Functors /\ Has(q, Head(q))
         /\ Tail(q) \in Seq(Functors) /\ Len(Tail(q)) = Len(q) - 1 /\ Len(q) \in Nat /\ n - 1 \in 0 .. Len(Tail(q))
         /\ \A g \in Functors : Has(Tail(q), g) => Has(q, g)
         /\ \A g \in Functors : Has(q, g) => Has(Tail(q), g) \/ g = Head(q)
         /\ OneReset(q) => OneReset(Tail(q)) /\ (Head(q) = "reset" => ~Has(Tail(q), "reset"))
<1>1. /\ Len(q) \in Nat /\ Len(q) > 0 /\ DOMAIN q = 1 .. Len(q) /\ Head(q) = q[1] /\ q # <<>>
  OBVIOUS
<1>2. /\ Tail(q) \in Seq(Functors) /\ Len(Tail(q)) = Len(q) - 1
      /\ DOMAIN Tail(q) = 1 .. Len(q) - 1
      /\ \A i \in 1 .. Len(q) - 1 : Tail(q)[i] = q[i + 1]
  BY <1>1
<1> DEFINE t == Tail(q)
<1>3. /\ \A i \in DOMAIN t : i + 1 \in DOMAIN q /\ t[i] = q[i + 1] /\ i + 1 # 1 /\ i \in Nat
      /\ \A i \in DOMAIN q : i = 1 \/ (i - 1 \in DOMAIN t /\ t[i - 1] = q[i])
      /\ 1 \in DOMAIN q
  BY <1>1, <1>2
<1>4. n - 1 \in 0 .. Len(t) /\ Head(q) \in Functors
  BY <1>1, <1>2
<1> HIDE DEF t
<1>5. Has(q, Head(q)) /\ \A g \in Functors : Has(t, g) => Has(q, g)
  BY <1>1, <1>3 DEF Has
<1>6. \A g \in Functors : Has(q, g) => Has(t, g) \/ g = Head(q)
  BY <1>1, <1>3 DEF Has
<1>7. ASSUME OneReset(q) PROVE OneReset(t) /\ (Head(q) = "reset" => ~Has(t, "reset"))
  <2>1. ASSUME NEW i \in DOMAIN t, NEW j \in DOMAIN t, t[i] = "reset", t[j] = "reset"
        PROVE  i = j
    <3>1. i + 1 = j + 1
      BY <1>3, <1>7, <2>1 DEF OneReset
    <3> QED BY <1>3, <3>1
  <2>2. ASSUME Head(q) = "reset", NEW i \in DOMAIN t, t[i] = "reset" PROVE FALSE
    BY <1>1, <1>3, <1>7, <2>2 DEF OneReset
  <2> QED BY <2>1, <2>2 DEF OneReset, Has
<1> QED BY <1>1, <1>2, <1>4, <1>5, <1>6, <1>7 DEF t
-----------------------------------------------------------------------------
(***************************************************************************)
(* Facts about a state that satisfies the invariant, and what a step that  *)
(* changes one part leaves true of the others.                             *)
(***************************************************************************)
USE DEF loopVars, queueVars, sockVars, chan, connectorVars, owned, userVars, connVars, clientVars,
        outside

\* The types of the numbers and of the queue.
LEMMA QueueFacts ==
  ASSUME IInv
  PROVE  /\ pendingFunctors_ \in Seq(Functors) /\ Len(pendingFunctors_) \in Nat
         /\ left \in 0 .. Len(pendingFunctors_)
         /\ attempts \in 0 .. MaxAttempts /\ MaxAttempts \in Nat /\ opened \subseteq Sockets
BY BoundsAssumption DEF IInv, TypeOK, Functors

\* The socket that startInLoop() creates.
LEMMA NewSocketFacts ==
  ASSUME IInv, MayConnect
  PROVE  /\ NewSocket \in Sockets /\ NewSocket # 0 /\ NewSocket \notin opened
         /\ opened \cup {NewSocket} \subseteq 3 .. 2 + attempts' /\ attempts' \in 0 .. MaxAttempts
         /\ opened \subseteq 3 .. 2 + attempts'
<1>1. attempts' = attempts + 1 /\ attempts < MaxAttempts
  BY DEF MayConnect
<1>2. \A s \in opened : s \in Int /\ 3 <= s /\ s <= 2 + attempts
  BY QueueFacts DEF IInv, SocketInv
<1> QED BY <1>1, <1>2, QueueFacts DEF NewSocket, Sockets

\* The socket of the channel in the poller.
LEMMA RegisteredFacts ==
  ASSUME IInv, fault = "none", registered
  PROVE  channel_ \in Sockets /\ channel_ # 0 /\ channel_ \in opened /\ channel_ \notin handed
<1>1. channel_ \in opened /\ channel_ \notin handed /\ channel_ \in Sockets
  BY DEF IInv, ChannelInv, TypeOK
<1> QED BY <1>1, QueueFacts DEF Sockets

\* Steps of which the addresses know nothing: all.
LEMMA AddressFrame ==
  ASSUME IInv, UNCHANGED <<asked, serverAddr_>>
  PROVE  AddressInv' /\ Locals' = Locals /\ KernelPeer' = KernelPeer
<1>1. KernelPeer' = KernelPeer /\ Fits' = Fits /\ toIpPort(serverAddr_)' = toIpPort(serverAddr_)
  BY DEF KernelPeer, Fits
<1> QED BY <1>1 DEF IInv, AddressInv, Locals

\* Steps that open and close no socket and hand none over.
LEMMA SocketFrame ==
  ASSUME IInv, UNCHANGED <<attempts, opened, status, asked, serverAddr_, handed>>
  PROVE  SocketInv' /\ HandedInv' /\ AddressInv' /\ Locals' = Locals /\ KernelPeer' = KernelPeer
BY AddressFrame DEF IInv, SocketInv, HandedInv

\* Steps that leave the Connector alone.
LEMMA ConnectorFrame ==
  ASSUME IInv, UNCHANGED <<state_, channel_, registered, opened, handed>>, fault' = "none" => fault = "none"
  PROVE  ChannelInv'
BY DEF IInv, ChannelInv

\* Steps that neither take nor queue a resetChannel().
LEMMA ResetFrame ==
  ASSUME IInv, UNCHANGED <<channel_, registered, pendingFunctors_>>, fault' = "none" => fault = "none"
  PROVE  ResetInv'
BY DEF IInv, ResetInv

-----------------------------------------------------------------------------
(***************************************************************************)
(* The initial state and the steps.                                        *)
(***************************************************************************)

\* A new TcpClient satisfies the invariant.
LEMMA InitInv == Init => IInv
<1> SUFFICES ASSUME Init PROVE IInv
  OBVIOUS
<1>1. /\ lpc = "pending" /\ back = "pending" /\ revents_ = {} /\ state_ = "kDisconnected"
      /\ channel_ = 0 /\ pendingFunctors_ = <<>> /\ left = 0 /\ attempts = 0 /\ opened = {}
      /\ status = [s \in Sockets |-> <<"connecting">>] /\ asked \in Servers
      /\ serverAddr_ \in Constructed(asked[1], asked[2])
      /\ connection_ = 0 /\ closeCallback_ = "client" /\ died = "no" /\ handed = {} /\ fault = "none"
      /\ ~registered
  BY DEF Init
<1>2. /\ connect_ \in BOOLEAN /\ registered \in BOOLEAN
      /\ clientConnect_ \in BOOLEAN /\ retry_ \in BOOLEAN
  BY Zenon DEF Init
<1>3. TypeOK
  <2>1. left \in 0 .. Len(pendingFunctors_) /\ attempts \in 0 .. MaxAttempts
    BY <1>1, BoundsAssumption
  <2>2. pendingFunctors_ \in Seq(ConnectorFunctors \cup {"setCloseCallback", "forceClose", "destroyed"})
    BY <1>1
  <2> QED BY <1>1, <1>2, <2>1, <2>2 DEF TypeOK
<1>4. AddressInv
  BY <1>1, ServerAddress
<1>5. SocketInv /\ HandedInv /\ ChannelInv /\ EventInv /\ RestInv
  BY <1>1 DEF SocketInv, HandedInv, ChannelInv, EventInv, RestInv
<1>6. ResetInv /\ IdleInv
  BY <1>1 DEF ResetInv, IdleInv, Has, OneReset
<1> QED BY <1>3, <1>4, <1>5, <1>6 DEF IInv

\* An assertion fails, or a dead object is used.
LEMMA FaultInv ==
  ASSUME IInv, StartFails \/ SocketFails \/ WriteIgnored \/ UseAfterFree
  PROVE  IInv'
<1>1. /\ fault = "none" /\ lpc' \in {lpc, "pending"} /\ (lpc' # lpc => lpc = "write")
      /\ fault' \in {"none", "assertState", "LOG_ERROR", "assertWrite", "useAfterFree"}
      /\ UNCHANGED <<back, revents_, state_, connect_, channel_, registered, pendingFunctors_, left,
                     attempts, opened, status, asked, serverAddr_, clientConnect_, retry_,
                     connection_, closeCallback_, died, handed>>
  BY DEF StartFails, SocketFails, WriteIgnored, UseAfterFree, At
<1>2. fault' = "useAfterFree" => died = "busy"
  <2>1. ASSUME UseAfterFree PROVE died = "busy"
    <3>1. /\ died # "no"
          /\ \/ lpc \in {"error", "write", "start"}
             \/ lpc = "poll" /\ Ready # {}
             \/ lpc = "pending" /\ left > 0 /\ Head(pendingFunctors_) \in ConnectorFunctors
             \/ lpc = "pending" /\ connection_ # 0 /\ closeCallback_ = "client"
      BY <2>1 DEF UseAfterFree
    <3>2. ASSUME died = "idle" PROVE FALSE
      <4>1. /\ lpc \in {"poll", "pending"} /\ ~registered
            /\ \A f \in ConnectorFunctors : ~Has(pendingFunctors_, f)
            /\ connection_ = 0 \/ closeCallback_ = "detail"
        BY <3>2 DEF IInv, IdleInv
      <4>2. Ready = {}
        BY <4>1 DEF Ready
      <4>3. left > 0 => Has(pendingFunctors_, Head(pendingFunctors_))
        BY QueueFacts, TailFunctor
      <4> QED BY <3>1, <4>1, <4>2, <4>3
    <3> QED BY <3>1, <3>2 DEF IInv, TypeOK
  <2> QED BY <2>1 DEF StartFails, SocketFails, WriteIgnored, At
<1>3. /\ SocketInv' /\ HandedInv' /\ AddressInv' /\ Locals' = Locals
      /\ KernelPeer' = KernelPeer /\ ChannelInv' /\ ResetInv'
  BY <1>1, SocketFrame, ConnectorFrame, ResetFrame
<1>4. TypeOK'
  BY <1>1, <1>3 DEF IInv, TypeOK
<1>5. EventInv'
  BY <1>1, <1>3 DEF IInv, EventInv
<1>6. RestInv'
  BY <1>1 DEF IInv, RestInv
<1>7. IdleInv'
  BY <1>1, <1>2 DEF IInv, IdleInv
<1> QED BY <1>3, <1>4, <1>5, <1>6, <1>7 DEF IInv

\* startInLoop() creates a socket, and whatever connect() returns.
LEMMA ConnectInv ==
  ASSUME IInv, Connecting \/ ConnectingFails \/ ConnectRefused \/ ConnectGivesUp
  PROVE  IInv'
<1>0. /\ MayConnect /\ fault = "none" /\ lpc = "start" /\ died = "no" /\ state_ = "kDisconnected"
      /\ connect_ /\ attempts' = attempts + 1
      /\ UNCHANGED <<revents_, connect_, pendingFunctors_, left, asked, serverAddr_, clientConnect_,
                     retry_, connection_, closeCallback_, died, handed>>
  BY DEF Connecting, ConnectingFails, ConnectRefused, ConnectGivesUp, MayConnect, At
<1>1. ~registered /\ connection_ = 0
  BY <1>0 DEF IInv, ChannelInv, RestInv
<1>2. /\ NewSocket \in Sockets /\ NewSocket # 0 /\ NewSocket \notin opened
      /\ opened \cup {NewSocket} \subseteq 3 .. 2 + attempts' /\ opened \subseteq 3 .. 2 + attempts'
      /\ attempts' \in 0 .. MaxAttempts
  BY <1>0, NewSocketFacts
<1>3. NewSocket \notin handed
  BY <1>2 DEF IInv, HandedInv
<1>4. AddressInv' /\ Locals' = Locals /\ KernelPeer' = KernelPeer
  BY <1>0, AddressFrame
<1>5. registered' \in BOOLEAN
  BY Zenon DEF Connecting, ConnectingFails, ConnectRefused, ConnectGivesUp, Retry, CallStartInLoop,
               EnableWriting, IInv, TypeOK
<1>6. CASE Connecting
  <2>1. /\ channel_ = 0 /\ opened' = opened \cup {NewSocket} /\ state_' = "kConnecting"
        /\ channel_' = NewSocket /\ registered' /\ lpc' = back /\ UNCHANGED <<back, status, fault>>
    BY <1>6 DEF Connecting, EnableWriting
  <2>2. TypeOK'
    BY <1>0, <1>2, <1>4, <1>5, <2>1 DEF IInv, TypeOK
  <2>3. SocketInv' /\ HandedInv'
    BY <1>0, <1>2, <1>4, <2>1 DEF IInv, SocketInv, HandedInv
  <2>4. ChannelInv'
    BY <1>0, <1>1, <1>2, <1>3, <2>1 DEF IInv, ChannelInv
  <2>5. ResetInv'
    BY <1>0, <1>1, <1>2, <2>1 DEF IInv, ResetInv
  <2>6. back = "pending"
    BY <1>0, <2>1 DEF IInv, EventInv, TypeOK
  <2>7. EventInv' /\ RestInv' /\ IdleInv'
    BY <1>0, <1>1, <2>1, <2>6 DEF IInv, EventInv, RestInv, IdleInv
  <2> QED BY <1>4, <2>2, <2>3, <2>4, <2>5, <2>7 DEF IInv
<1>7. CASE ConnectingFails
  <2>1. /\ opened' = opened \cup {NewSocket} /\ state_' = "kConnecting" /\ fault' = "assertChannel"
        /\ UNCHANGED <<lpc, back, channel_, registered, status>>
    BY <1>7 DEF ConnectingFails
  <2>2. TypeOK'
    BY <1>0, <1>2, <1>4, <1>5, <2>1 DEF IInv, TypeOK
  <2>3. SocketInv' /\ HandedInv'
    BY <1>0, <1>2, <1>4, <2>1 DEF IInv, SocketInv, HandedInv
  <2>4. ChannelInv' /\ ResetInv' /\ EventInv' /\ RestInv' /\ IdleInv'
    BY <1>0, <2>1 DEF ChannelInv, ResetInv, EventInv, RestInv, IInv, IdleInv
  <2> QED BY <1>4, <2>2, <2>3, <2>4 DEF IInv
<1>8. CASE ConnectRefused \/ ConnectGivesUp
  <2>1. /\ opened' = opened /\ state_' = "kDisconnected"
        /\ lpc' \in {"start", back} /\ (lpc' = "start" => back' = back) /\ back' \in {back}
        /\ UNCHANGED <<channel_, registered, fault>>
        /\ status' = status \/ status' = [status EXCEPT ![NewSocket] = <<"connecting">>]
    BY <1>0, <1>2, <1>8 DEF ConnectRefused, ConnectGivesUp, Retry, Close, CallStartInLoop
  <2>2. /\ status' \in [Sockets -> {<<"connecting">>, <<"failed">>} \cup Locals]
        /\ \A s \in Sockets : s # NewSocket => status'[s] = status[s]
    BY <1>2, <2>1 DEF IInv, TypeOK
  <2>3. TypeOK'
    BY <1>0, <1>2, <1>4, <1>5, <2>1, <2>2 DEF IInv, TypeOK
  <2>4. SocketInv'
    BY <1>2, <2>1 DEF SocketInv
  <2>5. HandedInv'
    BY <1>0, <1>2, <1>3, <1>4, <2>1, <2>2, QueueFacts DEF IInv, HandedInv
  <2>6. ChannelInv' /\ ResetInv'
    BY <1>0, <2>1, ResetFrame DEF IInv, ChannelInv
  <2>7. EventInv' /\ RestInv' /\ IdleInv'
    BY <1>0, <1>1, <2>1 DEF IInv, EventInv, RestInv, IdleInv
  <2> QED BY <1>4, <2>3, <2>4, <2>5, <2>6, <2>7 DEF IInv
<1> QED BY <1>6, <1>7, <1>8
\* The kernel ends an attempt, and the loop's steps that look only.
LEMMA AttemptInv ==
  ASSUME IInv, NEW s \in Sockets, AttemptEnds(s)
  PROVE  IInv'
<1>1. /\ fault = "none" /\ s \in opened /\ status[s] = <<"connecting">>
      /\ UNCHANGED <<lpc, back, revents_, state_, connect_, channel_, registered, pendingFunctors_,
                     left, attempts, opened, asked, serverAddr_, clientConnect_, retry_,
                     connection_, closeCallback_, died, handed, fault>>
  BY DEF AttemptEnds
<1>2. PICK r \in Locals \cup {<<"failed">>} : status' = [status EXCEPT ![s] = r]
  BY DEF AttemptEnds
<1>3. AddressInv' /\ Locals' = Locals /\ KernelPeer' = KernelPeer
  BY <1>1, AddressFrame
<1>4. /\ status' \in [Sockets -> {<<"connecting">>, <<"failed">>} \cup Locals]
      /\ status'[s] = r /\ \A t \in Sockets : t # s => status'[t] = status[t]
  BY <1>2 DEF IInv, TypeOK
<1>5. s \notin handed
  BY <1>1, LocalsFacts DEF IInv, HandedInv
<1>6. TypeOK'
  BY <1>1, <1>3, <1>4 DEF IInv, TypeOK
<1>7. SocketInv' /\ ChannelInv' /\ ResetInv' /\ RestInv' /\ IdleInv'
  BY <1>1, ConnectorFrame, ResetFrame DEF IInv, SocketInv, RestInv, IdleInv
<1>8. HandedInv'
  BY <1>1, <1>3, <1>4, <1>5 DEF IInv, HandedInv, TypeOK
<1>9. EventInv'
  <2>1. registered => channel_ \in Sockets
    BY <1>1, RegisteredFacts
  <2> QED BY <1>1, <1>2, <1>3, <1>4, <2>1 DEF IInv, EventInv
<1> QED BY <1>3, <1>6, <1>7, <1>8, <1>9 DEF IInv

\* epoll_wait(), the test of EPOLLERR, and the end of doPendingFunctors().
LEMMA LookInv ==
  ASSUME IInv, Poll \/ NoError \/ PendingDone
  PROVE  IInv'
<1>1. /\ fault = "none"
      /\ UNCHANGED <<back, state_, connect_, channel_, registered, pendingFunctors_, attempts,
                     opened, status, asked, serverAddr_, clientConnect_, retry_, connection_,
                     closeCallback_, died, handed, fault>>
  BY DEF Poll, NoError, PendingDone, At
<1>2. /\ SocketInv' /\ HandedInv' /\ AddressInv' /\ Locals' = Locals
      /\ KernelPeer' = KernelPeer /\ ChannelInv' /\ ResetInv'
  BY <1>1, SocketFrame, ConnectorFrame, ResetFrame
<1>3. /\ lpc' \in {"poll", "pending", "error", "write"}
      /\ lpc' \in {"error", "write"} =>
           \/ lpc = "error"
           \/ registered /\ status[channel_] # <<"connecting">>
      /\ revents_' \in SUBSET {"ERR", "OUT"} /\ left' \in 0 .. Len(pendingFunctors_)
  <2>1. CASE Poll
    <3>1. Ready # {} => registered /\ status[channel_] # <<"connecting">>
      BY DEF Ready
    <3>2. Ready \subseteq {"ERR", "OUT"}
      BY DEF Ready
    <3> QED BY <2>1, <3>1, <3>2, QueueFacts DEF Poll, At
  <2>2. CASE NoError
    <3>1. lpc = "error" /\ lpc' = "write" /\ UNCHANGED <<revents_, left, pendingFunctors_>>
      BY <2>2 DEF NoError, At
    <3> QED BY <3>1 DEF IInv, TypeOK
  <2>3. CASE PendingDone
    <3>1. lpc' = "poll" /\ revents_' = {} /\ UNCHANGED <<left, pendingFunctors_>>
      BY <2>3 DEF PendingDone, At
    <3> QED BY <3>1 DEF IInv, TypeOK
  <2> QED BY <2>1, <2>2, <2>3
<1>4. TypeOK'
  BY <1>1, <1>2, <1>3 DEF IInv, TypeOK
<1>5. EventInv'
  <2>1. registered => status[channel_] \in {<<"connecting">>, <<"failed">>} \cup Locals
    BY <1>1, RegisteredFacts DEF IInv, TypeOK
  <2> QED BY <1>1, <1>2, <1>3, <2>1 DEF IInv, EventInv
<1>6. RestInv'
  BY <1>1 DEF IInv, RestInv
<1>7. IdleInv'
  BY <1>1, <1>3 DEF IInv, IdleInv
<1> QED BY <1>2, <1>4, <1>5, <1>6, <1>7 DEF IInv
\* An attempt ends: its channel leaves the poller, a resetChannel() is queued
\* behind the functors left, its socket is closed and the state reset.
LEMMA GiveUpInv ==
  ASSUME IInv, NEW q \in Seq(Functors), \A f \in Functors : Has(q, f) => Has(pendingFunctors_, f),
         OneReset(q), left' \in 0 .. Len(q) + 1,
         fault = "none", died = "no", state_ = "kConnecting",
         registered' = FALSE, pendingFunctors_' = Append(q, "reset"), Close(channel_),
         state_' = "kDisconnected", lpc' \in {"start", "write", "pending"},
         back' \in {"write", "pending"},
         UNCHANGED <<revents_, connect_, channel_, attempts, clientVars, fault>>
  PROVE  IInv'
<1>1. /\ registered /\ channel_ \in Sockets /\ channel_ # 0 /\ channel_ \in opened
      /\ channel_ \notin handed /\ opened = handed \cup {channel_} /\ connection_ = 0
  BY RegisteredFacts DEF IInv, ChannelInv, RestInv
<1>2. ~Has(q, "reset") /\ "reset" \in Functors
  BY <1>1 DEF IInv, ResetInv, Functors, ConnectorFunctors
<1>3. /\ pendingFunctors_' \in Seq(Functors) /\ Len(pendingFunctors_') = Len(q) + 1
      /\ OneReset(pendingFunctors_') /\ Has(pendingFunctors_', "reset")
  <2>1. /\ pendingFunctors_' \in Seq(Functors) /\ Len(pendingFunctors_') = Len(q) + 1
        /\ \A g \in Functors : Has(pendingFunctors_', g) <=> Has(q, g) \/ g = "reset"
        /\ OneReset(q) /\ ("reset" = "reset" => ~Has(q, "reset")) => OneReset(pendingFunctors_')
    BY <1>2, AppendFunctor
  <2> QED BY <1>2, <2>1
<1>4. /\ opened' = handed /\ status' \in [Sockets -> {<<"connecting">>, <<"failed">>} \cup Locals]
      /\ \A t \in Sockets : t # channel_ => status'[t] = status[t]
  BY <1>1 DEF IInv, TypeOK, Close
<1>5. AddressInv' /\ Locals' = Locals /\ KernelPeer' = KernelPeer
  BY AddressFrame
<1>6. /\ connect_' \in BOOLEAN /\ registered' \in BOOLEAN
      /\ clientConnect_' \in BOOLEAN /\ retry_' \in BOOLEAN
  BY Zenon DEF IInv, TypeOK
<1>7. TypeOK'
  BY <1>3, <1>4, <1>5, <1>6 DEF IInv, TypeOK, Functors
<1>8. SocketInv' /\ HandedInv'
  BY <1>1, <1>4, <1>5 DEF IInv, SocketInv, HandedInv, TypeOK
<1>9. ChannelInv'
  BY <1>4 DEF ChannelInv
<1>10. ResetInv'
  BY <1>1, <1>3 DEF ResetInv
<1>11. EventInv' /\ RestInv' /\ IdleInv'
  BY <1>1 DEF EventInv, RestInv, IdleInv
<1> QED BY <1>5, <1>7, <1>8, <1>9, <1>10, <1>11 DEF IInv

\* A refused connection, by either handler, one with itself, and stop().
LEMMA FailureInv ==
  ASSUME IInv, HandleError \/ WriteRetries \/ (RunStop /\ state_ = "kConnecting")
  PROVE  IInv'
<1>1. CASE HandleError \/ WriteRetries
  <2>1. PICK point \in {"write", "pending"} : Retry(channel_, point)
    BY <1>1 DEF HandleError, WriteRetries
  <2>2. /\ fault = "none" /\ died = "no" /\ state_ = "kConnecting" /\ RemoveAndResetChannel
        /\ UNCHANGED <<revents_, connect_, channel_, attempts, clientVars, fault>>
    BY <1>1 DEF HandleError, WriteRetries, At
  <2>3. /\ lpc' \in {"start", point} /\ back' \in {back, point} /\ Close(channel_)
        /\ state_' = "kDisconnected" /\ back \in {"write", "pending"}
    BY <2>1 DEF Retry, CallStartInLoop, IInv, TypeOK
  <2>4. /\ pendingFunctors_ \in Seq(Functors) /\ left' \in 0 .. Len(pendingFunctors_) + 1
        /\ pendingFunctors_' = Append(pendingFunctors_, "reset") /\ registered' = FALSE
    BY <2>2, QueueFacts DEF RemoveAndResetChannel
  <2>5. OneReset(pendingFunctors_)
    BY <2>2 DEF IInv, ResetInv
  <2> QED BY <2>1, <2>2, <2>3, <2>4, <2>5, GiveUpInv
<1>2. CASE RunStop /\ state_ = "kConnecting"
  <2>1. /\ fault = "none" /\ died = "no" /\ left > 0 /\ Head(pendingFunctors_) = "stop"
        /\ left' = left - 1 /\ registered' = FALSE
        /\ pendingFunctors_' = Append(Tail(pendingFunctors_), "reset")
        /\ Retry(channel_, "pending")
        /\ UNCHANGED <<revents_, connect_, channel_, attempts, clientVars, fault>>
    BY <1>2 DEF RunStop, RunNext, At, ConnectorFunctors
  <2>2. /\ lpc' \in {"start", "pending"} /\ back' \in {"write", "pending"} /\ Close(channel_)
        /\ state_' = "kDisconnected"
    BY <2>1 DEF Retry, CallStartInLoop, IInv, TypeOK
  <2>3. OneReset(pendingFunctors_)
    BY <2>1 DEF IInv, ResetInv
  <2>4. PICK q : q = Tail(pendingFunctors_)
    OBVIOUS
  <2>5. /\ q \in Seq(Functors) /\ Len(q) = Len(pendingFunctors_) - 1
        /\ left - 1 \in 0 .. Len(q) /\ \A g \in Functors : Has(q, g) => Has(pendingFunctors_, g)
        /\ OneReset(q) /\ Len(q) \in Nat
    BY <2>1, <2>3, <2>4, QueueFacts, TailFunctor
  <2>6. left' \in 0 .. Len(q) + 1
    BY <2>1, <2>5
  <2> QED BY <1>2, <2>1, <2>2, <2>4, <2>5, <2>6, GiveUpInv
<1> QED BY <1>1, <1>2

\* The connection is established: handed over, or closed.
LEMMA EstablishedInv ==
  ASSUME IInv, WriteConnected
  PROVE  IInv'
<1>1. /\ fault = "none" /\ lpc = "write" /\ died = "no" /\ state_ = "kConnecting"
      /\ status[channel_] # <<"failed">> /\ ~SelfConnected(channel_)
      /\ RemoveAndResetChannel /\ state_' = "kConnected" /\ lpc' = "pending"
      /\ UNCHANGED <<back, revents_, connect_, channel_, attempts, asked, serverAddr_, retry_,
                     clientConnect_, died>>
      /\ fault' \in {"none", "LOG_ERROR"}
  BY DEF WriteConnected, At
<1>2. /\ registered /\ channel_ \in Sockets /\ channel_ # 0 /\ channel_ \in opened
      /\ channel_ \notin handed /\ opened = handed \cup {channel_} /\ connection_ = 0
  BY <1>1, RegisteredFacts DEF IInv, ChannelInv, RestInv
<1>3. ~Has(pendingFunctors_, "reset") /\ OneReset(pendingFunctors_) /\ "reset" \in Functors
  BY <1>1, <1>2 DEF IInv, ResetInv, Functors, ConnectorFunctors
<1>4. pendingFunctors_' = Append(pendingFunctors_, "reset") /\ left' = left /\ registered' = FALSE
  BY <1>1 DEF RemoveAndResetChannel
<1>5. /\ pendingFunctors_' \in Seq(Functors) /\ Len(pendingFunctors_') = Len(pendingFunctors_) + 1
      /\ OneReset(pendingFunctors_') /\ Has(pendingFunctors_', "reset")
  <2>1. /\ pendingFunctors_' \in Seq(Functors)
        /\ Len(pendingFunctors_') = Len(pendingFunctors_) + 1
        /\ \A g \in Functors :
             Has(pendingFunctors_', g) <=> Has(pendingFunctors_, g) \/ g = "reset"
        /\ OneReset(pendingFunctors_) /\ ("reset" = "reset" => ~Has(pendingFunctors_, "reset"))
             => OneReset(pendingFunctors_')
    BY <1>3, <1>4, QueueFacts, AppendFunctor
  <2> QED BY <1>3, <2>1
<1>6. left' \in 0 .. Len(pendingFunctors_')
  BY <1>4, <1>5, QueueFacts
<1>7. status[channel_] \in Locals \ {KernelPeer}
  <2>1. status[channel_] \in Locals
    BY <1>1, <1>2 DEF IInv, EventInv
  <2>2. status[channel_] # KernelPeer
    BY <1>1, <1>2, SelfConnectFacts
  <2> QED BY <2>1, <2>2
<1>8. \/ /\ handed' = handed \cup {channel_} /\ opened' = opened /\ status' = status
         /\ connection_' = 1 /\ closeCallback_' = "client"
      \/ /\ Close(channel_)
         /\ UNCHANGED <<connection_, closeCallback_, handed>>
  BY DEF WriteConnected, NewConnection, NewConnectionFd
<1>9. /\ opened' = handed' /\ handed' \subseteq handed \cup {channel_}
      /\ status' \in [Sockets -> {<<"connecting">>, <<"failed">>} \cup Locals]
      /\ \A t \in Sockets : t \in handed' => status'[t] = status[t]
      /\ connection_' \in {0, 1} /\ closeCallback_' \in {"client", "detail"}
  <2>1. /\ status \in [Sockets -> {<<"connecting">>, <<"failed">>} \cup Locals]
        /\ connection_ \in {0, 1} /\ closeCallback_ \in {"client", "detail"}
    BY DEF IInv, TypeOK
  <2>2. CASE /\ handed' = handed \cup {channel_} /\ opened' = opened /\ status' = status
             /\ connection_' = 1 /\ closeCallback_' = "client"
    BY <1>2, <2>1, <2>2
  <2>3. CASE Close(channel_) /\ UNCHANGED <<connection_, closeCallback_, handed>>
    <3>1. opened' = handed
      BY <1>2, <2>3 DEF Close
    <3>2. /\ status' \in [Sockets -> {<<"connecting">>, <<"failed">>} \cup Locals]
          /\ \A t \in Sockets : t # channel_ => status'[t] = status[t]
      BY <2>1, <2>3 DEF Close
    <3> QED BY <1>2, <2>1, <2>3, <3>1, <3>2
  <2> QED BY <1>8, <2>2, <2>3
<1>10. AddressInv' /\ Locals' = Locals /\ KernelPeer' = KernelPeer
  BY <1>1, AddressFrame
<1>11. /\ connect_' \in BOOLEAN /\ registered' \in BOOLEAN
      /\ clientConnect_' \in BOOLEAN /\ retry_' \in BOOLEAN
  BY <1>1, <1>4, Zenon DEF IInv, TypeOK
<1>12. TypeOK'
  BY <1>1, <1>2, <1>4, <1>5, <1>6, <1>9, <1>10, <1>11 DEF IInv, TypeOK, Functors
<1>13. SocketInv' /\ HandedInv'
  BY <1>1, <1>2, <1>7, <1>9, <1>10 DEF IInv, SocketInv, HandedInv, TypeOK
<1>14. ChannelInv' /\ ResetInv'
  BY <1>1, <1>2, <1>4, <1>5, <1>9 DEF ChannelInv, ResetInv
<1>15. EventInv' /\ RestInv' /\ IdleInv'
  BY <1>1 DEF EventInv, RestInv, IdleInv
<1> QED BY <1>10, <1>12, <1>13, <1>14, <1>15 DEF IInv
\* A functor is taken out of the queue; resetChannel() destroys the object.
LEMMA DequeueInv ==
  ASSUME IInv, fault = "none", lpc = "pending", left > 0, Dequeued,
         NEW f \in Functors, f = Head(pendingFunctors_),
         channel_' = IF f = "reset" THEN 0 ELSE channel_,
         (lpc' = lpc /\ back' = back) \/ (lpc' = "start" /\ back' = "pending" /\ died = "no"),
         closeCallback_' \in {closeCallback_, "detail"},
         UNCHANGED <<revents_, state_, connect_, registered, attempts, opened, status, asked,
                     serverAddr_, clientConnect_, retry_, connection_, died, handed, fault>>
  PROVE  IInv'
<1>1. OneReset(pendingFunctors_)
  BY DEF IInv, ResetInv
<1>2. /\ pendingFunctors_' \in Seq(Functors) /\ left' \in 0 .. Len(pendingFunctors_')
      /\ Has(pendingFunctors_, f)
      /\ \A g \in Functors : Has(pendingFunctors_', g) => Has(pendingFunctors_, g)
      /\ \A g \in Functors : Has(pendingFunctors_, g) => Has(pendingFunctors_', g) \/ g = f
      /\ OneReset(pendingFunctors_') /\ (f = "reset" => ~Has(pendingFunctors_', "reset"))
  BY <1>1, QueueFacts, TailFunctor DEF Dequeued
<1>3. "reset" \in Functors
  BY DEF Functors, ConnectorFunctors
<1>4. f = "reset" => ~registered /\ channel_' = 0
  BY <1>2 DEF IInv, ResetInv
<1>5. SocketInv' /\ HandedInv' /\ AddressInv' /\ Locals' = Locals /\ KernelPeer' = KernelPeer
  BY SocketFrame
<1>6. TypeOK'
  BY <1>2, <1>5 DEF IInv, TypeOK, Functors
<1>7. ChannelInv'
  BY <1>4 DEF IInv, ChannelInv
<1>8. ResetInv'
  BY <1>2, <1>3, <1>4 DEF IInv, ResetInv
<1>9. EventInv' /\ RestInv'
  BY <1>5 DEF IInv, EventInv, RestInv
<1>10. IdleInv'
  <2>1. \A g \in ConnectorFunctors : g \in Functors
    BY DEF Functors
  <2> QED BY <1>2, <2>1 DEF IInv, IdleInv
<1> QED BY <1>5, <1>6, <1>7, <1>8, <1>9, <1>10 DEF IInv

\* The functors that do not end an attempt or a connection.
LEMMA RunInv ==
  ASSUME IInv, RunStart \/ (RunStop /\ state_ # "kConnecting") \/ RunReset
               \/ RunSetCloseCallback \/ RunDestroyed
  PROVE  IInv'
<1>1. /\ fault = "none" /\ lpc = "pending" /\ left > 0 /\ Dequeued
      /\ Head(pendingFunctors_) \in Functors
      /\ channel_' = IF Head(pendingFunctors_) = "reset" THEN 0 ELSE channel_
      /\ closeCallback_' \in {closeCallback_, "detail"}
      /\ UNCHANGED <<revents_, state_, connect_, registered, attempts, opened, status, asked,
                     serverAddr_, clientConnect_, retry_, connection_, died, handed, fault>>
      /\ (lpc' = lpc /\ back' = back) \/ (lpc' = "start" /\ back' = "pending" /\ died = "no")
  <2>1. CASE RunStart
    BY <2>1 DEF RunStart, RunNext, At, CallStartInLoop, ConnectorFunctors, Functors
  <2>2. CASE RunStop /\ state_ # "kConnecting"
    BY <2>2 DEF RunStop, RunNext, At, ConnectorFunctors, Functors, Dequeued
  <2>3. CASE RunReset
    BY <2>3 DEF RunReset, RunNext, At, ConnectorFunctors, Functors
  <2>4. CASE RunSetCloseCallback
    BY <2>4 DEF RunSetCloseCallback, RunNext, At, Functors, SetCloseCallback
  <2>5. CASE RunDestroyed
    BY <2>5 DEF RunDestroyed, RunNext, At, Functors
  <2> QED BY <2>1, <2>2, <2>3, <2>4, <2>5
<1> QED BY <1>1, DequeueInv

\* connect(), stop() and disconnect() by the user.
LEMMA UserInv ==
  ASSUME IInv, OwnerConnect \/ OtherConnect \/ Stop \/ Disconnect
  PROVE  IInv'
<1>1. /\ fault = "none" /\ died = "no"
      /\ UNCHANGED <<revents_, state_, channel_, registered, left, attempts, opened, status, asked,
                     serverAddr_, retry_, connection_, closeCallback_, died, handed, fault>>
      /\ (UNCHANGED <<lpc, back>>) \/ (lpc' = "start" /\ back' = "pending")
      /\ \/ pendingFunctors_' = pendingFunctors_
         \/ \E f \in {"start", "stop"} : pendingFunctors_' = Append(pendingFunctors_, f)
  BY DEF OwnerConnect, OtherConnect, Stop, Disconnect, Client, CallStartInLoop, StopQueued
<1>2. /\ connect_' \in BOOLEAN /\ clientConnect_' \in BOOLEAN
  <2>1. connect_' \in {connect_, TRUE, FALSE} /\ clientConnect_' \in {TRUE, FALSE}
    BY Zenon DEF OwnerConnect, OtherConnect, Stop, Disconnect
  <2> QED BY <2>1, Zenon DEF IInv, TypeOK
<1>3. /\ pendingFunctors_' \in Seq(Functors) /\ left' \in 0 .. Len(pendingFunctors_')
      /\ OneReset(pendingFunctors_')
      /\ Has(pendingFunctors_', "reset") <=> Has(pendingFunctors_, "reset")
  <2>1. OneReset(pendingFunctors_)
    BY <1>1 DEF IInv, ResetInv
  <2>2. ASSUME NEW f \in {"start", "stop"}, pendingFunctors_' = Append(pendingFunctors_, f)
        PROVE  /\ pendingFunctors_' \in Seq(Functors) /\ left' \in 0 .. Len(pendingFunctors_')
               /\ OneReset(pendingFunctors_')
               /\ Has(pendingFunctors_', "reset") <=> Has(pendingFunctors_, "reset")
    <3>1. f \in Functors /\ f # "reset" /\ "reset" \in Functors
      BY DEF Functors, ConnectorFunctors
    <3>2. /\ pendingFunctors_' \in Seq(Functors)
          /\ Len(pendingFunctors_') = Len(pendingFunctors_) + 1
          /\ \A g \in Functors : Has(pendingFunctors_', g) <=> Has(pendingFunctors_, g) \/ g = f
          /\ OneReset(pendingFunctors_')
      BY <2>1, <2>2, <3>1, QueueFacts, AppendFunctor
    <3> QED BY <1>1, <3>1, <3>2, QueueFacts
  <2> QED BY <1>1, <2>1, <2>2, QueueFacts
<1>4. SocketInv' /\ HandedInv' /\ AddressInv' /\ Locals' = Locals /\ KernelPeer' = KernelPeer
  BY <1>1, SocketFrame
<1>5. TypeOK'
  <2>1. lpc' \in {"poll", "error", "write", "start", "pending"} /\ back' \in {"write", "pending"}
    BY <1>1 DEF IInv, TypeOK
  <2> QED BY <1>1, <1>2, <1>3, <1>4, <2>1 DEF IInv, TypeOK, Functors
<1>6. ChannelInv' /\ ResetInv'
  BY <1>1, <1>3, ConnectorFrame DEF IInv, ResetInv
<1>7. EventInv' /\ RestInv' /\ IdleInv'
  BY <1>1, <1>4 DEF IInv, EventInv, RestInv, IdleInv
<1> QED BY <1>4, <1>5, <1>6, <1>7 DEF IInv
\* handleClose() lets the connection go and restarts the Connector, perhaps.
LEMMA RemoveInv ==
  ASSUME IInv, fault = "none", lpc = "pending", connection_ # 0,
         closeCallback_ = "client" => died = "no",
         NEW q \in Seq(Functors), OneReset(q),
         Has(q, "reset") <=> Has(pendingFunctors_, "reset"),
         \A f \in Functors : Has(q, f) => Has(pendingFunctors_, f),
         left' \in 0 .. Len(q) + 1, RemoveConnection(q),
         UNCHANGED <<revents_, chan, sockVars, closeCallback_, handed, userVars, fault>>
  PROVE  IInv'
<1>1. /\ state_ = "kConnected" /\ ~registered
  BY DEF IInv, RestInv, ChannelInv
<1>2. /\ connection_' = 0 /\ pendingFunctors_' = Append(q, "destroyed")
      /\ \/ lpc' = "start" /\ back' = "pending" /\ state_' = "kDisconnected" /\ died = "no"
         \/ UNCHANGED <<lpc, back, state_>>
  BY DEF RemoveConnection, Restart, CallStartInLoop
<1>3. connect_' \in BOOLEAN
  <2>1. connect_' \in {TRUE, connect_}
    BY Zenon DEF RemoveConnection, Restart
  <2> QED BY <2>1, Zenon DEF IInv, TypeOK
<1>4. /\ pendingFunctors_' \in Seq(Functors) /\ left' \in 0 .. Len(pendingFunctors_')
      /\ OneReset(pendingFunctors_')
      /\ Has(pendingFunctors_', "reset") <=> Has(pendingFunctors_, "reset")
      /\ \A f \in ConnectorFunctors : Has(pendingFunctors_', f) => Has(pendingFunctors_, f)
  <2>1. /\ "destroyed" \in Functors /\ "reset" \in Functors /\ "destroyed" # "reset"
        /\ \A f \in ConnectorFunctors : f \in Functors /\ f # "destroyed"
    BY DEF Functors, ConnectorFunctors
  <2>2. /\ pendingFunctors_' \in Seq(Functors)
        /\ Len(pendingFunctors_') = Len(q) + 1
        /\ \A g \in Functors : Has(pendingFunctors_', g) <=> Has(q, g) \/ g = "destroyed"
        /\ OneReset(pendingFunctors_')
    BY <1>2, <2>1, AppendFunctor
  <2> QED BY <2>1, <2>2
<1>5. SocketInv' /\ HandedInv' /\ AddressInv' /\ Locals' = Locals /\ KernelPeer' = KernelPeer
  BY SocketFrame
<1>6. TypeOK'
  BY <1>2, <1>3, <1>4, <1>5 DEF IInv, TypeOK, Functors
<1>7. ChannelInv' /\ ResetInv'
  BY <1>1, <1>2, <1>4 DEF IInv, ChannelInv, ResetInv
<1>8. EventInv' /\ RestInv'
  BY <1>2 DEF IInv, EventInv, RestInv
<1>9. IdleInv'
  BY <1>2, <1>4 DEF IInv, IdleInv
<1> QED BY <1>5, <1>6, <1>7, <1>8, <1>9 DEF IInv

\* The connection goes down: the peer closes it, or forceClose() does.
LEMMA CloseInv ==
  ASSUME IInv, ConnectionCloses \/ RunForceClose
  PROVE  IInv'
<1>1. CASE ConnectionCloses
  <2>1. /\ fault = "none" /\ lpc = "pending" /\ connection_ # 0
        /\ closeCallback_ = "client" => died = "no"
        /\ RemoveConnection(pendingFunctors_) /\ left' = left
        /\ UNCHANGED <<revents_, chan, sockVars, closeCallback_, handed, userVars, fault>>
    BY <1>1 DEF ConnectionCloses, At
  <2>2. OneReset(pendingFunctors_) /\ left' \in 0 .. Len(pendingFunctors_) + 1
    BY <2>1, QueueFacts DEF IInv, ResetInv
  <2> QED BY <2>1, <2>2, QueueFacts, RemoveInv
<1>2. CASE RunForceClose
  <2>1. /\ fault = "none" /\ lpc = "pending" /\ left > 0 /\ left' = left - 1
        /\ Head(pendingFunctors_) = "forceClose"
        /\ UNCHANGED <<revents_, chan, sockVars, closeCallback_, handed, userVars, fault>>
    BY <1>2 DEF RunForceClose, RunNext, At
  <2>2. OneReset(pendingFunctors_)
    BY <2>1 DEF IInv, ResetInv
  <2>3. PICK q : q = Tail(pendingFunctors_)
    OBVIOUS
  <2>4. /\ q \in Seq(Functors) /\ Len(q) = Len(pendingFunctors_) - 1 /\ Len(q) \in Nat
        /\ left' \in 0 .. Len(q) /\ OneReset(q)
        /\ \A g \in Functors : Has(q, g) => Has(pendingFunctors_, g)
        /\ \A g \in Functors : Has(pendingFunctors_, g) => Has(q, g) \/ g = "forceClose"
    BY <2>1, <2>2, <2>3, QueueFacts, TailFunctor
  <2>5. "reset" \in Functors /\ "forceClose" \in Functors
    BY DEF Functors, ConnectorFunctors
  <2>6. Has(q, "reset") <=> Has(pendingFunctors_, "reset")
    BY <2>4, <2>5
  <2>7. CASE StillOpen
    <3>1. /\ connection_ # 0 /\ (closeCallback_ = "client" => died = "no")
          /\ RemoveConnection(q)
      BY <1>2, <2>3, <2>7 DEF RunForceClose, StillOpen
    <3>2. left' \in 0 .. Len(q) + 1
      BY <2>4
    <3> QED BY <2>1, <2>4, <2>6, <3>1, <3>2, RemoveInv
  <2>8. CASE ~StillOpen
    <3>1. Dequeued /\ UNCHANGED <<lpc, back, state_, connect_, connection_>>
      BY <1>2, <2>1, <2>8 DEF RunForceClose, Dequeued
    <3> QED BY <2>1, <2>5, <3>1, DequeueInv
  <2> QED BY <2>7, <2>8
<1> QED BY <1>1, <1>2

\* ~TcpClient(), in the loop's thread or in another one.
LEMMA DestroyInv ==
  ASSUME IInv, OwnerDestroy \/ OtherDestroy
  PROVE  IInv'
<1>1. /\ fault = "none" /\ died = "no"
      /\ UNCHANGED <<lpc, back, revents_, state_, connect_, channel_, registered, left, attempts,
                     opened, status, asked, serverAddr_, clientConnect_, retry_, connection_,
                     handed, fault>>
      /\ died' \in {"idle", "busy"} /\ closeCallback_' \in {closeCallback_, "detail"}
  BY DEF OwnerDestroy, OtherDestroy, Client, SetCloseCallback
<1>2. \/ pendingFunctors_' = pendingFunctors_
      \/ \E f \in {"forceClose", "setCloseCallback"} :
           pendingFunctors_' = Append(pendingFunctors_, f)
      \/ pendingFunctors_' = Append(Append(pendingFunctors_, "setCloseCallback"), "forceClose")
  BY DEF OwnerDestroy, OtherDestroy
<1>3. OneReset(pendingFunctors_)
  BY <1>1 DEF IInv, ResetInv
<1>4. ASSUME NEW q \in Seq(Functors), OneReset(q), NEW f \in {"forceClose", "setCloseCallback"},
             NEW q2, q2 = Append(q, f)
      PROVE  /\ q2 \in Seq(Functors) /\ Len(q2) = Len(q) + 1 /\ OneReset(q2)
             /\ \A g \in ConnectorFunctors : Has(q2, g) <=> Has(q, g)
  <2>1. /\ f \in Functors /\ f # "reset"
        /\ \A g \in ConnectorFunctors : g \in Functors /\ g # f
    BY DEF Functors, ConnectorFunctors
  <2> QED BY <1>4, <2>1, AppendFunctor
<1>5. /\ pendingFunctors_' \in Seq(Functors) /\ left' \in 0 .. Len(pendingFunctors_')
      /\ OneReset(pendingFunctors_')
      /\ \A g \in ConnectorFunctors : Has(pendingFunctors_', g) <=> Has(pendingFunctors_, g)
  <2>1. CASE pendingFunctors_' = pendingFunctors_
    BY <1>1, <1>3, <2>1, QueueFacts
  <2>2. ASSUME NEW f \in {"forceClose", "setCloseCallback"},
               pendingFunctors_' = Append(pendingFunctors_, f)
        PROVE  /\ pendingFunctors_' \in Seq(Functors) /\ left' \in 0 .. Len(pendingFunctors_')
               /\ OneReset(pendingFunctors_')
               /\ \A g \in ConnectorFunctors :
                    Has(pendingFunctors_', g) <=> Has(pendingFunctors_, g)
    <3>1. /\ pendingFunctors_' \in Seq(Functors) /\ OneReset(pendingFunctors_')
          /\ Len(pendingFunctors_') = Len(pendingFunctors_) + 1
          /\ \A g \in ConnectorFunctors : Has(pendingFunctors_', g) <=> Has(pendingFunctors_, g)
      BY <1>3, <1>4, <2>2, QueueFacts
    <3> QED BY <1>1, <3>1, QueueFacts
  <2>3. CASE pendingFunctors_' = Append(Append(pendingFunctors_, "setCloseCallback"), "forceClose")
    <3>1. PICK q : q = Append(pendingFunctors_, "setCloseCallback")
      OBVIOUS
    <3>2. /\ q \in Seq(Functors) /\ OneReset(q) /\ Len(q) = Len(pendingFunctors_) + 1
          /\ \A g \in ConnectorFunctors : Has(q, g) <=> Has(pendingFunctors_, g)
      BY <1>3, <1>4, <3>1, QueueFacts
    <3>3. /\ pendingFunctors_' \in Seq(Functors) /\ OneReset(pendingFunctors_')
          /\ Len(pendingFunctors_') = Len(q) + 1
          /\ \A g \in ConnectorFunctors : Has(pendingFunctors_', g) <=> Has(q, g)
      BY <1>4, <2>3, <3>1, <3>2
    <3> QED BY <1>1, <3>2, <3>3, QueueFacts
  <2> QED BY <1>2, <2>1, <2>2, <2>3
<1>6. SocketInv' /\ HandedInv' /\ AddressInv' /\ Locals' = Locals /\ KernelPeer' = KernelPeer
  BY <1>1, SocketFrame
<1>7. TypeOK'
  BY <1>1, <1>5, <1>6 DEF IInv, TypeOK, Functors
<1>8. ChannelInv' /\ ResetInv'
  <2>1. "reset" \in ConnectorFunctors
    BY DEF ConnectorFunctors
  <2> QED BY <1>1, <1>5, <2>1, ConnectorFrame DEF IInv, ResetInv
<1>9. EventInv' /\ RestInv'
  BY <1>1, <1>6 DEF IInv, EventInv, RestInv
<1>10. IdleInv'
  <2>1. ASSUME died' = "idle"
        PROVE  /\ lpc \in {"poll", "pending"} /\ ~registered
               /\ \A f \in ConnectorFunctors : ~Has(pendingFunctors_, f)
               /\ connection_ = 0 \/ closeCallback_' = "detail"
    <3>1. ~Busy /\ (connection_ # 0 => closeCallback_' = "detail") /\ lpc = "pending"
      BY <2>1 DEF OwnerDestroy, OtherDestroy, SetCloseCallback, At
    <3> QED BY <3>1 DEF Busy, Has
  <2> QED BY <1>1, <1>5, <2>1 DEF IdleInv
<1> QED BY <1>5, <1>6, <1>7, <1>8, <1>9, <1>10 DEF IInv

\* Every step preserves the invariant.
LEMMA NextInv == IInv /\ [Next]_vars => IInv'
<1> SUFFICES ASSUME IInv, [Next]_vars PROVE IInv'
  OBVIOUS
<1>1. CASE UNCHANGED vars
  <2>1. UNCHANGED <<lpc, back, revents_, state_, connect_, channel_, registered, pendingFunctors_,
                    left, attempts, opened, status, asked, serverAddr_, clientConnect_, retry_,
                    connection_, closeCallback_, died, handed, fault>>
    BY <1>1 DEF vars
  <2>2. /\ SocketInv' /\ HandedInv' /\ AddressInv' /\ Locals' = Locals
      /\ KernelPeer' = KernelPeer /\ ChannelInv' /\ ResetInv'
    BY <2>1, SocketFrame, ConnectorFrame, ResetFrame
  <2>3. TypeOK' /\ EventInv' /\ RestInv' /\ IdleInv'
    BY <2>1, <2>2 DEF IInv, TypeOK, EventInv, RestInv, IdleInv
  <2> QED BY <2>2, <2>3 DEF IInv
<1>2. CASE StartFails \/ SocketFails \/ WriteIgnored \/ UseAfterFree
  BY <1>2, FaultInv
<1>3. CASE Connecting \/ ConnectingFails \/ ConnectRefused \/ ConnectGivesUp
  BY <1>3, ConnectInv
<1>4. CASE Poll \/ NoError \/ PendingDone
  BY <1>4, LookInv
<1>5. CASE HandleError \/ WriteRetries
  BY <1>5, FailureInv
<1>6. CASE WriteConnected
  BY <1>6, EstablishedInv
<1>7. CASE RunStart \/ RunReset \/ RunSetCloseCallback \/ RunDestroyed
  BY <1>7, RunInv
<1>8. CASE RunStop
  <2>1. CASE state_ = "kConnecting"
    BY <1>8, <2>1, FailureInv
  <2>2. CASE state_ # "kConnecting"
    BY <1>8, <2>2, RunInv
  <2> QED BY <2>1, <2>2
<1>9. CASE RunForceClose \/ ConnectionCloses
  BY <1>9, CloseInv
<1>10. CASE OwnerConnect \/ OtherConnect \/ Stop \/ Disconnect
  BY <1>10, UserInv
<1>11. CASE OwnerDestroy \/ OtherDestroy
  BY <1>11, DestroyInv
<1>12. CASE \E s \in Sockets : AttemptEnds(s)
  BY <1>12, AttemptInv
<1> QED BY <1>1, <1>2, <1>3, <1>4, <1>5, <1>6, <1>7, <1>8, <1>9, <1>10, <1>11, <1>12
        DEF Next, LoopStep

-----------------------------------------------------------------------------
(***************************************************************************)
(* The theorems.                                                           *)
(***************************************************************************)

\* The invariant holds in every reachable state.
LEMMA Inductive == Spec => []IInv
BY InitInv, NextInv, PTL DEF Spec

\* The Connector's channel is in the poller exactly while the Connector is
\* connecting, and its socket is open and nobody else's.
THEOREM ConnectorChannelWhileConnecting == Spec => []ChannelWhileConnecting
<1>1. IInv => ChannelWhileConnecting
  BY DEF IInv, ChannelInv, ChannelWhileConnecting
<1> QED BY <1>1, Inductive, PTL

\* The only open socket that was not handed to the TcpClient is the one that
\* startInLoop() is connecting: retry(), stop() and the errors close the others.
THEOREM ConnectorUnhandedSocketsClosed == Spec => []UnhandedSocketsClosed
<1>1. IInv => UnhandedSocketsClosed
  BY DEF IInv, ChannelInv, UnhandedSocketsClosed
<1> QED BY <1>1, Inductive, PTL

\* removeAndResetChannel() queues one resetChannel(), for the channel that
\* waits out of the poller, and no later attempt replaces that channel.
THEOREM ConnectorResetForOldChannel == Spec => []ResetForOldChannel
<1>1. IInv => ResetForOldChannel
  <2> SUFFICES ASSUME IInv, fault = "none"
               PROVE  Cardinality({i \in DOMAIN pendingFunctors_ : pendingFunctors_[i] = "reset"})
                        = IF channel_ # 0 /\ ~registered THEN 1 ELSE 0
    BY DEF ResetForOldChannel
  <2> DEFINE R == {i \in DOMAIN pendingFunctors_ : pendingFunctors_[i] = "reset"}
  <2>1. /\ OneReset(pendingFunctors_)
        /\ Has(pendingFunctors_, "reset") <=> channel_ # 0 /\ ~registered
    BY DEF IInv, ResetInv
  <2>2. CASE Has(pendingFunctors_, "reset")
    <3>1. PICK i \in DOMAIN pendingFunctors_ : pendingFunctors_[i] = "reset"
      BY <2>2 DEF Has
    <3>2. R = {i}
      BY <2>1, <3>1 DEF OneReset
    <3>3. Cardinality(R) = 1
      BY <3>2, FS_Singleton
    <3> QED BY <2>1, <2>2, <3>3
  <2>3. CASE ~Has(pendingFunctors_, "reset")
    <3>1. R = {}
      BY <2>3 DEF Has
    <3>2. Cardinality(R) = 0
      BY <3>1, FS_EmptySet
    <3> QED BY <2>1, <2>3, <3>2
  <2> QED BY <2>2, <2>3
<1> QED BY <1>1, Inductive, PTL

\* What handleWrite() hands to newConnectionCallback_ is connected, not to
\* itself, and, where the InetAddress fits, to the server the user named, however
\* that InetAddress was made.
THEOREM ConnectorHandedIsServer == Spec => []HandedIsServer
<1>1. \A r \in Locals : Len(r) = 2
  BY PeerLength DEF Locals
<1>2. IInv => HandedIsServer
  BY <1>1 DEF IInv, AddressInv, HandedInv, HandedIsServer, Connected
<1> QED BY <1>2, Inductive, PTL

\* ~TcpClient() in an idle loop leaves nothing behind that uses the dead.
THEOREM ConnectorDestroyedCleanly == Spec => []DestroyedCleanly
<1>1. IInv => DestroyedCleanly
  BY DEF IInv, IdleInv, DestroyedCleanly
<1> QED BY <1>1, Inductive, PTL
=============================================================================
