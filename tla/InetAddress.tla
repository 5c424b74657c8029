----------------------------- MODULE InetAddress -----------------------------
(***************************************************************************)
(* InetAddress and the address part of SocketsOps: an IPv4 or IPv6 socket  *)
(* address as the union of sockaddr_in and sockaddr_in6, in which sin_addr *)
(* and sin6_flowinfo are the same 32 bits. The bytes of an address are     *)
(* named by its text; a port is a 16-bit word in network byte order on a   *)
(* little-endian host.                                                     *)
(***************************************************************************)
EXTENDS Naturals

IPv4 == {"0.0.0.0", "127.0.0.1", "10.0.0.1", "10.0.0.2"}
IPv6 == {"::", "::1", "fe80::1"}

\* htobe16()
hostToNetwork16(host16) == (host16 % 256) * 256 + (host16 \div 256)

\* be16toh()
networkToHost16(net16) == (net16 % 256) * 256 + (net16 \div 256)

\* memset(&addr6_, 0, sizeof addr6_)
ZeroAddress == [family |-> "AF_UNSPEC", port |-> 0, word |-> "0.0.0.0", addr6 |-> "::", scope |-> 0]

\* InetAddress(portArg, loopbackOnly, ipv6)
PortAddress(portArg, loopbackOnly, ipv6) ==
  IF ipv6
  THEN [ZeroAddress EXCEPT !.family = "AF_INET6", !.port = hostToNetwork16(portArg),
                           !.addr6 = IF loopbackOnly THEN "::1" ELSE "::"]
  ELSE [ZeroAddress EXCEPT !.family = "AF_INET", !.port = hostToNetwork16(portArg),
                           !.word = IF loopbackOnly THEN "127.0.0.1" ELSE "0.0.0.0"]

\* The two fromIpPort(): where inet_pton() cannot read the text, the zero
\* address stays.
fromIpPort(ip, port, family) ==
  [ZeroAddress EXCEPT !.family = family, !.port = hostToNetwork16(port),
                      !.word = IF family = "AF_INET" /\ ip \in IPv4 THEN ip ELSE @,
                      !.addr6 = IF family = "AF_INET6" /\ ip \in IPv6 THEN ip ELSE @]

\* InetAddress(ip, portArg, ipv6): a text with a colon is an IPv6 address.
IpAddress(ip, portArg, ipv6) ==
  fromIpPort(ip, portArg, IF ipv6 \/ ip \in IPv6 THEN "AF_INET6" ELSE "AF_INET")

toIp(addr) == IF addr.family = "AF_INET" THEN addr.word ELSE addr.addr6

\* The text of toIpPort(), less its punctuation.
toIpPort(addr) == <<toIp(addr), networkToHost16(addr.port)>>

\* resolve() stores the host's IPv4 address, whatever the family of out.
resolve(out, host) == [out EXCEPT !.word = host]

setScopeId(addr, scope_id) ==
  IF addr.family = "AF_INET6" THEN [addr EXCEPT !.scope = scope_id] ELSE addr

\* Mutant of isSelfConnect: knows only IPv6.
isSelfConnectOnly6(localaddr, peeraddr) ==
  /\ localaddr.family = "AF_INET6"
  /\ localaddr.port = peeraddr.port /\ localaddr.addr6 = peeraddr.addr6

\* isSelfConnect(), given what getLocalAddr() and getPeerAddr() return.
isSelfConnect(localaddr, peeraddr) ==
  /\ localaddr.family \in {"AF_INET", "AF_INET6"}
  /\ localaddr.port = peeraddr.port
  /\ IF localaddr.family = "AF_INET" THEN localaddr.word = peeraddr.word
                                     ELSE localaddr.addr6 = peeraddr.addr6
=============================================================================
