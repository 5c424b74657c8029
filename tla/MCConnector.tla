----------------------------- MODULE MCConnector -----------------------------
(***************************************************************************)
(* The instances of Connector for TLC.                                     *)
(***************************************************************************)
EXTENDS Connector

\* A server on this host, whose port has two different bytes, and one behind
\* an IPv6 address.
MCServers == {<<"127.0.0.1", 258>>, <<"fe80::1", 258>>}
=============================================================================
