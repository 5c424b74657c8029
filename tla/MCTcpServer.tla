----------------------------- MODULE MCTcpServer -----------------------------
(***************************************************************************)
(* The instance of TcpServer for TLC.                                      *)
(***************************************************************************)
EXTENDS TcpServer
=============================================================================
