-------------------------- MODULE MCEventLoopThread --------------------------
(***************************************************************************)
(* The instance of EventLoopThread for TLC.                                *)
(***************************************************************************)
EXTENDS EventLoopThread
=============================================================================
