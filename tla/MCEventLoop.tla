---------------------------- MODULE MCEventLoop ----------------------------
(***************************************************************************)
(* Instances of EventLoop for TLC.                                         *)
(***************************************************************************)
EXTENDS EventLoop, TLC

\* The other threads are interchangeable.
Symmetry == Permutations(Others)
=============================================================================
