--------------------------- MODULE ConnectionLife ---------------------------
(***************************************************************************)
(* What a TcpServer promises for each of its connections, whichever loop   *)
(* it lives in: it is established, goes down at most once, is forgotten by *)
(* the server, and only then gone for good: connectDestroyed() has taken   *)
(* its channel out of the poller.                                          *)
(***************************************************************************)
CONSTANT Conns

VARIABLES
  phase,    \* of each connection
  listed,   \* the connections in the server's map
  server    \* does the TcpServer exist?

vars == <<phase, listed, server>>

Phases == {"none", "connecting", "up", "down", "gone"}

\* Watching may begin when some connections have already been accepted.
Init ==
  /\ phase \in [Conns -> {"none", "connecting", "up"}]
  /\ listed = {c \in Conns : phase[c] # "none"}
  /\ server = TRUE

Moves(c, from, to) == phase[c] \in from /\ phase' = [phase EXCEPT ![c] = to]

\* A connection in the server's own loop is established on the spot.
Accept(c) ==
  /\ server
  /\ Moves(c, {"none"}, "connecting") \/ Moves(c, {"none"}, "up")
  /\ listed' = listed \cup {c}
  /\ UNCHANGED server

Establish(c) == Moves(c, {"connecting"}, "up") /\ UNCHANGED <<listed, server>>

\* In the server's own loop it is forgotten in the same step.
Close(c) ==
  /\ Moves(c, {"up"}, "down")
  /\ listed' \in {listed, listed \ {c}}
  /\ UNCHANGED server

\* Only a connection that is down is forgotten while the server lives.
Forget(c) ==
  /\ server
  /\ phase[c] = "down" /\ c \in listed
  /\ listed' = listed \ {c}
  /\ UNCHANGED <<phase, server>>

Destroy(c) ==
  /\ c \notin listed
  /\ Moves(c, {"up", "down"}, "gone")
  /\ UNCHANGED <<listed, server>>

\* The server ends, once: every connection is forgotten, those of its own loop
\* are gone at once.
EndServer ==
  /\ server /\ server' = FALSE
  /\ listed' = {}
  /\ \E D \in SUBSET listed :
       /\ \A c \in D : phase[c] \in {"up", "down"}
       /\ phase' = [c \in Conns |-> IF c \in D THEN "gone" ELSE phase[c]]

Next ==
  \/ EndServer
  \/ \E c \in Conns : Accept(c) \/ Establish(c) \/ Close(c) \/ Forget(c) \/ Destroy(c)

Spec == Init /\ [][Next]_vars
=============================================================================
