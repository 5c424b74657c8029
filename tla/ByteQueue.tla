----------------------------- MODULE ByteQueue -----------------------------
(***************************************************************************)
(* What a Buffer promises: a queue of bytes. Bytes are added at the end or *)
(* in front, and leave from the front in order. "given" and "taken" are    *)
(* the bytes the last operation received and the bytes it handed out.      *)
(***************************************************************************)
EXTENDS Integers, Sequences

VARIABLES content, given, taken

vars == <<content, given, taken>>

Init == content = <<>> /\ given = <<>> /\ taken = <<>>

Put      == content' = content \o given' /\ taken' = <<>>
PutFront == content' = given' \o content /\ taken' = <<>>

\* The first n bytes leave; they are handed out, or dropped.
Leave(n) ==
  /\ content' = SubSeq(content, n + 1, Len(content))
  /\ given' = <<>>
  /\ taken' \in {<<>>, SubSeq(content, 1, n)}

Next == Put \/ PutFront \/ \E n \in 0 .. Len(content) : Leave(n)

Spec == Init /\ [][Next]_vars
=============================================================================
