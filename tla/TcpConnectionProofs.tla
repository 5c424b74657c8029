------------------------- MODULE TcpConnectionProofs -------------------------
(***************************************************************************)
(* Proofs about TcpConnection. For any threads that use the connection:    *)
(* the bytes stay in order, EPOLLOUT goes with a buffer that is not empty, *)
(* the FIN follows the bytes and the server forgets no connection without  *)
(* connectDestroyed(). Where only the loop's thread uses it: it goes down  *)
(* once, and lives the life of ConnectionLife.                             *)
(***************************************************************************)
EXTENDS TcpConnection, TLAPS, SequenceTheorems

-----------------------------------------------------------------------------
(***************************************************************************)
(* The inductive invariant, for any threads.                               *)
(***************************************************************************)

\* EPOLLOUT is asked for exactly while bytes are buffered.
WriteInv == Open => (("write" \in events_) <=> (outputBuffer_ # <<>>))

\* The FIN goes out when the buffer is empty, and nothing is buffered after it.
FinInv == Open /\ fin => outputBuffer_ = <<>>

\* The batch is empty except in doPendingFunctors().
BatchInv == functors # <<>> => lpc = "pending"

IInv == TypeOK /\ BytesInOrder /\ WriteInv /\ FinInv /\ BatchInv /\ ForgottenIsDestroyed

-----------------------------------------------------------------------------
(***************************************************************************)
(* More of it, for a connection used in its loop's thread only.            *)
(***************************************************************************)
Sole == Others = {}

Queued == Elements(pendingFunctors_) \cup Elements(functors)

\* Other threads have queued nothing.
FromHere(q) == \A i \in DOMAIN q : q[i].op \notin {"send", "shutdown"}
KindInv == FromHere(pendingFunctors_) /\ FromHere(functors)

\* A connection of another loop is established by the first functor of that
\* loop; there is no other connectEstablished().
Establishing(q) == q # <<>> /\ Head(q).op = "established"
EstablishFirst(f, p, s) ==
  /\ \A i \in DOMAIN f : f[i].op = "established" => i = 1 /\ s = "kConnecting"
  /\ \A i \in DOMAIN p : p[i].op = "established" => i = 1 /\ s = "kConnecting" /\ f = <<>>
  /\ s = "kConnecting" => Establishing(f) \/ (f = <<>> /\ Establishing(p))
EstablishInv == EstablishFirst(functors, pendingFunctors_, state_)

\* Until then nothing has happened to it.
ConnectingInv ==
  state_ = "kConnecting" =>
    /\ ioLoop = "sub" /\ index_ = "kNew" /\ events_ = {} /\ ~InHandleEvent /\ lpc # "active"
    /\ closes = 0 /\ destroys = 0

\* As long as the server exists, a connection that is up is in the poller, and
\* one that is not has been closed.
UpInv ==
  Running /\ server =>
    /\ state_ \in {"kConnected", "kDisconnecting"} =>
         index_ = "kAdded" /\ "read" \in events_ /\ closes = 0 /\ destroys = 0
    /\ state_ = "kDisconnected" => closes = 1
    /\ closes = 0 => connections_
    /\ destroys > 0 => index_ = "kNew"

\* One that has been closed is out of the poller for good, and the events that
\* are still being handled do not close it again.
DownInv ==
  /\ closes <= 1
  /\ closes = 1 => state_ = "kDisconnected"
  /\ Running /\ closes = 1 =>
       /\ events_ = {} /\ index_ # "kAdded" /\ lpc \notin {"active", "close"}
       /\ lpc \in {"error", "read"} => "IN" \notin revents_

\* connectDestroyed() is called once: the server still has the connection, or
\* has queued the functor, or the functor has run.
OneDestroyed(q) ==
  \A i, j \in DOMAIN q : q[i].op = "destroyed" /\ q[j].op = "destroyed" => i = j
NoDestroyed(q) == \A i \in DOMAIN q : q[i].op # "destroyed"
Single(p, f) ==
  OneDestroyed(p) /\ OneDestroyed(f) /\ (NoDestroyed(p) \/ NoDestroyed(f))

DestroyInv ==
  /\ destroys <= 1
  /\ connections_ => server
  /\ Running =>
       /\ Single(pendingFunctors_, functors)
       /\ connections_ \/ destroys > 0 =>
            NoDestroyed(pendingFunctors_) /\ NoDestroyed(functors)
       /\ connections_ => destroys = 0
       /\ removals > 0 => removals = 1 /\ closes = 1 /\ ioLoop = "sub"
       /\ removals > 0 /\ server => connections_

\* After the FIN nothing is sent.
SentInv == fin => "write" \notin events_ /\ state_ \in {"kDisconnecting", "kDisconnected"}

\* What ends the program.
FaultInv ==
  /\ soError \/ "ERR" \in revents_ => rst
  /\ fault = "died" => rst /\ Alive
  /\ fault = "useAfterFree" => ~server

LifeInv ==
  /\ KindInv /\ EstablishInv /\ ConnectingInv /\ UpInv /\ DownInv /\ DestroyInv
  /\ SentInv /\ FaultInv

-----------------------------------------------------------------------------
(***************************************************************************)
(* Queues of functors and sequences of bytes.                              *)
(***************************************************************************)

\* Appending a functor.
LEMMA AppendFunctor ==
  ASSUME NEW q \in Seq(Functor), NEW f \in Functor, NEW q2, q2 = Append(q, f)
  PROVE  /\ q2 \in Seq(Functor) /\ q2 # <<>>
         /\ Elements(q2) = Elements(q) \cup {f}
         /\ Head(q2) = IF q = <<>> THEN f ELSE Head(q)
         /\ \A i \in DOMAIN q2 : (i \in DOMAIN q /\ q2[i] = q[i]) \/ (i = Len(q) + 1 /\ q2[i] = f)
         /\ \A i \in DOMAIN q : i \in DOMAIN q2 /\ q2[i] = q[i]
         /\ Len(q) + 1 \in DOMAIN q2 /\ q2[Len(q) + 1] = f
<1>1. /\ Len(q) \in Nat /\ DOMAIN q = 1 .. Len(q)
      /\ q2 \in Seq(Functor) /\ q2 # <<>> /\ Len(q2) = Len(q) + 1 /\ DOMAIN q2 = 1 .. Len(q) + 1
      /\ \A i \in 1 .. Len(q) : q2[i] = q[i]
      /\ q2[Len(q) + 1] = f
  BY AppendProperties, LenProperties
<1>2. /\ \A i \in DOMAIN q2 : (i \in DOMAIN q /\ q2[i] = q[i]) \/ (i = Len(q) + 1 /\ q2[i] = f)
      /\ \A i \in DOMAIN q : i \in DOMAIN q2 /\ q2[i] = q[i]
      /\ Len(q) + 1 \in DOMAIN q2
  BY <1>1
<1>3. Elements(q2) = Elements(q) \cup {f}
  BY <1>1, <1>2 DEF Elements
<1>4. Head(q2) = IF q = <<>> THEN f ELSE Head(q)
  BY HeadTailAppend
<1> QED BY <1>1, <1>2, <1>3, <1>4

\* Queueing a functor.
LEMMA AppendSome ==
  ASSUME NEW q \in Seq(Functor), NEW f \in Functor
  PROVE  /\ Append(q, f) \in Seq(Functor)
         /\ Elements(Append(q, f)) = Elements(q) \cup {f}
<1>1. PICK q2 : q2 = Append(q, f)
  OBVIOUS
<1>2. q2 \in Seq(Functor) /\ Elements(q2) = Elements(q) \cup {f}
  BY <1>1, AppendFunctor
<1> QED BY <1>1, <1>2

\* connectDestroyed() is then in the queue.
LEMMA AppendDestroyed ==
  ASSUME NEW q \in Seq(Functor)
  PROVE  Bound("destroyed") \in Elements(Append(q, Bound("destroyed")))
<1>1. Bound("destroyed") \in Functor
  BY SizesAssumption DEF Bound, Functor
<1> QED BY <1>1, AppendSome

\* Taking the first functor.
LEMMA TailFunctor ==
  ASSUME NEW q \in Seq(Functor), q # <<>>, NEW t, t = Tail(q)
  PROVE  /\ Head(q) \in Functor /\ Head(q) \in Elements(q) /\ t \in Seq(Functor)
         /\ Elements(t) \subseteq Elements(q) /\ Elements(q) \subseteq Elements(t) \cup {Head(q)}
         /\ \A i \in DOMAIN t : i + 1 \in DOMAIN q /\ t[i] = q[i + 1] /\ i \in Nat /\ i # 0
         /\ 1 \in DOMAIN q /\ q[1] = Head(q)
<1>1. /\ Len(q) \in Nat /\ DOMAIN q = 1 .. Len(q) /\ Len(q) > 0 /\ Head(q) = q[1]
      /\ Head(q) \in Functor /\ t \in Seq(Functor) /\ Len(t) = Len(q) - 1
      /\ DOMAIN t = 1 .. Len(q) - 1
      /\ \A i \in 1 .. Len(t) : t[i] = q[i + 1]
  BY HeadTailProperties, LenProperties
<1>2. /\ \A i \in DOMAIN t : i + 1 \in DOMAIN q /\ t[i] = q[i + 1] /\ i \in Nat /\ i # 0
      /\ \A i \in DOMAIN q : i = 1 \/ (i - 1 \in DOMAIN t /\ t[i - 1] = q[i])
      /\ 1 \in DOMAIN q
  BY <1>1
<1>3. Elements(t) \subseteq Elements(q)
  BY <1>2 DEF Elements
<1>4. Elements(q) \subseteq Elements(t) \cup {Head(q)} /\ Head(q) \in Elements(q)
  BY <1>1, <1>2 DEF Elements
<1> QED BY <1>1, <1>2, <1>3, <1>4

\* Cutting a sequence of bytes in two.
LEMMA PrefixRest ==
  ASSUME NEW s \in Seq(Nat), NEW k \in Nat, k <= Len(s)
  PROVE  /\ Prefix(s, k) \in Seq(Nat) /\ Rest(s, k) \in Seq(Nat)
         /\ Len(Prefix(s, k)) = k
         /\ Prefix(s, k) \o Rest(s, k) = s
         /\ k < Len(s) => Rest(s, k) # <<>>
<1>1. Len(s) \in Nat /\ \A i \in 1 .. Len(s) : s[i] \in Nat
  BY LenProperties, ElementOfSeq
<1>2. Prefix(s, k) \in Seq(Nat) /\ Len(Prefix(s, k)) = k
  BY <1>1, SubSeqProperties DEF Prefix
<1>3. Rest(s, k) \in Seq(Nat) /\ Len(Rest(s, k)) = Len(s) - k
  <2>1. \A i \in k + 1 .. Len(s) : s[i] \in Nat
    BY <1>1
  <2>2. /\ SubSeq(s, k + 1, Len(s)) \in Seq(Nat)
        /\ Len(SubSeq(s, k + 1, Len(s))) =
             IF k + 1 <= Len(s) THEN Len(s) - (k + 1) + 1 ELSE 0
    BY <1>1, <2>1, SubSeqProperties
  <2> QED BY <1>1, <2>2 DEF Rest
<1>4. Prefix(s, k) \o Rest(s, k) = s
  <2>1. 1 \in 1 .. Len(s) + 1 /\ k \in 1 - 1 .. Len(s) /\ Len(s) \in k .. Len(s)
    BY <1>1
  <2>2. SubSeq(s, 1, k) \o SubSeq(s, k + 1, Len(s)) = SubSeq(s, 1, Len(s))
    BY <2>1, ConcatAdjacentSubSeq
  <2> QED BY <2>2, SubSeqFull DEF Prefix, Rest
<1>5. k < Len(s) => Rest(s, k) # <<>>
  BY <1>1, <1>3, EmptySeq
<1> QED BY <1>2, <1>3, <1>4, <1>5

\* Concatenation under a name of its own, so that the provers take it as it is.
Cat(s, t) == s \o t

\* Concatenation is associative, and the empty sequence its neutral element.
LEMMA CatFacts ==
  /\ \A x, y \in Seq(Nat) : Cat(x, y) \in Seq(Nat) /\ Len(Cat(x, y)) = Len(x) + Len(y)
  /\ \A x, y, z \in Seq(Nat) : Cat(Cat(x, y), z) = Cat(x, Cat(y, z))
  /\ \A x \in Seq(Nat) : Cat(x, <<>>) = x /\ Cat(<<>>, x) = x
  /\ \A x, y \in Seq(Nat) : Cat(x, y) = <<>> <=> x = <<>> /\ y = <<>>
  /\ <<>> \in Seq(Nat)
<1>1. ASSUME NEW x \in Seq(Nat), NEW y \in Seq(Nat)
      PROVE  /\ Cat(x, y) \in Seq(Nat) /\ Len(Cat(x, y)) = Len(x) + Len(y)
             /\ Cat(x, y) = <<>> <=> x = <<>> /\ y = <<>>
             /\ Cat(x, <<>>) = x /\ Cat(<<>>, x) = x
  BY ConcatProperties, ConcatEmptySeq, ConcatEqualIffEmpty DEF Cat
<1>2. ASSUME NEW x \in Seq(Nat), NEW y \in Seq(Nat), NEW z \in Seq(Nat)
      PROVE  Cat(Cat(x, y), z) = Cat(x, Cat(y, z))
  BY ConcatAssociative DEF Cat
<1> QED BY <1>1, <1>2

\* The stream of bytes: with the peer, in the kernel and in the buffer.
Stream(r, s, o) == Cat(Cat(r, s), o)

\* The property in its terms, before and after a step.
LEMMA InOrder ==
  /\ BytesInOrder <=> Stream(received, sndbuf, outputBuffer_) = accepted
  /\ BytesInOrder' <=> Stream(received', sndbuf', outputBuffer_') = accepted'
BY DEF BytesInOrder, Stream, Cat

\* Bytes are added to the stream at its end,
LEMMA StreamGrows ==
  ASSUME NEW r \in Seq(Nat), NEW s \in Seq(Nat), NEW o \in Seq(Nat), NEW b \in Seq(Nat)
  PROVE  Stream(r, s, Cat(o, b)) = Cat(Stream(r, s, o), b)
BY CatFacts DEF Stream

\* move from the buffer to the kernel,
LEMMA StreamMoves ==
  ASSUME NEW r \in Seq(Nat), NEW s \in Seq(Nat), NEW p \in Seq(Nat), NEW q \in Seq(Nat)
  PROVE  Stream(r, Cat(s, p), q) = Stream(r, s, Cat(p, q))
BY CatFacts DEF Stream

\* or bypass the buffer when it is empty,
LEMMA StreamBypass ==
  ASSUME NEW r \in Seq(Nat), NEW s \in Seq(Nat), NEW p \in Seq(Nat), NEW q \in Seq(Nat),
         NEW b \in Seq(Nat), b = Cat(p, q)
  PROVE  Stream(r, Cat(s, p), q) = Cat(Stream(r, s, <<>>), b)
<1>1. Stream(r, Cat(s, p), q) = Stream(r, s, b)
  BY StreamMoves
<1>0. PICK e \in Seq(Nat) : e = <<>>
  BY CatFacts
<1>2. Stream(r, s, Cat(e, b)) = Cat(Stream(r, s, e), b)
  BY StreamGrows
<1>3. Cat(<<>>, b) = b
  BY CatFacts
<1> QED BY <1>0, <1>1, <1>2, <1>3

\* and go from the kernel to the peer.
LEMMA StreamRead ==
  ASSUME NEW r \in Seq(Nat), NEW s \in Seq(Nat), NEW o \in Seq(Nat), s # <<>>
  PROVE  Stream(Append(r, Head(s)), Tail(s), o) = Stream(r, s, o)
<1>1. PICK h \in Nat, t \in Seq(Nat) : h = Head(s) /\ t = Tail(s)
  BY HeadTailProperties
<1>2. <<h>> \in Seq(Nat)
  OBVIOUS
<1>3. PICK x \in Seq(Nat) : x = <<h>>
  BY <1>2
<1>4. Append(r, h) = Cat(r, x)
  BY <1>3, AppendIsConcat DEF Cat
<1>5. s = Cat(x, t)
  <2>1. /\ Len(s) \in Nat /\ 1 \in 1 .. Len(s) /\ Len(s) \in 1 .. Len(s) /\ s[1] = h
        /\ t = SubSeq(s, 1 + 1, Len(s))
    BY <1>1, LenProperties, EmptySeq
  <2>2. SubSeq(s, 1, Len(s)) = << s[1] >> \o SubSeq(s, 1 + 1, Len(s))
    BY <2>1, SubSeqRecursiveFirst
  <2>3. SubSeq(s, 1, Len(s)) = s
    BY SubSeqFull
  <2> QED BY <1>3, <2>1, <2>2, <2>3 DEF Cat
<1>6. Cat(Cat(r, x), t) = Cat(r, Cat(x, t))
  BY CatFacts
<1> QED BY <1>1, <1>4, <1>5, <1>6 DEF Stream

-----------------------------------------------------------------------------
(***************************************************************************)
(* What the operators do to the connection's part of the state.            *)
(***************************************************************************)
USE DEF batch, loopVars, chan, connVars, queueVars, refVars, peerVars, kernelVars, given, history,
        others

\* The functors that the library binds.
LEMMA BoundFacts ==
  /\ \A op \in {"established", "send", "shutdown", "forceClose", "destroyed", "user"} :
       Bound(op) \in Functor /\ Bound(op).op = op
  /\ MaxMessage \in Nat
BY SizesAssumption DEF Bound, Functor

\* sendInLoop() keeps the order of the bytes, asks for EPOLLOUT when it leaves
\* some in the buffer, and leaves none there once the FIN is out.
LEMMA SendFacts ==
  ASSUME IInv, NEW bytes \in Seq(Nat), SendInLoop(bytes),
         UNCHANGED <<received, fin, closes, destroys>>
  PROVE  /\ outputBuffer_' \in Seq(Nat) /\ accepted' \in Seq(Nat)
         /\ sndbuf' \in Seq(Nat) /\ Len(sndbuf') <= SendSpace
         /\ UNCHANGED chan \/ Update(events_ \cup {"write"})
         /\ pendingFunctors_' = pendingFunctors_
              \/ pendingFunctors_' = Append(pendingFunctors_, Bound("user"))
         /\ fault' = fault \/ (fault' = "died" /\ (fin \/ rst))
         /\ BytesInOrder' /\ WriteInv' /\ FinInv'
<1>1. /\ received \in Seq(Nat) /\ sndbuf \in Seq(Nat) /\ outputBuffer_ \in Seq(Nat)
      /\ accepted \in Seq(Nat) /\ Len(sndbuf) <= SendSpace /\ SendSpace \in Nat
      /\ Len(sndbuf) \in Nat /\ Len(bytes) \in Nat /\ <<>> \in Seq(Nat)
  BY SizesAssumption, LenProperties DEF IInv, TypeOK
<1>2. /\ Stream(received, sndbuf, outputBuffer_) = accepted
      /\ Open => (("write" \in events_) <=> (outputBuffer_ # <<>>))
      /\ Open /\ fin => outputBuffer_ = <<>>
      /\ Open' <=> Open
  BY InOrder DEF IInv, WriteInv, FinInv, Open
<1>3. DirectWrite => outputBuffer_ = <<>>
  BY DEF DirectWrite
<1>4. CASE WriteFails
  <2>1. /\ UNCHANGED <<outputBuffer_, events_, index_, pendingFunctors_, sndbuf, accepted>>
        /\ fault' = "died" /\ (fin \/ rst)
    BY <1>4 DEF WriteFails
  <2>2. BytesInOrder' /\ WriteInv' /\ FinInv'
    BY <1>2, <2>1, InOrder DEF WriteInv, FinInv
  <2> QED BY <1>1, <2>1, <2>2
<1>5. CASE WrittenAll(bytes)
  <2>1. /\ DirectWrite /\ ~fin /\ Len(bytes) <= SendSpace - Len(sndbuf)
        /\ sndbuf' = Cat(sndbuf, bytes) /\ accepted' = Cat(accepted, bytes)
        /\ pendingFunctors_' = Append(pendingFunctors_, Bound("user"))
        /\ UNCHANGED <<outputBuffer_, events_, index_, fault>>
    BY <1>5 DEF WrittenAll, Cat
  <2>2. /\ sndbuf' \in Seq(Nat) /\ accepted' \in Seq(Nat)
        /\ Len(sndbuf') = Len(sndbuf) + Len(bytes)
    BY <1>1, <2>1, CatFacts
  <2>3. Len(sndbuf') <= SendSpace
    BY <1>1, <2>1, <2>2
  <2>4. BytesInOrder'
    <3>1. PICK e \in Seq(Nat) : e = <<>>
      BY <1>1
    <3>2. PICK b \in Seq(Nat) : b = Cat(bytes, e)
      BY <3>1, CatFacts
    <3>3. b = bytes
      BY <3>1, <3>2, CatFacts
    <3>4. received \in Seq(Nat) /\ sndbuf \in Seq(Nat)
      BY <1>1
    <3>5. Stream(received, Cat(sndbuf, bytes), e) = Cat(Stream(received, sndbuf, <<>>), b)
      BY <3>2, <3>4, StreamBypass
    <3> QED BY <1>2, <1>3, <2>1, <3>1, <3>3, <3>5, InOrder
  <2>5. WriteInv' /\ FinInv'
    BY <1>2, <2>1 DEF WriteInv, FinInv
  <2> QED BY <1>1, <2>1, <2>2, <2>3, <2>4, <2>5
<1>6. CASE BufferRest(bytes)
  <2>1. PICK n : n = IF DirectWrite THEN Least(Len(bytes), SendSpace - Len(sndbuf)) ELSE 0
    OBVIOUS
  <2>2. /\ DirectWrite => ~fin /\ n < Len(bytes)
        /\ sndbuf' = Cat(sndbuf, Prefix(bytes, n))
        /\ outputBuffer_' = Cat(outputBuffer_, Rest(bytes, n))
        /\ accepted' = Cat(accepted, bytes)
        /\ \/ pendingFunctors_' = pendingFunctors_
           \/ pendingFunctors_' = Append(pendingFunctors_, Bound("user"))
        /\ EnsureWriting
        /\ fault' = fault
    BY <1>6, <2>1 DEF BufferRest, Remaining, Cat
  <2>3. n \in Nat /\ n <= Len(bytes) /\ n <= SendSpace - Len(sndbuf)
    BY <1>1, <2>1 DEF Least
  <2>4. /\ Prefix(bytes, n) \in Seq(Nat) /\ Rest(bytes, n) \in Seq(Nat)
        /\ Len(Prefix(bytes, n)) = n /\ bytes = Cat(Prefix(bytes, n), Rest(bytes, n))
        /\ n < Len(bytes) => Rest(bytes, n) # <<>>
    BY <2>3, PrefixRest DEF Cat
  <2>5. PICK p \in Seq(Nat), r \in Seq(Nat) : p = Prefix(bytes, n) /\ r = Rest(bytes, n)
    BY <2>4
  <2>6. /\ sndbuf' \in Seq(Nat) /\ accepted' \in Seq(Nat) /\ outputBuffer_' \in Seq(Nat)
        /\ Len(sndbuf') = Len(sndbuf) + n
    <3>1. /\ sndbuf' = Cat(sndbuf, p) /\ accepted' = Cat(accepted, bytes)
          /\ outputBuffer_' = Cat(outputBuffer_, r) /\ Len(p) = n
      BY <2>2, <2>4, <2>5
    <3> QED BY <1>1, <3>1, CatFacts
  <2>7. Len(sndbuf') <= SendSpace
    BY <1>1, <2>3, <2>6
  <2>8. UNCHANGED chan \/ Update(events_ \cup {"write"})
    BY <2>2 DEF EnsureWriting
  <2>9. BytesInOrder'
    <3>1. CASE DirectWrite
      <4>1. Stream(received, Cat(sndbuf, p), r) = Cat(Stream(received, sndbuf, <<>>), bytes)
        BY <1>1, <2>4, <2>5, StreamBypass
      <4>2. outputBuffer_' = r
        BY <1>3, <2>2, <2>5, <3>1, CatFacts
      <4> QED BY <1>2, <1>3, <2>2, <2>5, <3>1, <4>1, <4>2, InOrder
    <3>2. CASE ~DirectWrite
      <4>1. p = <<>>
        BY <2>1, <2>4, <2>5, <3>2, EmptySeq
      <4>2. r = bytes /\ sndbuf' = sndbuf
        BY <1>1, <2>2, <2>4, <2>5, <4>1, CatFacts
      <4>3. Stream(received, sndbuf, Cat(outputBuffer_, bytes))
              = Cat(Stream(received, sndbuf, outputBuffer_), bytes)
        BY <1>1, StreamGrows
      <4> QED BY <1>2, <2>2, <2>5, <4>2, <4>3, InOrder
    <3> QED BY <3>1, <3>2
  <2>10. Open => outputBuffer_' # <<>> /\ "write" \in events_' /\ ~fin
    <3> SUFFICES ASSUME Open PROVE outputBuffer_' # <<>> /\ "write" \in events_' /\ ~fin
      OBVIOUS
    <3>1. Cat(outputBuffer_, r) = <<>> <=> outputBuffer_ = <<>> /\ r = <<>>
      BY <1>1, CatFacts
    <3>2. outputBuffer_' # <<>>
      BY <1>2, <2>2, <2>4, <2>5, <3>1 DEF DirectWrite
    <3>3. "write" \in events_'
      BY <2>2 DEF EnsureWriting, Update
    <3>4. ~fin
      BY <1>2, <2>2 DEF DirectWrite
    <3> QED BY <3>2, <3>3, <3>4
  <2>11. WriteInv' /\ FinInv'
    BY <1>2, <2>10 DEF WriteInv, FinInv
  <2> QED BY <1>1, <2>2, <2>6, <2>7, <2>8, <2>9, <2>11
<1> QED BY <1>4, <1>5, <1>6 DEF SendInLoop

\* handleClose(): out of the poller, and closeCallback_ tells the server.
LEMMA CloseFacts ==
  ASSUME TypeOK, HandleClose
  PROVE  /\ state_' \in {state_, "kDisconnected"} /\ state_' = "kDisconnected"
         /\ events_' = {} /\ index_' \in {"kAdded", "kDeleted"}
         /\ index_ = "kAdded" => index_' = "kDeleted"
         /\ closes' \in 1 .. 2 /\ (closes = 0 => closes' = 1)
         /\ \/ /\ server /\ ioLoop = "base" /\ ~connections_'
               /\ pendingFunctors_' = Append(pendingFunctors_, Bound("destroyed"))
               /\ UNCHANGED <<removals, fault>>
            \/ /\ server /\ ioLoop = "sub" /\ removals' = removals + 1
               /\ UNCHANGED <<connections_, pendingFunctors_, fault>>
            \/ /\ ~server /\ fault' = "useAfterFree"
               /\ UNCHANGED <<connections_, removals, pendingFunctors_>>
         /\ UNCHANGED <<outputBuffer_, ioLoop, server, holders, call, sndbuf, fin, received,
                        inData, peerFin, rst, soError, promised, forced, accepted, destroys>>
BY DEF TypeOK, HandleClose, SetDisconnected, Update, More, RemoveConnection, QueueDestroyed

\* connectDestroyed().
LEMMA DestroyFacts ==
  ASSUME TypeOK, ConnectDestroyed
  PROVE  /\ index_' = "kNew" /\ destroys' \in 1 .. 2 /\ (destroys = 0 => destroys' = 1)
         /\ state_ = "kConnected" => state_' = "kDisconnected" /\ events_' = {}
         /\ state_ # "kConnected" => state_' = state_ /\ events_' = events_
         /\ state_' \in {"kDisconnected", "kConnecting", "kDisconnecting"}
         /\ events_' \subseteq {"read", "write"}
<1>1. /\ destroys' = (IF destroys < 2 THEN destroys + 1 ELSE destroys) /\ index_' = "kNew"
      /\ IF state_ = "kConnected" THEN state_' = "kDisconnected" /\ events_' = {}
                                  ELSE UNCHANGED <<state_, events_>>
  BY DEF ConnectDestroyed, More, RemoveChannel
<1>2. /\ destroys \in 0 .. 2 /\ events_ \subseteq {"read", "write"}
      /\ state_ \in {"kDisconnected", "kConnecting", "kConnected", "kDisconnecting"}
  BY DEF TypeOK
<1>3. destroys' \in 1 .. 2 /\ (destroys = 0 => destroys' = 1)
  BY <1>1, <1>2
<1> QED BY <1>1, <1>2, <1>3

\* What the connection's part of the state keeps of the invariant.
LEMMA BytesFrame ==
  ASSUME IInv, UNCHANGED <<received, sndbuf, outputBuffer_, accepted>>
  PROVE  BytesInOrder'
BY DEF IInv, BytesInOrder

\* The same for EPOLLOUT and the FIN.
LEMMA WriteFrame ==
  ASSUME IInv, UNCHANGED <<outputBuffer_, events_, fin>>, Open' => Open
  PROVE  WriteInv' /\ FinInv'
BY DEF IInv, WriteInv, FinInv

\* A functor that is queued stays queued until it runs.
LEMMA ForgetFrame ==
  ASSUME IInv, fault' = "none" => fault = "none", connections_' = connections_,
         destroys > 0 => destroys' > 0,
         Bound("destroyed") \in Queued => Bound("destroyed") \in Queued' \/ destroys' > 0
  PROVE  ForgottenIsDestroyed'
BY DEF IInv, ForgottenIsDestroyed, Queued, Running

-----------------------------------------------------------------------------
(***************************************************************************)
(* The initial state and the steps, for any threads.                       *)
(***************************************************************************)

\* A new connection satisfies the invariant.
LEMMA InitInv == Init => IInv
<1> SUFFICES ASSUME Init PROVE IInv
  OBVIOUS
<1>1. /\ ioLoop \in IoLoops
      /\ \/ /\ lpc = "swap" /\ state_ = "kConnected" /\ events_ = {"read"} /\ index_ = "kAdded"
            /\ pendingFunctors_ = <<>> /\ holders = Others \cup {Owner}
         \/ /\ lpc = "poll" /\ state_ = "kConnecting" /\ events_ = {} /\ index_ = "kNew"
            /\ pendingFunctors_ = <<Bound("established")>> /\ holders = {}
      /\ revents_ = {} /\ functors = <<>> /\ outputBuffer_ = <<>>
      /\ removals = 0 /\ call = [t \in Others |-> Bound("idle")]
      /\ sndbuf = <<>> /\ received = <<>> /\ accepted = <<>>
      /\ promised = 0 /\ forced = 0 /\ closes = 0 /\ destroys = 0 /\ fault = "none"
      /\ connections_ /\ ~fin
  BY DEF Init, Constructed
<1>2. /\ batchRef \in BOOLEAN /\ connections_ \in BOOLEAN /\ server \in BOOLEAN
      /\ fin \in BOOLEAN /\ inData \in BOOLEAN /\ peerFin \in BOOLEAN
      /\ rst \in BOOLEAN /\ soError \in BOOLEAN
  BY Zenon DEF Init
<1>3. Bound("established") \in Functor /\ Bound("idle") \in Call
  BY BoundFacts DEF Bound, Call
<1>4. /\ pendingFunctors_ \in Seq(Functor) /\ functors \in Seq(Functor) /\ sndbuf \in Seq(Nat)
      /\ outputBuffer_ \in Seq(Nat) /\ received \in Seq(Nat) /\ accepted \in Seq(Nat)
      /\ Len(sndbuf) <= SendSpace
  <2>1. <<>> \in Seq(Functor) /\ <<Bound("established")>> \in Seq(Functor) /\ <<>> \in Seq(Nat)
    BY <1>3
  <2>2. Len(<<>>) = 0 /\ SendSpace \in Nat
    BY SizesAssumption
  <2>3. pendingFunctors_ \in Seq(Functor)
    BY <1>1, <2>1
  <2>4. /\ functors \in Seq(Functor) /\ sndbuf \in Seq(Nat) /\ outputBuffer_ \in Seq(Nat)
        /\ received \in Seq(Nat) /\ accepted \in Seq(Nat)
    BY <1>1, <2>1
  <2>5. Len(sndbuf) <= SendSpace
    BY <1>1, <2>2
  <2> QED BY <2>3, <2>4, <2>5
<1>5. /\ call \in [Others -> Call] /\ promised \in 0 .. MaxBytes /\ forced \in 0 .. MaxCloses
  BY <1>1, <1>3, SizesAssumption
<1>6. TypeOK
  BY <1>1, <1>2, <1>4, <1>5 DEF TypeOK
<1>7. BytesInOrder
  <2>1. Stream(<<>>, <<>>, <<>>) = <<>>
    BY CatFacts DEF Stream
  <2> QED BY <1>1, <2>1, InOrder
<1>8. WriteInv /\ FinInv /\ BatchInv /\ ForgottenIsDestroyed
  BY <1>1 DEF WriteInv, FinInv, BatchInv, ForgottenIsDestroyed
<1> QED BY <1>6, <1>7, <1>8 DEF IInv

\* Steps of the loop that look at the socket and its events.
Look ==
  \/ Poll \/ HandleEvent \/ ErrorEvent \/ ReadMessage \/ ReadFails \/ NoReadEvent \/ MessageReturns
  \/ WriteEventFails \/ WriteEventReset \/ NoWriteEvent
  \/ (CloseEvent /\ UNCHANGED others)

\* They change little of the state,
LEMMA LookFacts ==
  ASSUME TypeOK, Look
  PROVE  /\ fault = "none" /\ fault' \in {"none", "died"} /\ lpc # "pending"
         /\ lpc' \in {"active", "close", "error", "read", "message", "write", "swap"}
         /\ revents_' \subseteq {"IN", "OUT", "HUP", "ERR"}
         /\ inData' \in BOOLEAN /\ soError' \in BOOLEAN
         /\ UNCHANGED <<functors, batchRef, state_, outputBuffer_, events_, index_,
                        pendingFunctors_, call, ioLoop, connections_, server, removals, holders,
                        sndbuf, fin, received, peerFin, rst, promised, forced, accepted, closes,
                        destroys>>
<1>1. Ready \subseteq {"IN", "OUT", "HUP", "ERR"}
  BY DEF Ready
<1>2. /\ fault = "none" /\ fault' \in {"none", "died"} /\ lpc # "pending"
      /\ lpc' \in {"active", "close", "error", "read", "message", "write", "swap"}
      /\ revents_' \in {revents_, {}, Ready}
      /\ UNCHANGED <<functors, batchRef, state_, outputBuffer_, events_, index_,
                     pendingFunctors_, call, ioLoop, connections_, server, removals, holders,
                     sndbuf, fin, received, peerFin, rst, promised, forced, accepted, closes,
                     destroys>>
  BY DEF Look, Poll, HandleEvent, ErrorEvent, ReadMessage, ReadFails, NoReadEvent, MessageReturns,
         WriteEventFails, WriteEventReset, NoWriteEvent, CloseEvent, At, Running, Dies
<1>3. inData' \in {inData, FALSE} /\ soError' \in {soError, FALSE}
  BY Zenon DEF Look, Poll, HandleEvent, ErrorEvent, ReadMessage, ReadFails, NoReadEvent, MessageReturns,
         WriteEventFails, WriteEventReset, NoWriteEvent, CloseEvent, Dies
<1>4. inData' \in BOOLEAN /\ soError' \in BOOLEAN
  BY <1>3, Zenon DEF TypeOK
<1> QED BY <1>1, <1>2, <1>4 DEF TypeOK

\* and keep the invariant.
LEMMA LookInv ==
  ASSUME IInv, Look
  PROVE  IInv'
<1>1. TypeOK
  BY DEF IInv
<1>2. TypeOK'
  <2>1. /\ batchRef' \in BOOLEAN /\ connections_' \in BOOLEAN /\ server' \in BOOLEAN
        /\ fin' \in BOOLEAN /\ inData' \in BOOLEAN /\ peerFin' \in BOOLEAN
        /\ rst' \in BOOLEAN /\ soError' \in BOOLEAN
    BY <1>1, LookFacts, Zenon DEF TypeOK
  <2>2. /\ lpc' \in {"active", "close", "error", "read", "message", "write", "swap"}
        /\ revents_' \subseteq {"IN", "OUT", "HUP", "ERR"} /\ fault' \in {"none", "died"}
    BY <1>1, LookFacts
  <2>3. UNCHANGED <<functors, state_, outputBuffer_, events_, index_, pendingFunctors_, call, ioLoop,
                    removals, holders, sndbuf, received, promised, forced, accepted, closes,
                    destroys>>
    BY <1>1, LookFacts
  <2> QED BY <1>1, <2>1, <2>2, <2>3 DEF TypeOK
<1>3. BytesInOrder' /\ WriteInv' /\ FinInv'
  BY <1>1, LookFacts, BytesFrame, WriteFrame DEF Open
<1>4. ForgottenIsDestroyed' /\ BatchInv'
  BY <1>1, LookFacts, ForgetFrame DEF Queued, IInv, BatchInv
<1> QED BY <1>2, <1>3, <1>4 DEF IInv

\* The peer reads, sends, closes and resets.
PeerStep == PeerReads \/ PeerSends \/ PeerCloses \/ PeerResets

\* It moves bytes out of the kernel, and changes nothing of the connection,
LEMMA PeerFacts ==
  ASSUME TypeOK, PeerStep
  PROVE  /\ fault = "none" /\ (UNCHANGED <<rst, soError>> \/ rst')
         /\ inData' \in BOOLEAN /\ peerFin' \in BOOLEAN /\ rst' \in BOOLEAN /\ soError' \in BOOLEAN
         /\ UNCHANGED <<lpc, revents_, functors, batchRef, state_, outputBuffer_, events_, index_,
                        pendingFunctors_, call, ioLoop, connections_, server, removals, holders,
                        fin, promised, forced, accepted, closes, destroys, fault>>
         /\ \/ UNCHANGED <<sndbuf, received>>
            \/ /\ sndbuf # <<>>
               /\ received' = Append(received, Head(sndbuf)) /\ sndbuf' = Tail(sndbuf)
<1>1. /\ fault = "none" /\ (UNCHANGED <<rst, soError>> \/ rst')
  BY DEF PeerStep, PeerReads, PeerSends, PeerCloses, PeerResets, Peer, Running
<1>2. /\ inData' \in {inData, TRUE} /\ peerFin' \in {peerFin, TRUE}
      /\ rst' \in {rst, TRUE} /\ soError' \in {soError, TRUE}
  BY Zenon DEF PeerStep, PeerReads, PeerSends, PeerCloses, PeerResets
<1>3. inData' \in BOOLEAN /\ peerFin' \in BOOLEAN /\ rst' \in BOOLEAN /\ soError' \in BOOLEAN
  BY <1>2, Zenon DEF TypeOK
<1>4. /\ UNCHANGED <<lpc, revents_, functors, batchRef, state_, outputBuffer_, events_, index_,
                     pendingFunctors_, call, ioLoop, connections_, server, removals, holders,
                     fin, promised, forced, accepted, closes, destroys, fault>>
      /\ \/ UNCHANGED <<sndbuf, received>>
         \/ /\ sndbuf # <<>>
            /\ received' = Append(received, Head(sndbuf)) /\ sndbuf' = Tail(sndbuf)
  BY DEF PeerStep, PeerReads, PeerSends, PeerCloses, PeerResets, Peer
<1> QED BY <1>1, <1>3, <1>4

\* so that the invariant holds on.
LEMMA PeerInv ==
  ASSUME IInv, PeerStep
  PROVE  IInv'
<1>1. TypeOK
  BY DEF IInv
<1>2. /\ sndbuf' \in Seq(Nat) /\ Len(sndbuf') <= SendSpace /\ received' \in Seq(Nat)
      /\ BytesInOrder'
  <2>1. /\ sndbuf \in Seq(Nat) /\ Len(sndbuf) <= SendSpace /\ received \in Seq(Nat)
        /\ outputBuffer_ \in Seq(Nat) /\ SendSpace \in Nat
    BY <1>1, SizesAssumption DEF TypeOK
  <2>2. CASE UNCHANGED <<sndbuf, received>>
    BY <1>1, <2>1, <2>2, PeerFacts, BytesFrame
  <2>3. CASE sndbuf # <<>> /\ received' = Append(received, Head(sndbuf)) /\ sndbuf' = Tail(sndbuf)
    <3>1. /\ sndbuf' \in Seq(Nat) /\ Len(sndbuf') = Len(sndbuf) - 1 /\ Head(sndbuf) \in Nat
          /\ Len(sndbuf) \in Nat
      BY <2>1, <2>3, HeadTailProperties, LenProperties
    <3>2. received' \in Seq(Nat)
      BY <2>1, <2>3, <3>1, AppendProperties
    <3>3. Stream(received', sndbuf', outputBuffer_) = Stream(received, sndbuf, outputBuffer_)
      BY <2>1, <2>3, StreamRead
    <3>4. BytesInOrder'
      BY <1>1, <3>3, PeerFacts, InOrder DEF IInv
    <3> QED BY <2>1, <3>1, <3>2, <3>4
  <2> QED BY <1>1, <2>2, <2>3, PeerFacts
<1>3. TypeOK'
  <2>1. /\ batchRef' \in BOOLEAN /\ connections_' \in BOOLEAN /\ server' \in BOOLEAN
        /\ fin' \in BOOLEAN /\ inData' \in BOOLEAN /\ peerFin' \in BOOLEAN
        /\ rst' \in BOOLEAN /\ soError' \in BOOLEAN
    BY <1>1, PeerFacts, Zenon DEF TypeOK
  <2>2. UNCHANGED <<lpc, revents_, functors, state_, outputBuffer_, events_, index_,
                    pendingFunctors_, call, ioLoop, removals, holders, promised, forced, accepted,
                    closes, destroys, fault>>
    BY <1>1, PeerFacts
  <2> QED BY <1>1, <1>2, <2>1, <2>2 DEF TypeOK
<1>4. WriteInv' /\ FinInv' /\ ForgottenIsDestroyed'
  BY <1>1, PeerFacts, WriteFrame, ForgetFrame DEF Open, Queued
<1>5. BatchInv'
  BY <1>1, PeerFacts DEF IInv, BatchInv
<1> QED BY <1>2, <1>3, <1>4, <1>5 DEF IInv

\* doPendingFunctors() takes the batch, finishes it, or runs a functor that
\* does nothing to the connection.
Turn ==
  \/ Swap \/ BatchDone \/ RunUser
  \/ (RunForceClose /\ UNCHANGED others)

\* Functors move from the queue to the batch, and out of it,
LEMMA TurnFacts ==
  ASSUME TypeOK, Turn
  PROVE  /\ fault = "none" /\ lpc' \in {"poll", "pending"} /\ batchRef' \in BOOLEAN
         /\ UNCHANGED <<revents_, state_, outputBuffer_, events_, index_, call, ioLoop, connections_,
                        server, removals, holders, sndbuf, fin, received, inData, peerFin, rst,
                        soError, promised, forced, accepted, closes, destroys, fault>>
         /\ \/ /\ lpc = "swap" /\ lpc' = "pending"
               /\ functors' = pendingFunctors_ /\ pendingFunctors_' = <<>>
            \/ /\ functors = <<>>
               /\ lpc = "pending" /\ lpc' = "poll" /\ UNCHANGED <<functors, pendingFunctors_>>
            \/ /\ functors # <<>> /\ Head(functors).op \in {"user", "forceClose"}
               /\ functors' = Tail(functors)
               /\ lpc = "pending" /\ UNCHANGED <<lpc, pendingFunctors_, batchRef>>
<1>1. batchRef' \in BOOLEAN
  <2>1. batchRef' \in {batchRef, Holding(pendingFunctors_), FALSE}
    BY Zenon DEF Turn, Swap, BatchDone, RunUser, RunForceClose, RunNext
  <2>2. Holding(pendingFunctors_) \in BOOLEAN
    BY Zenon DEF Holding
  <2> QED BY <2>1, <2>2, Zenon DEF TypeOK
<1> QED BY <1>1 DEF Turn, Swap, BatchDone, RunUser, RunForceClose, RunNext, At, Running

\* and connectDestroyed() is not lost on the way.
LEMMA TurnInv ==
  ASSUME IInv, Turn
  PROVE  IInv'
<1>1. TypeOK /\ functors \in Seq(Functor) /\ pendingFunctors_ \in Seq(Functor)
  BY DEF IInv, TypeOK
<1>2. /\ functors' \in Seq(Functor) /\ pendingFunctors_' \in Seq(Functor)
      /\ Bound("destroyed") \in Queued => Bound("destroyed") \in Queued'
  <2>1. CASE functors' = pendingFunctors_ /\ pendingFunctors_' = <<>> /\ functors = <<>>
    BY <1>1, <2>1 DEF Queued, Elements
  <2>2. CASE UNCHANGED <<functors, pendingFunctors_>>
    BY <1>1, <2>2 DEF Queued
  <2>3. CASE /\ functors # <<>> /\ Head(functors).op \in {"user", "forceClose"}
             /\ functors' = Tail(functors) /\ UNCHANGED pendingFunctors_
    <3>1. /\ functors' \in Seq(Functor)
          /\ Elements(functors) \subseteq Elements(functors') \cup {Head(functors)}
      BY <1>1, <2>3, TailFunctor
    <3>2. Bound("destroyed") # Head(functors)
      BY <2>3, BoundFacts
    <3> QED BY <1>1, <2>3, <3>1, <3>2 DEF Queued
  <2>4. lpc = "swap" => functors = <<>>
    BY DEF IInv, BatchInv
  <2> QED BY <1>1, <2>1, <2>2, <2>3, <2>4, TurnFacts
<1>3. TypeOK'
  <2>1. /\ batchRef' \in BOOLEAN /\ connections_' \in BOOLEAN /\ server' \in BOOLEAN
        /\ fin' \in BOOLEAN /\ inData' \in BOOLEAN /\ peerFin' \in BOOLEAN
        /\ rst' \in BOOLEAN /\ soError' \in BOOLEAN
    BY <1>1, TurnFacts, Zenon DEF TypeOK
  <2>2. /\ UNCHANGED <<revents_, state_, outputBuffer_, events_, index_, call, ioLoop, removals,
                       holders, sndbuf, received, promised, forced, accepted, closes, destroys,
                       fault>>
        /\ lpc' \in {"poll", "pending"}
    BY <1>1, TurnFacts
  <2> QED BY <1>1, <1>2, <2>1, <2>2 DEF TypeOK
<1>4. BytesInOrder' /\ WriteInv' /\ FinInv' /\ ForgottenIsDestroyed'
  BY <1>1, <1>2, TurnFacts, BytesFrame, WriteFrame, ForgetFrame DEF Open
<1>5. BatchInv'
  BY <1>1, TurnFacts DEF IInv, BatchInv
<1> QED BY <1>3, <1>4, <1>5 DEF IInv
\* A queue of functors to which one is added, or from which one that is not
\* connectDestroyed() is taken to be run.
LEMMA QueueFacts ==
  ASSUME IInv,
         \/ functors' = functors
         \/ functors # <<>> /\ Head(functors).op # "destroyed" /\ functors' = Tail(functors),
         \/ pendingFunctors_' = pendingFunctors_
         \/ \E f \in Functor : pendingFunctors_' = Append(pendingFunctors_, f),
         lpc' = lpc \/ (lpc # "pending" /\ functors' = functors)
  PROVE  /\ functors' \in Seq(Functor) /\ pendingFunctors_' \in Seq(Functor) /\ BatchInv'
         /\ Bound("destroyed") \in Queued => Bound("destroyed") \in Queued'
<1>1. functors \in Seq(Functor) /\ pendingFunctors_ \in Seq(Functor)
  BY DEF IInv, TypeOK
<1>2. /\ functors' \in Seq(Functor)
      /\ Bound("destroyed") \in Elements(functors) => Bound("destroyed") \in Elements(functors')
  <2>1. CASE functors' = functors
    BY <1>1, <2>1
  <2>2. CASE functors # <<>> /\ Head(functors).op # "destroyed" /\ functors' = Tail(functors)
    <3>1. /\ functors' \in Seq(Functor)
          /\ Elements(functors) \subseteq Elements(functors') \cup {Head(functors)}
      BY <1>1, <2>2, TailFunctor
    <3>2. Bound("destroyed") # Head(functors)
      BY <2>2, BoundFacts
    <3> QED BY <3>1, <3>2
  <2> QED BY <2>1, <2>2
<1>3. /\ pendingFunctors_' \in Seq(Functor)
      /\ Elements(pendingFunctors_) \subseteq Elements(pendingFunctors_')
  <2>1. CASE pendingFunctors_' = pendingFunctors_
    BY <1>1, <2>1
  <2>2. CASE \E f \in Functor : pendingFunctors_' = Append(pendingFunctors_, f)
    <3>1. PICK f \in Functor : pendingFunctors_' = Append(pendingFunctors_, f)
      BY <2>2
    <3>2. /\ Append(pendingFunctors_, f) \in Seq(Functor)
          /\ Elements(Append(pendingFunctors_, f)) = Elements(pendingFunctors_) \cup {f}
      BY <1>1, <3>1, AppendSome
    <3> QED BY <3>1, <3>2
  <2> QED BY <2>1, <2>2
<1>4. BatchInv'
  BY DEF IInv, BatchInv
<1> QED BY <1>2, <1>3, <1>4 DEF Queued

\* The steps in which handleClose() runs.
Closing ==
  \/ CloseEvent /\ "HUP" \in revents_ /\ "IN" \notin revents_
  \/ ReadEnd
  \/ RunForceClose /\ Closable

\* Where they come from.
LEMMA ClosingFacts ==
  ASSUME Closing
  PROVE  /\ HandleClose /\ fault = "none" /\ UNCHANGED <<revents_, batchRef>>
         /\ \/ /\ lpc = "close" /\ lpc' = "error" /\ functors' = functors
               /\ "HUP" \in revents_ /\ "IN" \notin revents_
            \/ /\ lpc = "read" /\ lpc' = "write" /\ functors' = functors
               /\ "IN" \in revents_
            \/ /\ lpc = "pending" /\ lpc' = lpc /\ Closable
               /\ functors # <<>> /\ Head(functors).op = "forceClose"
               /\ functors' = Tail(functors)
BY DEF Closing, CloseEvent, ReadEnd, RunForceClose, RunNext, At, Running

\* The server forgets the connection when connectDestroyed() has been queued.
LEMMA ClosingInv ==
  ASSUME IInv, Closing
  PROVE  IInv'
<1>1. TypeOK /\ HandleClose
  BY ClosingFacts DEF IInv
<1>2. /\ functors' \in Seq(Functor) /\ pendingFunctors_' \in Seq(Functor) /\ BatchInv'
      /\ Bound("destroyed") \in Queued => Bound("destroyed") \in Queued'
  <2>1. \/ pendingFunctors_' = pendingFunctors_
        \/ \E f \in Functor : pendingFunctors_' = Append(pendingFunctors_, f)
    BY <1>1, CloseFacts, BoundFacts
  <2>2. \/ functors' = functors
        \/ functors # <<>> /\ Head(functors).op # "destroyed" /\ functors' = Tail(functors)
    BY ClosingFacts
  <2>3. lpc' = lpc \/ (lpc # "pending" /\ functors' = functors)
    BY ClosingFacts
  <2> QED BY <2>1, <2>2, <2>3, QueueFacts
<1>3. TypeOK'
  <2>1. /\ batchRef' \in BOOLEAN /\ server' \in BOOLEAN
        /\ fin' \in BOOLEAN /\ inData' \in BOOLEAN /\ peerFin' \in BOOLEAN
        /\ rst' \in BOOLEAN /\ soError' \in BOOLEAN
    BY <1>1, ClosingFacts, CloseFacts, Zenon DEF TypeOK
  <2>2. connections_' \in BOOLEAN
    <3>1. connections_' \in {connections_, FALSE}
      BY <1>1, Zenon DEF HandleClose, RemoveConnection
    <3> QED BY <1>1, <3>1, Zenon DEF TypeOK
  <2>3. /\ lpc' \in {"error", "write", "pending"} /\ revents_' = revents_
        /\ state_' = "kDisconnected" /\ events_' = {} /\ index_' \in {"kAdded", "kDeleted"}
        /\ closes' \in 1 .. 2
        /\ removals' = removals \/ removals' = removals + 1
        /\ fault' \in {"none", "useAfterFree"}
        /\ UNCHANGED <<outputBuffer_, ioLoop, holders, call, sndbuf, received, promised, forced,
                       accepted, destroys>>
    BY <1>1, ClosingFacts, CloseFacts
  <2>4. removals' \in Nat
    BY <1>1, <2>3 DEF TypeOK
  <2> QED BY <1>1, <1>2, <2>1, <2>2, <2>3, <2>4 DEF TypeOK
<1>4. BytesInOrder'
  BY <1>1, CloseFacts, BytesFrame
<1>5. WriteInv' /\ FinInv'
  <2>1. ~Open'
    BY <1>1, CloseFacts DEF Open
  <2> QED BY <2>1 DEF WriteInv, FinInv
<1>6. ForgottenIsDestroyed'
  <2>1. CASE pendingFunctors_' = Append(pendingFunctors_, Bound("destroyed"))
    <3>1. Bound("destroyed") \in Elements(pendingFunctors_')
      BY <1>1, <2>1, AppendDestroyed DEF TypeOK
    <3> QED BY <3>1 DEF ForgottenIsDestroyed
  <2>2. CASE UNCHANGED <<connections_, fault>>
    BY <1>1, <1>2, <2>2, CloseFacts, ForgetFrame
  <2>3. CASE fault' = "useAfterFree"
    BY <2>3 DEF ForgottenIsDestroyed, Running
  <2> QED BY <1>1, <2>1, <2>2, <2>3, CloseFacts
<1> QED BY <1>2, <1>3, <1>4, <1>5, <1>6 DEF IInv

\* The steps in which sendInLoop() runs.
Sending == RunSend \/ \E n \in 1 .. MaxMessage : OwnerSend(n)

\* They give it bytes, unless the connection is gone.
LEMMA SendingFacts ==
  ASSUME TypeOK, Sending
  PROVE  /\ fault = "none" /\ promised' \in 0 .. MaxBytes
         /\ UNCHANGED <<lpc, revents_, batchRef, state_, call, ioLoop, connections_, server,
                        removals, holders, fin, received, inData, peerFin, rst, soError, forced,
                        closes, destroys>>
         /\ \/ functors' = functors /\ state_ = "kConnected" /\ OwnerInUserCode
               /\ \E bytes \in Seq(Nat) : SendInLoop(bytes)
            \/ /\ functors # <<>> /\ Head(functors).op = "send" /\ functors' = Tail(functors)
               /\ \/ Alive /\ \E bytes \in Seq(Nat) : SendInLoop(bytes)
                  \/ /\ fault' = "useAfterFree"
                     /\ UNCHANGED <<outputBuffer_, events_, index_, pendingFunctors_, sndbuf,
                                    accepted>>
<1>1. Len(accepted) \in Nat /\ promised \in 0 .. MaxBytes /\ MaxMessage \in Nat /\ MaxBytes \in Nat
  BY SizesAssumption, LenProperties DEF TypeOK
<1>2. \A n \in Nat : NextBytes(n) \in Seq(Nat) /\ [i \in 1 .. n |-> 0] \in Seq(Nat)
  <2> SUFFICES ASSUME NEW n \in Nat
               PROVE  NextBytes(n) \in Seq(Nat) /\ [i \in 1 .. n |-> 0] \in Seq(Nat)
    OBVIOUS
  <2>1. NextBytes(n) \in [1 .. n -> Nat] /\ [i \in 1 .. n |-> 0] \in [1 .. n -> Nat]
    BY <1>1 DEF NextBytes
  <2> QED BY <2>1, SeqDef
<1>3. CASE RunSend
  <2>1. Head(functors).n \in Nat
    <3>1. functors \in Seq(Functor) /\ functors # <<>>
      BY <1>3 DEF TypeOK, RunSend, RunNext
    <3>2. Head(functors) \in Functor
      BY <3>1, TailFunctor
    <3> QED BY <3>2, <1>1 DEF Functor
  <2>2. \/ Alive /\ \E bytes \in Seq(Nat) : SendInLoop(bytes)
        \/ /\ fault' = "useAfterFree"
           /\ UNCHANGED <<outputBuffer_, events_, index_, pendingFunctors_, sndbuf, accepted>>
    BY <1>2, <1>3, <2>1 DEF RunSend
  <2>3. /\ fault = "none" /\ promised' = promised
        /\ UNCHANGED <<lpc, revents_, batchRef, state_, call, ioLoop, connections_, server,
                       removals, holders, fin, received, inData, peerFin, rst, soError, forced,
                       closes, destroys>>
        /\ functors # <<>> /\ Head(functors).op = "send" /\ functors' = Tail(functors)
    BY <1>3 DEF RunSend, RunNext, At, Running
  <2> QED BY <1>1, <2>2, <2>3
<1>4. CASE \E n \in 1 .. MaxMessage : OwnerSend(n)
  <2>1. PICK n \in 1 .. MaxMessage : OwnerSend(n)
    BY <1>4
  <2>2. /\ fault = "none" /\ promised + n <= MaxBytes /\ promised' = promised + n
        /\ UNCHANGED <<lpc, revents_, functors, batchRef, state_, call, ioLoop, connections_,
                       server, removals, holders, fin, received, inData, peerFin, rst, soError,
                       forced, closes, destroys>>
        /\ state_ = "kConnected" /\ OwnerInUserCode
        /\ SendInLoop(NextBytes(n))
    BY <2>1 DEF OwnerSend, OwnerInUserCode, Running
  <2>3. n \in Nat /\ promised' \in 0 .. MaxBytes
    BY <1>1, <2>2
  <2> QED BY <1>2, <2>2, <2>3
<1> QED BY <1>3, <1>4 DEF Sending

\* The order of the bytes survives them.
LEMMA SendingInv ==
  ASSUME IInv, Sending
  PROVE  IInv'
<1>1. TypeOK
  BY DEF IInv
<1>2. /\ \/ pendingFunctors_' = pendingFunctors_
         \/ pendingFunctors_' = Append(pendingFunctors_, Bound("user"))
      /\ outputBuffer_' \in Seq(Nat) /\ accepted' \in Seq(Nat)
      /\ sndbuf' \in Seq(Nat) /\ Len(sndbuf') <= SendSpace
      /\ events_' \subseteq {"read", "write"} /\ index_' \in {"kNew", "kAdded", "kDeleted"}
      /\ fault' \in {"none", "died", "useAfterFree"}
      /\ BytesInOrder' /\ WriteInv' /\ FinInv'
  <2>1. CASE \E bytes \in Seq(Nat) : SendInLoop(bytes)
    <3>1. PICK bytes \in Seq(Nat) : SendInLoop(bytes)
      BY <2>1
    <3>2. UNCHANGED <<received, fin, closes, destroys>> /\ fault = "none"
      BY <1>1, SendingFacts
    <3>3. UNCHANGED chan \/ Update(events_ \cup {"write"})
      BY <3>1, <3>2, SendFacts
    <3>4. events_' \subseteq {"read", "write"} /\ index_' \in {"kNew", "kAdded", "kDeleted"}
      BY <1>1, <3>3 DEF TypeOK, Update
    <3> QED BY <3>1, <3>2, <3>4, SendFacts
  <2>2. CASE /\ fault' = "useAfterFree"
             /\ UNCHANGED <<outputBuffer_, events_, index_, pendingFunctors_, sndbuf, accepted>>
    <3>1. BytesInOrder' /\ WriteInv' /\ FinInv'
      BY <1>1, <2>2, SendingFacts, BytesFrame, WriteFrame DEF Open
    <3> QED BY <1>1, <2>2, <3>1 DEF TypeOK
  <2> QED BY <1>1, <2>1, <2>2, SendingFacts
<1>3. /\ functors' \in Seq(Functor) /\ pendingFunctors_' \in Seq(Functor) /\ BatchInv'
      /\ Bound("destroyed") \in Queued => Bound("destroyed") \in Queued'
  <2>1. \/ pendingFunctors_' = pendingFunctors_
        \/ \E f \in Functor : pendingFunctors_' = Append(pendingFunctors_, f)
    BY <1>2, BoundFacts
  <2>2. \/ functors' = functors
        \/ functors # <<>> /\ Head(functors).op # "destroyed" /\ functors' = Tail(functors)
    BY <1>1, SendingFacts
  <2>3. lpc' = lpc
    BY <1>1, SendingFacts
  <2> QED BY <2>1, <2>2, <2>3, QueueFacts
<1>4. TypeOK'
  <2>1. /\ batchRef' \in BOOLEAN /\ connections_' \in BOOLEAN /\ server' \in BOOLEAN
        /\ fin' \in BOOLEAN /\ inData' \in BOOLEAN /\ peerFin' \in BOOLEAN
        /\ rst' \in BOOLEAN /\ soError' \in BOOLEAN
    BY <1>1, SendingFacts, Zenon DEF TypeOK
  <2>2. /\ UNCHANGED <<lpc, revents_, state_, call, ioLoop, removals, holders, received, forced,
                       closes, destroys>>
        /\ promised' \in 0 .. MaxBytes
    BY <1>1, SendingFacts
  <2> QED BY <1>1, <1>2, <1>3, <2>1, <2>2 DEF TypeOK
<1>5. ForgottenIsDestroyed'
  BY <1>1, <1>3, SendingFacts, ForgetFrame
<1> QED BY <1>2, <1>3, <1>4, <1>5 DEF IInv
\* The calls that only change what is asked of the loop: they queue a functor
\* at most.
Calls ==
  \/ OwnerForceClose
  \/ \E t \in Others : \/ BeginShutdown(t) \/ BeginForceClose(t) \/ FinishCall(t)
                       \/ \E n \in 1 .. MaxMessage : BeginSend(t, n)
  \/ \E t \in Others \cup {Owner} : Release(t)

\* A call is a record, and so is the functor made of it.
LEMMA CallTypes ==
  ASSUME TypeOK, NEW t \in Others
  PROVE  /\ \A op \in {"idle", "send", "shutdown", "shutdownSet", "forceClose", "forceCloseSet"},
               n \in 0 .. MaxMessage : Step(t, op, n) => call' \in [Others -> Call]
         /\ \A op \in DOMAIN Stored : [op |-> op, n |-> call[t].n] \in Functor
         /\ 0 \in 0 .. MaxMessage /\ \A n \in 1 .. MaxMessage : n \in 0 .. MaxMessage
<1>1. 0 \in 0 .. MaxMessage /\ \A n \in 1 .. MaxMessage : n \in 0 .. MaxMessage
  BY SizesAssumption
<1>2. call \in [Others -> Call] /\ call[t] \in Call
  BY DEF TypeOK
<1>3. \A op \in DOMAIN Stored : [op |-> op, n |-> call[t].n] \in Functor
  BY <1>2 DEF Stored, Call, Functor
<1>4. ASSUME NEW op \in {"idle", "send", "shutdown", "shutdownSet", "forceClose",
                         "forceCloseSet"},
             NEW n \in 0 .. MaxMessage, Step(t, op, n)
      PROVE  call' \in [Others -> Call]
  BY <1>2, <1>4 DEF Step, Call
<1> QED BY <1>1, <1>3, <1>4

\* What they leave alone.
LEMMA CallsFacts ==
  ASSUME TypeOK, Calls
  PROVE  /\ fault = "none" /\ call' \in [Others -> Call] /\ holders' \subseteq holders
         /\ promised' \in 0 .. MaxBytes /\ forced' \in 0 .. MaxCloses
         /\ state_' = state_ \/ state_' = "kDisconnecting"
         /\ \/ pendingFunctors_' = pendingFunctors_
            \/ \E f \in Functor : pendingFunctors_' = Append(pendingFunctors_, f)
         /\ UNCHANGED <<lpc, revents_, functors, batchRef, outputBuffer_, events_, index_, ioLoop,
                        connections_, server, removals, sndbuf, fin, received, inData, peerFin, rst,
                        soError, accepted, closes, destroys, fault>>
<1>1. /\ promised \in 0 .. MaxBytes /\ forced \in 0 .. MaxCloses /\ call \in [Others -> Call]
      /\ MaxBytes \in Nat /\ MaxCloses \in Nat /\ MaxMessage \in Nat
  BY SizesAssumption DEF TypeOK
<1>2. CASE OwnerForceClose
  <2>1. Bound("forceClose") \in Functor
    BY BoundFacts
  <2> QED BY <1>1, <1>2, <2>1 DEF OwnerForceClose, OwnerInUserCode, Running
<1>3. ASSUME NEW t \in Others,
             BeginShutdown(t) \/ BeginForceClose(t) \/ \E n \in 1 .. MaxMessage : BeginSend(t, n)
      PROVE  /\ fault = "none" /\ call' \in [Others -> Call]
             /\ promised' \in 0 .. MaxBytes /\ forced' \in 0 .. MaxCloses
             /\ UNCHANGED <<lpc, revents_, functors, batchRef, state_, outputBuffer_, events_,
                            index_, pendingFunctors_, ioLoop, connections_, server, removals,
                            holders, sndbuf, fin, received, inData, peerFin, rst, soError, accepted,
                            closes, destroys, fault>>
  <2>1. CASE BeginShutdown(t)
    <3>1. Step(t, "shutdown", 0)
      BY <2>1 DEF BeginShutdown, Begin
    <3>2. call' \in [Others -> Call]
      BY <3>1, CallTypes
    <3> QED BY <1>1, <2>1, <3>2 DEF BeginShutdown, Begin, Calling, Running
  <2>2. CASE BeginForceClose(t)
    <3>1. Step(t, "forceClose", 0)
      BY <2>2 DEF BeginForceClose, Begin
    <3>2. call' \in [Others -> Call]
      BY <3>1, CallTypes
    <3> QED BY <1>1, <2>2, <3>2 DEF BeginForceClose, Begin, Calling, Running
  <2>3. CASE \E n \in 1 .. MaxMessage : BeginSend(t, n)
    <3>0. PICK n \in 1 .. MaxMessage : BeginSend(t, n)
      BY <2>3
    <3>1. Step(t, "send", n)
      BY <3>0 DEF BeginSend, Begin
    <3>2. call' \in [Others -> Call]
      BY <3>1, CallTypes
    <3> QED BY <1>1, <3>0, <3>2 DEF BeginSend, Begin, Calling, Running
  <2> QED BY <1>3, <2>1, <2>2, <2>3
<1>4. ASSUME NEW t \in Others, SetDisconnecting(t)
      PROVE  /\ fault = "none" /\ call' \in [Others -> Call] /\ state_' = "kDisconnecting"
             /\ UNCHANGED <<lpc, revents_, functors, batchRef, outputBuffer_, events_, index_,
                            pendingFunctors_, ioLoop, connections_, server, removals, holders,
                            sndbuf, fin, received, inData, peerFin, rst, soError, promised, forced,
                            accepted, closes, destroys, fault>>
  <2>1. Step(t, "shutdownSet", 0) \/ Step(t, "forceCloseSet", 0)
    BY <1>4 DEF SetDisconnecting
  <2>2. call' \in [Others -> Call]
    BY <2>1, CallTypes
  <2> QED BY <1>4, <2>2 DEF SetDisconnecting, Calling, Running
<1>5. ASSUME NEW t \in Others, Queue(t)
      PROVE  /\ fault = "none" /\ call' \in [Others -> Call]
             /\ \E f \in Functor : pendingFunctors_' = Append(pendingFunctors_, f)
             /\ UNCHANGED <<lpc, revents_, functors, batchRef, state_, outputBuffer_, events_,
                            index_, ioLoop, connections_, server, removals, holders, sndbuf, fin,
                            received, inData, peerFin, rst, soError, promised, forced, accepted,
                            closes, destroys, fault>>
  <2>1. PICK op \in DOMAIN Stored :
             /\ Calling(t, Stored[op])
             /\ pendingFunctors_' = Append(pendingFunctors_, [op |-> op, n |-> call[t].n])
    BY <1>5 DEF Queue
  <2>2. [op |-> op, n |-> call[t].n] \in Functor
    BY CallTypes
  <2>3. call' \in [Others -> Call]
    BY <1>5, CallTypes DEF Queue
  <2>4. fault = "none"
    BY <2>1 DEF Calling, Running
  <2> QED BY <1>5, <2>1, <2>2, <2>3, <2>4 DEF Queue
<1>6. ASSUME NEW t \in Others \cup {Owner}, Release(t)
      PROVE  /\ fault = "none" /\ holders' \subseteq holders
             /\ UNCHANGED <<lpc, revents_, functors, batchRef, state_, outputBuffer_, events_,
                            index_, pendingFunctors_, call, ioLoop, connections_, server, removals,
                            sndbuf, fin, received, inData, peerFin, rst, soError, promised, forced,
                            accepted, closes, destroys, fault>>
  BY <1>6 DEF Release, Running
<1> QED BY <1>1, <1>2, <1>3, <1>4, <1>5, <1>6 DEF Calls, FinishCall

\* So they keep the invariant.
LEMMA CallsInv ==
  ASSUME IInv, Calls
  PROVE  IInv'
<1>1. TypeOK
  BY DEF IInv
<1>2. /\ functors' \in Seq(Functor) /\ pendingFunctors_' \in Seq(Functor) /\ BatchInv'
      /\ Bound("destroyed") \in Queued => Bound("destroyed") \in Queued'
  <2>1. /\ functors' = functors /\ lpc' = lpc
        /\ \/ pendingFunctors_' = pendingFunctors_
           \/ \E f \in Functor : pendingFunctors_' = Append(pendingFunctors_, f)
    BY <1>1, CallsFacts
  <2> QED BY <2>1, QueueFacts
<1>3. TypeOK'
  <2>1. /\ batchRef' \in BOOLEAN /\ connections_' \in BOOLEAN /\ server' \in BOOLEAN
        /\ fin' \in BOOLEAN /\ inData' \in BOOLEAN /\ peerFin' \in BOOLEAN
        /\ rst' \in BOOLEAN /\ soError' \in BOOLEAN
    BY <1>1, CallsFacts, Zenon DEF TypeOK
  <2>2. /\ UNCHANGED <<lpc, revents_, outputBuffer_, events_, index_, ioLoop, removals, sndbuf,
                       received, accepted, closes, destroys, fault>>
        /\ call' \in [Others -> Call] /\ holders' \subseteq holders
        /\ promised' \in 0 .. MaxBytes /\ forced' \in 0 .. MaxCloses
        /\ state_' = state_ \/ state_' = "kDisconnecting"
    BY <1>1, CallsFacts
  <2> QED BY <1>1, <1>2, <2>1, <2>2 DEF TypeOK
<1>4. BytesInOrder' /\ WriteInv' /\ FinInv' /\ ForgottenIsDestroyed'
  BY <1>1, <1>2, CallsFacts, BytesFrame, WriteFrame, ForgetFrame DEF Open
<1> QED BY <1>2, <1>3, <1>4 DEF IInv

\* The steps in which shutdownInLoop() runs.
ShuttingDown == RunShutdown \/ OwnerShutdown

\* What they change.
LEMMA ShutdownFacts ==
  ASSUME TypeOK, ShuttingDown
  PROVE  /\ fault = "none"
         /\ UNCHANGED <<lpc, revents_, batchRef, outputBuffer_, events_, index_, pendingFunctors_,
                        call, ioLoop, connections_, server, removals, holders, sndbuf, received,
                        inData, peerFin, rst, soError, promised, forced, accepted, closes,
                        destroys>>
         /\ \/ /\ functors' = functors /\ state_ = "kConnected" /\ state_' = "kDisconnecting"
               /\ OwnerInUserCode /\ ShutdownInLoop
            \/ /\ functors # <<>> /\ Head(functors).op = "shutdown"
               /\ functors' = Tail(functors) /\ state_' = state_
               /\ ShutdownInLoop \/ (fault' = "useAfterFree" /\ UNCHANGED fin)
BY DEF ShuttingDown, RunShutdown, OwnerShutdown, RunNext, At, OwnerInUserCode, Running

\* shutdownInLoop(): the FIN goes out only where nothing is buffered.
LEMMA FinFacts ==
  ASSUME TypeOK, ShutdownInLoop
  PROVE  /\ fin' \in BOOLEAN /\ (fin' = fin \/ "write" \notin events_)
         /\ fault' = fault \/ (fault' = "died" /\ (rst \/ (fin /\ peerFin)) /\ fin' = fin)
<1>1. fin' = fin \/ (fin' = TRUE /\ "write" \notin events_)
  BY DEF ShutdownInLoop, ShutdownWrite
<1>2. fault' = fault \/ (fault' = "died" /\ (rst \/ (fin /\ peerFin)) /\ fin' = fin)
  BY DEF ShutdownInLoop, ShutdownWrite
<1>3. fin' \in BOOLEAN
  BY <1>1, Zenon DEF TypeOK
<1> QED BY <1>1, <1>2, <1>3

\* So shutdown() keeps the invariant.
LEMMA ShutdownInv ==
  ASSUME IInv, ShuttingDown
  PROVE  IInv'
<1>1. TypeOK
  BY DEF IInv
<1>2. /\ fin' \in BOOLEAN /\ (fin' = fin \/ "write" \notin events_)
      /\ fault' \in {"none", "died", "useAfterFree"}
  <2>1. fin \in BOOLEAN
    BY <1>1, Zenon DEF TypeOK
  <2>2. ShutdownInLoop \/ (fault' = "useAfterFree" /\ fin' = fin)
    BY <1>1, ShutdownFacts
  <2> QED BY <1>1, <2>1, <2>2, FinFacts, ShutdownFacts
<1>3. /\ functors' \in Seq(Functor) /\ pendingFunctors_' \in Seq(Functor) /\ BatchInv'
      /\ Bound("destroyed") \in Queued => Bound("destroyed") \in Queued'
  <2>1. /\ lpc' = lpc /\ pendingFunctors_' = pendingFunctors_
        /\ \/ functors' = functors
           \/ functors # <<>> /\ Head(functors).op # "destroyed" /\ functors' = Tail(functors)
    BY <1>1, ShutdownFacts
  <2> QED BY <2>1, QueueFacts
<1>4. TypeOK'
  <2>1. /\ batchRef' \in BOOLEAN /\ connections_' \in BOOLEAN /\ server' \in BOOLEAN
        /\ inData' \in BOOLEAN /\ peerFin' \in BOOLEAN
        /\ rst' \in BOOLEAN /\ soError' \in BOOLEAN
    BY <1>1, ShutdownFacts, Zenon DEF TypeOK
  <2>2. /\ UNCHANGED <<lpc, revents_, outputBuffer_, events_, index_, call, ioLoop, removals,
                       holders, sndbuf, received, promised, forced, accepted, closes, destroys>>
        /\ state_' = state_ \/ state_' = "kDisconnecting"
    BY <1>1, ShutdownFacts
  <2>3. fin' \in BOOLEAN
    BY <1>2, Zenon
  <2>4. fault' \in {"none", "died", "useAfterFree"}
    BY <1>2
  <2> QED BY <1>1, <1>3, <2>1, <2>2, <2>3, <2>4 DEF TypeOK
<1>5. WriteInv' /\ FinInv'
  <2>1. UNCHANGED <<outputBuffer_, events_, closes, destroys>>
    BY <1>1, ShutdownFacts
  <2> QED BY <1>2, <2>1 DEF IInv, WriteInv, FinInv, Open
<1>6. BytesInOrder' /\ ForgottenIsDestroyed'
  BY <1>1, <1>3, ShutdownFacts, BytesFrame, ForgetFrame
<1> QED BY <1>3, <1>4, <1>5, <1>6 DEF IInv
\* What handleWrite() changes when the kernel takes bytes.
LEMMA WriteEventFacts ==
  ASSUME TypeOK, WriteEvent
  PROVE  /\ lpc = "write" /\ lpc' = "swap" /\ fault = "none" /\ fault' \in {"none", "died"}
         /\ revents_' = {} /\ "write" \in events_ /\ ~fin /\ ~rst
         /\ fin' \in BOOLEAN
         /\ UNCHANGED <<functors, batchRef, state_, call, ioLoop, connections_, server, removals,
                        holders, received, inData, peerFin, rst, soError, promised, forced,
                        accepted, closes, destroys>>
         /\ \/ /\ outputBuffer_' # <<>>
               /\ UNCHANGED <<events_, index_, pendingFunctors_, fin, fault>>
            \/ /\ outputBuffer_' = <<>> /\ events_' = events_ \ {"write"}
               /\ index_' = IF index_ = "kAdded" /\ events_' = {} THEN "kDeleted" ELSE "kAdded"
               /\ pendingFunctors_' = Append(pendingFunctors_, Bound("user"))
               /\ \/ UNCHANGED <<fin, fault>>
                  \/ state_ = "kDisconnecting" /\ ShutdownWrite
<1>1. /\ lpc = "write" /\ lpc' = "swap" /\ fault = "none" /\ Flushed
      /\ revents_' = {} /\ "write" \in events_ /\ ~fin /\ ~rst
      /\ UNCHANGED <<functors, batchRef, state_, call, ioLoop, connections_, server, removals,
                     holders, received, inData, peerFin, rst, soError, promised, forced,
                     accepted, closes, destroys>>
  BY DEF WriteEvent, At, Running
<1>2. /\ fin' = fin \/ fin' = TRUE
      /\ fault' = fault \/ fault' = "died"
  BY <1>1 DEF Flushed, PendingShutdown, ShutdownWrite
<1>3. fin' \in BOOLEAN
  BY <1>2, Zenon DEF TypeOK
<1>4. \/ /\ outputBuffer_' # <<>>
         /\ UNCHANGED <<events_, index_, pendingFunctors_, fin, fault>>
      \/ /\ outputBuffer_' = <<>> /\ events_' = events_ \ {"write"}
         /\ index_' = IF index_ = "kAdded" /\ events_' = {} THEN "kDeleted" ELSE "kAdded"
         /\ pendingFunctors_' = Append(pendingFunctors_, Bound("user"))
         /\ \/ UNCHANGED <<fin, fault>>
            \/ state_ = "kDisconnecting" /\ ShutdownWrite
  BY <1>1 DEF Flushed, PendingShutdown, Update
<1> QED BY <1>1, <1>2, <1>3, <1>4

\* The bytes move from the buffer to the kernel; the FIN may follow the last.
LEMMA WriteEventInv ==
  ASSUME IInv, WriteEvent
  PROVE  IInv'
<1>1. TypeOK
  BY DEF IInv
<1>2. /\ sndbuf' \in Seq(Nat) /\ Len(sndbuf') <= SendSpace /\ outputBuffer_' \in Seq(Nat)
      /\ BytesInOrder'
  <2>1. /\ received \in Seq(Nat) /\ sndbuf \in Seq(Nat) /\ outputBuffer_ \in Seq(Nat)
        /\ Len(sndbuf) <= SendSpace /\ SendSpace \in Nat
        /\ Len(sndbuf) \in Nat /\ Len(outputBuffer_) \in Nat
    BY <1>1, SizesAssumption, LenProperties DEF TypeOK
  <2>2. PICK n : n = Least(Len(outputBuffer_), SendSpace - Len(sndbuf))
    OBVIOUS
  <2>3. n \in Nat /\ n <= Len(outputBuffer_) /\ n <= SendSpace - Len(sndbuf)
    BY <2>1, <2>2 DEF Least
  <2>4. /\ Prefix(outputBuffer_, n) \in Seq(Nat) /\ Rest(outputBuffer_, n) \in Seq(Nat)
        /\ Len(Prefix(outputBuffer_, n)) = n
        /\ outputBuffer_ = Cat(Prefix(outputBuffer_, n), Rest(outputBuffer_, n))
    BY <2>1, <2>3, PrefixRest DEF Cat
  <2>5. PICK p \in Seq(Nat), r \in Seq(Nat) :
          p = Prefix(outputBuffer_, n) /\ r = Rest(outputBuffer_, n)
    BY <2>4
  <2>6. sndbuf' = Cat(sndbuf, p) /\ outputBuffer_' = r
    BY <2>2, <2>5 DEF WriteEvent, Cat
  <2>7. sndbuf' \in Seq(Nat) /\ Len(sndbuf') = Len(sndbuf) + n
    <3>1. Len(p) = n
      BY <2>4, <2>5
    <3>2. Cat(sndbuf, p) \in Seq(Nat) /\ Len(Cat(sndbuf, p)) = Len(sndbuf) + Len(p)
      BY <2>1, CatFacts
    <3> QED BY <2>6, <3>1, <3>2
  <2>8. Stream(received, Cat(sndbuf, p), r) = Stream(received, sndbuf, Cat(p, r))
    BY <2>1, StreamMoves
  <2>9. BytesInOrder'
    BY <1>1, <2>4, <2>5, <2>6, <2>8, WriteEventFacts, InOrder DEF IInv
  <2> QED BY <2>1, <2>3, <2>5, <2>6, <2>7, <2>9
<1>3. /\ functors' \in Seq(Functor) /\ pendingFunctors_' \in Seq(Functor) /\ BatchInv'
      /\ Bound("destroyed") \in Queued => Bound("destroyed") \in Queued'
  <2>1. /\ lpc # "pending" /\ functors' = functors
        /\ \/ pendingFunctors_' = pendingFunctors_
           \/ \E f \in Functor : pendingFunctors_' = Append(pendingFunctors_, f)
    BY <1>1, WriteEventFacts, BoundFacts
  <2> QED BY <2>1, QueueFacts
<1>4. TypeOK'
  <2>1. /\ batchRef' \in BOOLEAN /\ connections_' \in BOOLEAN /\ server' \in BOOLEAN
        /\ fin' \in BOOLEAN /\ inData' \in BOOLEAN /\ peerFin' \in BOOLEAN
        /\ rst' \in BOOLEAN /\ soError' \in BOOLEAN
    BY <1>1, WriteEventFacts, Zenon DEF TypeOK
  <2>2. /\ UNCHANGED <<state_, call, ioLoop, removals, holders, received, promised, forced,
                       accepted, closes, destroys>>
        /\ lpc' = "swap" /\ revents_' = {} /\ fault' \in {"none", "died"}
    BY <1>1, WriteEventFacts
  <2>3. events_' \subseteq {"read", "write"} /\ index_' \in {"kNew", "kAdded", "kDeleted"}
    BY <1>1, WriteEventFacts DEF TypeOK
  <2> QED BY <1>1, <1>2, <1>3, <2>1, <2>2, <2>3 DEF TypeOK
<1>5. WriteInv' /\ FinInv'
  <2>1. /\ UNCHANGED <<closes, destroys>> /\ "write" \in events_ /\ ~fin
        /\ \/ outputBuffer_' # <<>> /\ UNCHANGED <<events_, fin>>
           \/ outputBuffer_' = <<>> /\ events_' = events_ \ {"write"}
    BY <1>1, WriteEventFacts
  <2> QED BY <2>1 DEF IInv, WriteInv, FinInv, Open
<1>6. ForgottenIsDestroyed'
  BY <1>1, <1>3, WriteEventFacts, ForgetFrame
<1> QED BY <1>2, <1>3, <1>4, <1>5, <1>6 DEF IInv

\* connectEstablished() in the connection's own loop.
LEMMA EstablishedInv ==
  ASSUME IInv, RunEstablished
  PROVE  IInv'
<1>1. TypeOK
  BY DEF IInv
<1>2. /\ fault = "none" /\ functors # <<>> /\ Head(functors).op = "established"
      /\ functors' = Tail(functors) /\ state_' = "kConnected" /\ events_' = events_ \cup {"read"}
      /\ index_' \in {"kDeleted", "kAdded"} /\ holders' = Others \cup {Owner}
      /\ UNCHANGED <<lpc, revents_, batchRef, outputBuffer_, pendingFunctors_, call, ioLoop,
                     connections_, server, removals, sndbuf, fin, received, inData, peerFin, rst,
                     soError, promised, forced, accepted, closes, destroys, fault>>
  BY DEF RunEstablished, RunNext, At, Running, Update
<1>3. /\ functors' \in Seq(Functor) /\ pendingFunctors_' \in Seq(Functor) /\ BatchInv'
      /\ Bound("destroyed") \in Queued => Bound("destroyed") \in Queued'
  BY <1>2, QueueFacts
<1>4. TypeOK'
  <2>1. /\ batchRef' \in BOOLEAN /\ connections_' \in BOOLEAN /\ server' \in BOOLEAN
        /\ fin' \in BOOLEAN /\ inData' \in BOOLEAN /\ peerFin' \in BOOLEAN
        /\ rst' \in BOOLEAN /\ soError' \in BOOLEAN
    BY <1>1, <1>2, Zenon DEF TypeOK
  <2> QED BY <1>1, <1>2, <1>3, <2>1 DEF TypeOK
<1>5. WriteInv' /\ FinInv'
  <2>1. "write" \in events_' <=> "write" \in events_
    BY <1>2
  <2> QED BY <1>2, <2>1 DEF IInv, WriteInv, FinInv, Open
<1>6. BytesInOrder' /\ ForgottenIsDestroyed'
  BY <1>1, <1>2, <1>3, BytesFrame, ForgetFrame
<1> QED BY <1>3, <1>4, <1>5, <1>6 DEF IInv

\* connectDestroyed() in the connection's own loop.
LEMMA DestroyedInv ==
  ASSUME IInv, RunDestroyed
  PROVE  IInv'
<1>1. TypeOK
  BY DEF IInv
<1>2. /\ fault = "none" /\ lpc = "pending" /\ functors # <<>> /\ functors' = Tail(functors)
      /\ ConnectDestroyed
      /\ UNCHANGED <<lpc, revents_, batchRef, outputBuffer_, pendingFunctors_, call, ioLoop,
                     connections_, server, removals, holders, sndbuf, fin, received, inData,
                     peerFin, rst, soError, promised, forced, accepted, closes, fault>>
  BY DEF RunDestroyed, RunNext, At, Running
<1>3. functors' \in Seq(Functor)
  BY <1>1, <1>2, TailFunctor DEF TypeOK
<1>4. /\ index_' = "kNew" /\ destroys' \in 1 .. 2 /\ events_' \subseteq {"read", "write"}
      /\ state_' \in {"kDisconnected", "kConnecting", "kDisconnecting"}
  BY <1>1, <1>2, DestroyFacts
<1>5. TypeOK'
  <2>1. /\ batchRef' \in BOOLEAN /\ connections_' \in BOOLEAN /\ server' \in BOOLEAN
        /\ fin' \in BOOLEAN /\ inData' \in BOOLEAN /\ peerFin' \in BOOLEAN
        /\ rst' \in BOOLEAN /\ soError' \in BOOLEAN
    BY <1>1, <1>2, Zenon DEF TypeOK
  <2> QED BY <1>1, <1>2, <1>3, <1>4, <2>1 DEF TypeOK
<1>6. BytesInOrder'
  BY <1>2, BytesFrame
<1>7. WriteInv' /\ FinInv' /\ BatchInv' /\ ForgottenIsDestroyed'
  BY <1>2, <1>4 DEF WriteInv, FinInv, BatchInv, ForgottenIsDestroyed, Open
<1> QED BY <1>5, <1>6, <1>7 DEF IInv

\* ~TcpServer() calls connectDestroyed() or queues it.
LEMMA ServerInv ==
  ASSUME IInv, DestroyServer
  PROVE  IInv'
<1>1. TypeOK
  BY DEF IInv
<1>2. /\ fault = "none" /\ server' = FALSE /\ connections_' = FALSE
      /\ UNCHANGED <<lpc, revents_, functors, batchRef, outputBuffer_, call, ioLoop, removals,
                     holders, sndbuf, fin, received, inData, peerFin, rst, soError, promised,
                     forced, accepted, closes, fault>>
      /\ \/ connections_ /\ ConnectDestroyed /\ UNCHANGED pendingFunctors_
         \/ /\ pendingFunctors_' = Append(pendingFunctors_, Bound("destroyed"))
            /\ UNCHANGED <<state_, events_, index_, destroys>>
         \/ ~connections_ /\ UNCHANGED <<state_, events_, index_, pendingFunctors_, destroys>>
  BY DEF DestroyServer, QueueDestroyed, Running
<1>3. /\ index_' \in {"kNew", "kAdded", "kDeleted"} /\ destroys' \in 0 .. 2
      /\ events_' \subseteq {"read", "write"}
      /\ state_' \in {"kDisconnected", "kConnecting", "kConnected", "kDisconnecting"}
      /\ destroys' > 0 \/ UNCHANGED <<state_, events_, index_, destroys>>
  <2>1. CASE ConnectDestroyed
    BY <1>1, <2>1, DestroyFacts
  <2>2. CASE UNCHANGED <<state_, events_, index_, destroys>>
    BY <1>1, <2>2 DEF TypeOK
  <2> QED BY <1>2, <2>1, <2>2
<1>4. /\ functors' \in Seq(Functor) /\ pendingFunctors_' \in Seq(Functor) /\ BatchInv'
      /\ Bound("destroyed") \in Queued => Bound("destroyed") \in Queued'
  <2>1. /\ functors' = functors /\ lpc' = lpc
        /\ \/ pendingFunctors_' = pendingFunctors_
           \/ \E f \in Functor : pendingFunctors_' = Append(pendingFunctors_, f)
    BY <1>2, BoundFacts
  <2> QED BY <2>1, QueueFacts
<1>5. TypeOK'
  <2>1. /\ batchRef' \in BOOLEAN /\ connections_' \in BOOLEAN /\ server' \in BOOLEAN
        /\ fin' \in BOOLEAN /\ inData' \in BOOLEAN /\ peerFin' \in BOOLEAN
        /\ rst' \in BOOLEAN /\ soError' \in BOOLEAN
    BY <1>1, <1>2, Zenon DEF TypeOK
  <2> QED BY <1>1, <1>2, <1>3, <1>4, <2>1 DEF TypeOK
<1>6. BytesInOrder'
  BY <1>2, BytesFrame
<1>7. WriteInv' /\ FinInv'
  BY <1>2, <1>3 DEF IInv, WriteInv, FinInv, Open
<1>8. ForgottenIsDestroyed'
  <2>1. CASE ConnectDestroyed
    BY <1>1, <2>1, DestroyFacts DEF ForgottenIsDestroyed
  <2>2. CASE pendingFunctors_' = Append(pendingFunctors_, Bound("destroyed"))
    <3>1. Bound("destroyed") \in Elements(pendingFunctors_')
      BY <1>1, <2>2, AppendDestroyed DEF TypeOK
    <3> QED BY <3>1 DEF ForgottenIsDestroyed
  <2>3. CASE ~connections_ /\ UNCHANGED <<pendingFunctors_, destroys>>
    BY <1>2, <2>3 DEF IInv, ForgottenIsDestroyed, Running
  <2> QED BY <1>2, <2>1, <2>2, <2>3
<1> QED BY <1>4, <1>5, <1>6, <1>7, <1>8 DEF IInv

\* The server's loop forgets a connection of another loop, and queues
\* connectDestroyed() there.
LEMMA RemovalInv ==
  ASSUME IInv, RemoveConnectionInLoop
  PROVE  IInv'
<1>1. TypeOK
  BY DEF IInv
<1>2. /\ fault = "none" /\ removals > 0 /\ removals' = removals - 1 /\ connections_' = FALSE
      /\ pendingFunctors_' = Append(pendingFunctors_, Bound("destroyed"))
      /\ fault' \in {"none", "useAfterFree"}
      /\ UNCHANGED <<lpc, revents_, functors, batchRef, state_, outputBuffer_, events_, index_,
                     ioLoop, server, holders, call, sndbuf, fin, received, inData, peerFin, rst,
                     soError, promised, forced, accepted, closes, destroys>>
  BY DEF RemoveConnectionInLoop, QueueDestroyed, Running
<1>3. /\ functors' \in Seq(Functor) /\ pendingFunctors_' \in Seq(Functor) /\ BatchInv'
  <2>1. /\ functors' = functors /\ lpc' = lpc
        /\ \E f \in Functor : pendingFunctors_' = Append(pendingFunctors_, f)
    BY <1>2, BoundFacts
  <2> QED BY <2>1, QueueFacts
<1>4. TypeOK'
  <2>1. /\ batchRef' \in BOOLEAN /\ connections_' \in BOOLEAN /\ server' \in BOOLEAN
        /\ fin' \in BOOLEAN /\ inData' \in BOOLEAN /\ peerFin' \in BOOLEAN
        /\ rst' \in BOOLEAN /\ soError' \in BOOLEAN
    BY <1>1, <1>2, Zenon DEF TypeOK
  <2>2. removals' \in Nat
    BY <1>1, <1>2 DEF TypeOK
  <2> QED BY <1>1, <1>2, <1>3, <2>1, <2>2 DEF TypeOK
<1>5. BytesInOrder' /\ WriteInv' /\ FinInv'
  BY <1>2, BytesFrame, WriteFrame DEF Open
<1>6. Bound("destroyed") \in Elements(pendingFunctors_')
  BY <1>1, <1>2, AppendDestroyed DEF TypeOK
<1>7. ForgottenIsDestroyed'
  BY <1>6 DEF ForgottenIsDestroyed
<1> QED BY <1>3, <1>4, <1>5, <1>7 DEF IInv

\* A dead channel is called: only the fault changes.
LEMMA DeadInv ==
  ASSUME IInv, HandleDead
  PROVE  IInv'
<1>1. /\ fault' = "useAfterFree"
      /\ UNCHANGED <<lpc, revents_, state_, outputBuffer_, events_, index_, pendingFunctors_,
                     functors, batchRef, ioLoop, connections_, server, removals, holders, call,
                     sndbuf, received, fin, inData, peerFin, rst, soError, promised, forced,
                     accepted, closes, destroys>>
  BY DEF HandleDead
<1>2. /\ batchRef' \in BOOLEAN /\ connections_' \in BOOLEAN /\ server' \in BOOLEAN
      /\ fin' \in BOOLEAN /\ inData' \in BOOLEAN /\ peerFin' \in BOOLEAN
      /\ rst' \in BOOLEAN /\ soError' \in BOOLEAN
  BY <1>1, Zenon DEF IInv, TypeOK
<1>3. TypeOK'
  BY <1>1, <1>2 DEF IInv, TypeOK
<1>4. BytesInOrder' /\ WriteInv' /\ FinInv' /\ BatchInv'
  BY <1>1, BytesFrame, WriteFrame DEF Open, IInv, BatchInv
<1>5. ForgottenIsDestroyed'
  BY <1>1 DEF ForgottenIsDestroyed, Running
<1> QED BY <1>3, <1>4, <1>5 DEF IInv

\* Every step is one of these.
LEMMA NextCases ==
  ASSUME Next
  PROVE  \/ Look \/ HandleDead \/ Turn \/ Closing \/ Sending \/ ShuttingDown \/ Calls \/ PeerStep
         \/ WriteEvent \/ RunEstablished \/ RunDestroyed \/ DestroyServer
         \/ RemoveConnectionInLoop
<1>1. LoopStep => \/ Look \/ HandleDead \/ Turn \/ Closing \/ RunSend \/ RunShutdown
                  \/ WriteEvent \/ RunEstablished \/ RunDestroyed
  BY DEF LoopStep, RunFunctor, Look, Turn, Closing, CloseEvent, RunForceClose
<1> QED BY <1>1 DEF Next, OwnerCall, Sending, ShuttingDown, Calls, PeerStep

\* The invariant is inductive.
LEMMA NextInv == IInv /\ [Next]_vars => IInv'
<1> SUFFICES ASSUME IInv, [Next]_vars PROVE IInv'
  OBVIOUS
<1>1. CASE Next
  BY <1>1, NextCases, LookInv, DeadInv, TurnInv, ClosingInv, SendingInv, ShutdownInv, CallsInv, PeerInv,
     WriteEventInv, EstablishedInv, DestroyedInv, ServerInv, RemovalInv
<1>2. CASE UNCHANGED vars
  <2>1. UNCHANGED <<lpc, revents_, state_, outputBuffer_, events_, index_, pendingFunctors_,
                    functors, batchRef, ioLoop, connections_, server, removals, holders, call,
                    sndbuf, received, fin, inData, peerFin, rst, soError, promised, forced,
                    accepted, closes, destroys, fault>>
    BY <1>2 DEF vars
  <2>2. TypeOK'
    <3>1. /\ batchRef' \in BOOLEAN /\ connections_' \in BOOLEAN /\ server' \in BOOLEAN
          /\ fin' \in BOOLEAN /\ inData' \in BOOLEAN /\ peerFin' \in BOOLEAN
          /\ rst' \in BOOLEAN /\ soError' \in BOOLEAN
      BY <2>1, Zenon DEF IInv, TypeOK
    <3> QED BY <2>1, <3>1 DEF IInv, TypeOK
  <2>3. BytesInOrder' /\ WriteInv' /\ FinInv' /\ ForgottenIsDestroyed'
    BY <2>1, BytesFrame, WriteFrame, ForgetFrame DEF Open, Queued
  <2>4. BatchInv'
    BY <2>1 DEF IInv, BatchInv
  <2> QED BY <2>2, <2>3, <2>4 DEF IInv
<1> QED BY <1>1, <1>2

\* The inductive invariant holds in every state.
THEOREM Inductive == Spec => []IInv
BY InitInv, NextInv, PTL DEF Spec

\* Whatever threads send, and wherever the kernel cuts the messages: the peer,
\* the kernel and outputBuffer_ hold exactly the bytes that sendInLoop() has
\* taken, in order. (It takes none in a call whose first write() fails.)
THEOREM Ordered == Spec => []BytesInOrder
<1>1. IInv => BytesInOrder
  BY DEF IInv
<1> QED BY <1>1, Inductive, PTL

\* enableWriting() and disableWriting() follow the buffer: an open connection
\* asks for EPOLLOUT exactly while outputBuffer_ holds bytes.
THEOREM WritingFollows == Spec => []WritingWhileBuffered
<1>1. IInv => WritingWhileBuffered
  BY DEF IInv, WriteInv, WritingWhileBuffered
<1> QED BY <1>1, Inductive, PTL

\* shutdown() cuts nothing off: when shutdownWrite() has been called on an
\* open connection, all its bytes are with the kernel or the peer.
THEOREM FinIsLast == Spec => []FinAfterBytes
<1>1. IInv => FinAfterBytes
  <2> SUFFICES ASSUME IInv, fin, Open PROVE received \o sndbuf = accepted
    BY DEF FinAfterBytes
  <2>1. /\ received \in Seq(Nat) /\ sndbuf \in Seq(Nat) /\ outputBuffer_ = <<>>
        /\ Stream(received, sndbuf, outputBuffer_) = accepted
    BY InOrder DEF IInv, TypeOK, FinInv
  <2>2. Cat(received, sndbuf) = Stream(received, sndbuf, outputBuffer_)
    BY <2>1, CatFacts DEF Stream
  <2> QED BY <2>1, <2>2 DEF Cat
<1> QED BY <1>1, Inductive, PTL

\* TcpServer forgets no connection without connectDestroyed(), even when the
\* connection closes in its loop while ~TcpServer() runs in another.
THEOREM NeverForgotten == Spec => []ForgottenIsDestroyed
<1>1. IInv => ForgottenIsDestroyed
  BY DEF IInv
<1> QED BY <1>1, Inductive, PTL
-----------------------------------------------------------------------------
(***************************************************************************)
(* A connection used in its loop's thread only: its queues.                *)
(***************************************************************************)

\* What a queue holds of each kind of functor when one is added,
LEMMA AppendKinds ==
  ASSUME NEW q \in Seq(Functor), NEW f \in Functor, NEW q2, q2 = Append(q, f)
  PROVE  /\ f.op \notin {"send", "shutdown"} /\ FromHere(q) => FromHere(q2)
         /\ f.op # "destroyed" /\ NoDestroyed(q) => NoDestroyed(q2)
         /\ f.op # "destroyed" /\ OneDestroyed(q) => OneDestroyed(q2)
         /\ NoDestroyed(q) => OneDestroyed(q2)
<1>1. \A i \in DOMAIN q2 : (i \in DOMAIN q /\ q2[i] = q[i]) \/ (i = Len(q) + 1 /\ q2[i] = f)
  BY AppendFunctor
<1>2. f.op \notin {"send", "shutdown"} /\ FromHere(q) => FromHere(q2)
  BY <1>1 DEF FromHere
<1>3. f.op # "destroyed" /\ NoDestroyed(q) => NoDestroyed(q2)
  BY <1>1 DEF NoDestroyed
<1>4. f.op # "destroyed" /\ OneDestroyed(q) => OneDestroyed(q2)
  BY <1>1 DEF OneDestroyed
<1>5. NoDestroyed(q) => OneDestroyed(q2)
  BY <1>1 DEF NoDestroyed, OneDestroyed
<1> QED BY <1>2, <1>3, <1>4, <1>5

\* and when the first is taken.
LEMMA TailKinds ==
  ASSUME NEW q \in Seq(Functor), q # <<>>, NEW t, t = Tail(q)
  PROVE  /\ FromHere(q) => FromHere(t) /\ Head(q).op \notin {"send", "shutdown"}
         /\ NoDestroyed(q) => NoDestroyed(t) /\ Head(q).op # "destroyed"
         /\ OneDestroyed(q) => OneDestroyed(t)
         /\ Head(q).op = "destroyed" /\ OneDestroyed(q) => NoDestroyed(t)
<1>1. /\ \A i \in DOMAIN t : i + 1 \in DOMAIN q /\ t[i] = q[i + 1] /\ i \in Nat /\ i # 0
      /\ 1 \in DOMAIN q /\ q[1] = Head(q)
  BY TailFunctor
<1>2. FromHere(q) => FromHere(t) /\ Head(q).op \notin {"send", "shutdown"}
  BY <1>1 DEF FromHere
<1>3. NoDestroyed(q) => NoDestroyed(t) /\ Head(q).op # "destroyed"
  BY <1>1 DEF NoDestroyed
<1>4. OneDestroyed(q) => OneDestroyed(t)
  <2> SUFFICES ASSUME OneDestroyed(q), NEW i \in DOMAIN t, NEW j \in DOMAIN t,
                      t[i].op = "destroyed", t[j].op = "destroyed"
               PROVE  i = j
    BY DEF OneDestroyed
  <2>1. i + 1 = j + 1
    BY <1>1 DEF OneDestroyed
  <2> QED BY <1>1, <2>1
<1>5. Head(q).op = "destroyed" /\ OneDestroyed(q) => NoDestroyed(t)
  <2> SUFFICES ASSUME Head(q).op = "destroyed", OneDestroyed(q), NEW i \in DOMAIN t,
                      t[i].op = "destroyed"
               PROVE  FALSE
    BY DEF NoDestroyed
  <2>1. i + 1 = 1
    BY <1>1 DEF OneDestroyed
  <2> QED BY <1>1, <2>1
<1> QED BY <1>2, <1>3, <1>4, <1>5

\* The empty queue.
LEMMA EmptyKinds == FromHere(<<>>) /\ NoDestroyed(<<>>) /\ OneDestroyed(<<>>)
BY DEF FromHere, NoDestroyed, OneDestroyed

\* connectEstablished() stays the first functor when others are queued,
LEMMA EstablishAppend ==
  ASSUME NEW f \in Seq(Functor), NEW p \in Seq(Functor), NEW g \in Functor,
         g.op # "established", NEW p2, p2 = Append(p, g), NEW s, EstablishFirst(f, p, s)
  PROVE  EstablishFirst(f, p2, s)
<1>1. /\ p2 # <<>> /\ Head(p2) = IF p = <<>> THEN g ELSE Head(p)
      /\ \A i \in DOMAIN p2 : (i \in DOMAIN p /\ p2[i] = p[i]) \/ (i = Len(p) + 1 /\ p2[i] = g)
  BY AppendFunctor
<1> QED BY <1>1 DEF EstablishFirst, Establishing

\* when the batch is taken,
LEMMA EstablishSwap ==
  ASSUME NEW f, f = <<>>, NEW p \in Seq(Functor), NEW s, EstablishFirst(f, p, s)
  PROVE  EstablishFirst(p, f, s)
BY DEF EstablishFirst, Establishing

\* until it runs: after another functor there is none,
LEMMA EstablishTail ==
  ASSUME NEW f \in Seq(Functor), f # <<>>, NEW p \in Seq(Functor), NEW t, t = Tail(f),
         NEW s, NEW s2, EstablishFirst(f, p, s), s2 # "kConnecting"
  PROVE  EstablishFirst(t, p, s2) /\ (s = "kConnecting" => Head(f).op = "established")
<1>1. \A i \in DOMAIN t : i + 1 \in DOMAIN f /\ t[i] = f[i + 1] /\ i \in Nat /\ i # 0
  BY TailFunctor
<1>2. \A i \in DOMAIN t : t[i].op # "established"
  <2> SUFFICES ASSUME NEW i \in DOMAIN t, t[i].op = "established" PROVE FALSE
    OBVIOUS
  <2>1. i + 1 = 1
    BY <1>1 DEF EstablishFirst
  <2> QED BY <1>1, <2>1
<1>3. \A i \in DOMAIN p : p[i].op # "established"
  BY DEF EstablishFirst
<1> QED BY <1>2, <1>3 DEF EstablishFirst, Establishing

\* and none while the state is not kConnecting.
LEMMA EstablishOver ==
  ASSUME NEW f, NEW p, NEW s, NEW s2, EstablishFirst(f, p, s),
         s2 = s \/ (s # "kConnecting" /\ s2 # "kConnecting")
  PROVE  EstablishFirst(f, p, s2)
BY DEF EstablishFirst, Establishing

\* Steps that add and take functors of other kinds.
LEMMA OrdinaryQueues ==
  ASSUME IInv, LifeInv, fault = "none",
         \/ functors' = functors
         \/ /\ functors # <<>> /\ Head(functors).op \in {"user", "forceClose"}
            /\ functors' = Tail(functors),
         \/ pendingFunctors_' = pendingFunctors_
         \/ \E op \in {"user", "forceClose"} :
              pendingFunctors_' = Append(pendingFunctors_, Bound(op)),
         state_' = state_ \/ (state_ # "kConnecting" /\ state_' # "kConnecting"),
         UNCHANGED <<connections_, server, removals, closes, destroys, ioLoop>>
  PROVE  KindInv' /\ EstablishInv' /\ DestroyInv'
<1>1. functors \in Seq(Functor) /\ pendingFunctors_ \in Seq(Functor)
  BY DEF IInv, TypeOK
<1>2. /\ FromHere(functors) /\ FromHere(pendingFunctors_)
      /\ EstablishFirst(functors, pendingFunctors_, state_)
      /\ Single(pendingFunctors_, functors)
  BY DEF LifeInv, KindInv, EstablishInv, DestroyInv, Running
<1> DEFINE f2 == functors'
           p2 == pendingFunctors_'
           s2 == state_'
<1>3. /\ FromHere(f2) /\ f2 \in Seq(Functor)
      /\ NoDestroyed(functors) => NoDestroyed(f2)
      /\ OneDestroyed(functors) => OneDestroyed(f2)
      /\ EstablishFirst(f2, pendingFunctors_, s2)
  <2>1. CASE functors' = functors
    BY <1>1, <1>2, <2>1, EstablishOver
  <2>2. CASE /\ functors # <<>> /\ Head(functors).op \in {"user", "forceClose"}
             /\ functors' = Tail(functors)
    <3>1. state_ # "kConnecting"
      BY <1>2, <2>2 DEF EstablishFirst, Establishing
    <3>2. state_' # "kConnecting"
      BY <3>1
    <3>3. PICK t : t = Tail(functors)
      OBVIOUS
    <3>4. EstablishFirst(t, pendingFunctors_, state_)
      BY <1>1, <1>2, <2>2, <3>1, <3>3, EstablishTail
    <3>5. EstablishFirst(t, pendingFunctors_, s2)
      BY <3>1, <3>2, <3>4, EstablishOver
    <3>6. /\ FromHere(t) /\ t \in Seq(Functor)
          /\ NoDestroyed(functors) => NoDestroyed(t)
          /\ OneDestroyed(functors) => OneDestroyed(t)
      BY <1>1, <1>2, <2>2, <3>3, TailKinds, TailFunctor
    <3> QED BY <2>2, <3>3, <3>5, <3>6
  <2> QED BY <2>1, <2>2
<1>4. /\ FromHere(p2)
      /\ NoDestroyed(pendingFunctors_) => NoDestroyed(p2)
      /\ OneDestroyed(pendingFunctors_) => OneDestroyed(p2)
      /\ EstablishFirst(f2, p2, s2)
  <2>1. CASE pendingFunctors_' = pendingFunctors_
    BY <1>2, <1>3, <2>1
  <2>2. CASE \E op \in {"user", "forceClose"} :
               pendingFunctors_' = Append(pendingFunctors_, Bound(op))
    <3>1. PICK op \in {"user", "forceClose"} :
               pendingFunctors_' = Append(pendingFunctors_, Bound(op))
      BY <2>2
    <3>2. PICK g \in Functor : g = Bound(op) /\ g.op \in {"user", "forceClose"}
      BY <3>1, BoundFacts
    <3>3. PICK q : q = Append(pendingFunctors_, g)
      OBVIOUS
    <3>4. /\ FromHere(q)
          /\ NoDestroyed(pendingFunctors_) => NoDestroyed(q)
          /\ OneDestroyed(pendingFunctors_) => OneDestroyed(q)
      BY <1>1, <1>2, <3>2, <3>3, AppendKinds
    <3>5. EstablishFirst(f2, q, s2)
      BY <1>1, <1>3, <3>2, <3>3, EstablishAppend
    <3> QED BY <3>1, <3>2, <3>3, <3>4, <3>5
  <2> QED BY <2>1, <2>2
<1>5. KindInv' /\ EstablishInv'
  BY <1>3, <1>4 DEF KindInv, EstablishInv
<1>6. DestroyInv'
  <2>1. Single(p2, f2)
    BY <1>2, <1>3, <1>4 DEF Single
  <2>2. /\ NoDestroyed(pendingFunctors_) => NoDestroyed(p2)
        /\ NoDestroyed(functors) => NoDestroyed(f2)
    BY <1>3, <1>4
  <2> QED BY <2>1, <2>2 DEF LifeInv, DestroyInv, Running
<1> QED BY <1>5, <1>6
-----------------------------------------------------------------------------
(***************************************************************************)
(* A connection used in its loop's thread only: its steps.                 *)
(***************************************************************************)

\* A new connection.
LEMMA LifeInit == Init => LifeInv
<1> SUFFICES ASSUME Init PROVE LifeInv
  OBVIOUS
<1>1. /\ \/ /\ ioLoop = "base" /\ lpc = "swap" /\ state_ = "kConnected" /\ events_ = {"read"}
            /\ index_ = "kAdded" /\ pendingFunctors_ = <<>>
         \/ /\ ioLoop = "sub" /\ lpc = "poll" /\ state_ = "kConnecting" /\ events_ = {}
            /\ index_ = "kNew" /\ pendingFunctors_ = <<Bound("established")>>
      /\ revents_ = {} /\ functors = <<>> /\ removals = 0
      /\ closes = 0 /\ destroys = 0 /\ fault = "none"
      /\ connections_ /\ server /\ ~fin /\ ~soError
  BY DEF Init, Constructed
<1>2. /\ FromHere(pendingFunctors_) /\ FromHere(functors)
      /\ NoDestroyed(pendingFunctors_) /\ NoDestroyed(functors)
      /\ EstablishFirst(functors, pendingFunctors_, state_)
  <2>1. CASE pendingFunctors_ = <<>> /\ state_ = "kConnected"
    BY <1>1, <2>1, EmptyKinds DEF EstablishFirst, Establishing
  <2>2. CASE pendingFunctors_ = <<Bound("established")>> /\ state_ = "kConnecting"
    <3>1. /\ DOMAIN pendingFunctors_ = {1} /\ pendingFunctors_[1].op = "established"
          /\ pendingFunctors_ # <<>> /\ Head(pendingFunctors_) = pendingFunctors_[1]
      BY <2>2, BoundFacts
    <3> QED BY <1>1, <2>2, <3>1, EmptyKinds
            DEF EstablishFirst, Establishing, FromHere, NoDestroyed
  <2> QED BY <1>1, <2>1, <2>2
<1>3. KindInv /\ EstablishInv /\ ConnectingInv
  BY <1>1, <1>2 DEF KindInv, EstablishInv, ConnectingInv, InHandleEvent
<1>4. UpInv /\ DownInv /\ SentInv /\ FaultInv
  BY <1>1 DEF UpInv, DownInv, SentInv, FaultInv
<1>5. DestroyInv
  BY <1>1, <1>2 DEF DestroyInv, Single, OneDestroyed, NoDestroyed
<1> QED BY <1>3, <1>4, <1>5 DEF LifeInv

\* Through the four tests of handleEventWithGuard(), one after the other.
LEMMA LookOrder ==
  ASSUME TypeOK, Look
  PROVE  \/ /\ lpc = "poll" /\ revents_' = Ready
            /\ lpc' = (IF Ready = {} THEN "swap" ELSE "active")
            /\ UNCHANGED <<soError, fault>>
         \/ lpc = "active" /\ lpc' = "close" /\ UNCHANGED <<revents_, soError, fault>>
         \/ /\ InHandleEvent /\ revents_' \in {revents_, {}}
            /\ fault' = "none" =>
                 /\ lpc' \in {"error", "read", "message", "write", "swap"}
                 /\ lpc' = "error" => lpc = "close"
                 /\ lpc' = "read" => lpc = "error" /\ revents_' = revents_
            /\ fault' = "died" =>
                 /\ lpc' \in {"read", "write"}
                 /\ soError \/ rst \/ "ERR" \in revents_ \/ ("write" \in events_ /\ fin)
            /\ soError' => soError
<1>1. CASE Poll
  BY <1>1 DEF Poll, At
<1>a. CASE HandleEvent
  BY <1>a DEF HandleEvent, At
<1>2. CASE ErrorEvent
  BY <1>2 DEF ErrorEvent, At, Running, InHandleEvent
<1>3. CASE ReadMessage \/ NoReadEvent \/ MessageReturns \/ NoWriteEvent \/ WriteEventReset
  BY <1>3 DEF ReadMessage, NoReadEvent, MessageReturns, NoWriteEvent, WriteEventReset, At, Running,
              InHandleEvent
<1>4. CASE ReadFails \/ WriteEventFails
  BY <1>4 DEF ReadFails, WriteEventFails, Dies, At, Running, InHandleEvent
<1>5. CASE CloseEvent /\ UNCHANGED others
  BY <1>5 DEF CloseEvent, At, Running, InHandleEvent
<1> QED BY <1>1, <1>a, <1>2, <1>3, <1>4, <1>5 DEF Look

\* They find a connection that has been closed out of the poller, and a reset
\* behind every error.
LEMMA LookLife ==
  ASSUME IInv, LifeInv, Look
  PROVE  LifeInv'
<1>1. TypeOK
  BY DEF IInv
<1>2. /\ fault = "none" /\ fault' \in {"none", "died"}
      /\ UNCHANGED <<functors, batchRef, state_, outputBuffer_, events_, index_,
                     pendingFunctors_, call, ioLoop, connections_, server, removals, holders,
                     sndbuf, fin, received, peerFin, rst, promised, forced, accepted, closes,
                     destroys>>
  BY <1>1, LookFacts
<1>3. KindInv' /\ EstablishInv' /\ DestroyInv'
  BY <1>2, OrdinaryQueues
<1>4. index_ # "kAdded" => Ready = {}
  BY DEF Ready
<1>5. ConnectingInv'
  <2> SUFFICES ASSUME state_' = "kConnecting" PROVE ConnectingInv'
    BY DEF ConnectingInv
  <2>1. ConnectingInv /\ state_ = "kConnecting"
    BY <1>2 DEF LifeInv
  <2>2. ~InHandleEvent /\ index_ = "kNew" /\ lpc # "active"
    BY <2>1 DEF ConnectingInv
  <2>3. lpc' = "swap"
    BY <1>1, <1>4, <2>2, LookOrder
  <2> QED BY <1>2, <2>1, <2>3 DEF ConnectingInv, InHandleEvent
<1>6. UpInv' /\ SentInv'
  BY <1>2 DEF LifeInv, UpInv, SentInv, Running
<1>7. DownInv'
  <2>1. DownInv
    BY DEF LifeInv
  <2>2. ASSUME fault' = "none", closes = 1
        PROVE  lpc' \notin {"active", "close"} /\ (lpc' \in {"error", "read"} => "IN" \notin revents_')
    <3>1. /\ index_ # "kAdded" /\ lpc \notin {"active", "close"}
          /\ lpc \in {"error", "read"} => "IN" \notin revents_
      BY <1>2, <2>1, <2>2 DEF DownInv, Running
    <3> QED BY <1>1, <1>4, <2>2, <3>1, LookOrder
  <2> QED BY <1>2, <2>1, <2>2 DEF DownInv, Running
<1>8. FaultInv'
  <2>1. FaultInv /\ SentInv
    BY DEF LifeInv
  <2>2. "ERR" \in Ready => soError
    BY DEF Ready
  <2>3. soError' \/ "ERR" \in revents_' => rst'
    BY <1>1, <1>2, <2>1, <2>2, LookOrder DEF FaultInv
  <2>4. fault' = "died" => rst' /\ lpc' \in {"read", "write"}
    BY <1>1, <1>2, <2>1, LookOrder DEF FaultInv, SentInv
  <2>5. lpc' \in {"read", "write"} => Alive'
    BY DEF Alive, InHandleEvent
  <2> QED BY <1>2, <2>3, <2>4, <2>5 DEF FaultInv
<1> QED BY <1>3, <1>5, <1>6, <1>7, <1>8 DEF LifeInv

\* A connection that is up when poll() reports it is the server's, as long as
\* the server exists: only then may a handler let it go.
LEMMA DeadLife ==
  ASSUME TypeOK, LifeInv, HandleDead
  PROVE  LifeInv'
<1>1. /\ fault = "none" /\ lpc = "active" /\ ~Alive /\ fault' = "useAfterFree"
      /\ UNCHANGED <<lpc, revents_, state_, events_, index_, pendingFunctors_, functors, ioLoop,
                     connections_, server, removals, fin, rst, soError, closes, destroys>>
  BY DEF HandleDead, At, Running
<1>2. ~server
  <2>1. ~connections_
    BY <1>1 DEF Alive
  <2>2. closes = 0
    BY <1>1 DEF TypeOK, LifeInv, DownInv, Running
  <2>3. server => connections_
    BY <1>1, <2>2 DEF TypeOK, LifeInv, UpInv, Running
  <2> QED BY <2>1, <2>3
<1>3. KindInv' /\ EstablishInv' /\ ConnectingInv' /\ SentInv'
  BY <1>1 DEF LifeInv, KindInv, EstablishInv, ConnectingInv, SentInv, InHandleEvent
<1>4. UpInv' /\ DownInv' /\ DestroyInv'
  BY <1>1 DEF LifeInv, UpInv, DownInv, DestroyInv, Running
<1>5. FaultInv'
  BY <1>1, <1>2 DEF LifeInv, FaultInv
<1> QED BY <1>3, <1>4, <1>5 DEF LifeInv

\* The peer only adds resets.
LEMMA PeerLife ==
  ASSUME IInv, LifeInv, PeerStep
  PROVE  LifeInv'
<1>1. TypeOK
  BY DEF IInv
<1>2. /\ fault = "none" /\ (UNCHANGED <<rst, soError>> \/ rst')
      /\ UNCHANGED <<lpc, revents_, functors, batchRef, state_, outputBuffer_, events_, index_,
                     pendingFunctors_, call, ioLoop, connections_, server, removals, holders,
                     fin, promised, forced, accepted, closes, destroys, fault>>
  BY <1>1, PeerFacts
<1>3. KindInv' /\ EstablishInv' /\ DestroyInv'
  BY <1>2, OrdinaryQueues
<1>4. ConnectingInv' /\ UpInv' /\ DownInv' /\ SentInv'
  BY <1>2 DEF LifeInv, ConnectingInv, UpInv, DownInv, SentInv, Running, InHandleEvent
<1>5. FaultInv'
  BY <1>2 DEF LifeInv, FaultInv
<1> QED BY <1>3, <1>4, <1>5 DEF LifeInv

\* The batch is taken, finished or a user's functor run.
LEMMA TurnLife ==
  ASSUME IInv, LifeInv, Turn
  PROVE  LifeInv'
<1>1. TypeOK /\ functors \in Seq(Functor) /\ pendingFunctors_ \in Seq(Functor)
  BY DEF IInv, TypeOK
<1>2. /\ fault = "none" /\ lpc' \in {"poll", "pending"}
      /\ UNCHANGED <<revents_, state_, outputBuffer_, events_, index_, call, ioLoop, connections_,
                     server, removals, holders, sndbuf, fin, received, inData, peerFin, rst,
                     soError, promised, forced, accepted, closes, destroys, fault>>
  BY <1>1, TurnFacts
<1>3. KindInv' /\ EstablishInv' /\ DestroyInv'
  <2>1. CASE functors' = pendingFunctors_ /\ pendingFunctors_' = <<>> /\ functors = <<>>
    <3>1. EstablishInv'
      <4>1. EstablishFirst(functors, pendingFunctors_, state_)
        BY DEF LifeInv, EstablishInv
      <4>2. EstablishFirst(pendingFunctors_, functors, state_)
        BY <1>1, <2>1, <4>1, EstablishSwap
      <4>3. EstablishFirst(functors', pendingFunctors_', state_')
        BY <1>2, <2>1, <4>2
      <4> QED BY <4>3 DEF EstablishInv
    <3>2. KindInv'
      BY <2>1 DEF LifeInv, KindInv
    <3>3. DestroyInv'
      BY <1>2, <2>1 DEF LifeInv, DestroyInv, Single, Running
    <3> QED BY <3>1, <3>2, <3>3
  <2>2. CASE UNCHANGED <<functors, pendingFunctors_>>
    BY <1>2, <2>2, OrdinaryQueues
  <2>3. CASE /\ functors # <<>> /\ Head(functors).op \in {"user", "forceClose"}
             /\ functors' = Tail(functors) /\ UNCHANGED pendingFunctors_
    BY <1>2, <2>3, OrdinaryQueues
  <2>4. lpc = "swap" => functors = <<>>
    BY DEF IInv, BatchInv
  <2> QED BY <1>1, <2>1, <2>2, <2>3, <2>4, TurnFacts
<1>4. ConnectingInv' /\ UpInv' /\ DownInv' /\ SentInv'
  BY <1>2 DEF LifeInv, ConnectingInv, UpInv, DownInv, SentInv, Running, InHandleEvent
<1>5. FaultInv'
  BY <1>2 DEF LifeInv, FaultInv
<1> QED BY <1>3, <1>4, <1>5 DEF LifeInv
\* Only the owner sends and shuts down, and only while it is connected.
LEMMA OwnerOnly ==
  ASSUME IInv, LifeInv
  PROVE  functors # <<>> => Head(functors).op \notin {"send", "shutdown"}
<1>1. functors \in Seq(Functor) /\ FromHere(functors)
  BY DEF IInv, TypeOK, LifeInv, KindInv
<1>2. PICK t : t = Tail(functors)
  OBVIOUS
<1> QED BY <1>1, <1>2, TailKinds

\* User code holds the connection.
LEMMA OwnerAlive ==
  ASSUME OwnerInUserCode, lpc' = lpc, holders' = holders
  PROVE  Alive'
BY DEF OwnerInUserCode, Alive, InHandleEvent

\* send(): write() fails only after a reset, since the FIN has not gone out.
LEMMA SendLife ==
  ASSUME IInv, LifeInv, Sending
  PROVE  LifeInv'
<1>1. TypeOK
  BY DEF IInv
<1>2. /\ fault = "none" /\ state_ = "kConnected" /\ OwnerInUserCode
      /\ UNCHANGED <<lpc, revents_, functors, batchRef, state_, call, ioLoop, connections_, server,
                     removals, holders, fin, received, inData, peerFin, rst, soError, forced,
                     closes, destroys>>
      /\ \E bytes \in Seq(Nat) : SendInLoop(bytes)
  BY <1>1, SendingFacts, OwnerOnly
<1>3. PICK bytes \in Seq(Nat) : SendInLoop(bytes)
  BY <1>2
<1>4. /\ UNCHANGED <<events_, index_>> \/ Update(events_ \cup {"write"})
      /\ \/ pendingFunctors_' = pendingFunctors_
         \/ pendingFunctors_' = Append(pendingFunctors_, Bound("user"))
      /\ fault' = fault \/ (fault' = "died" /\ (fin \/ rst))
  BY <1>2, <1>3, SendFacts
<1>5. KindInv' /\ EstablishInv' /\ DestroyInv'
  <2>1. \/ pendingFunctors_' = pendingFunctors_
        \/ \E op \in {"user", "forceClose"} :
              pendingFunctors_' = Append(pendingFunctors_, Bound(op))
    BY <1>4
  <2> QED BY <1>2, <2>1, OrdinaryQueues
<1>6. ~fin /\ closes # 1
  BY <1>2 DEF LifeInv, SentInv, DownInv
<1>7. ConnectingInv' /\ DownInv' /\ SentInv'
  BY <1>2, <1>6 DEF LifeInv, ConnectingInv, DownInv, SentInv
<1>8. UpInv'
  <2> SUFFICES ASSUME fault' = "none", server' PROVE UpInv'
    BY DEF UpInv, Running
  <2>1. /\ index_ = "kAdded" /\ "read" \in events_ /\ closes = 0 /\ destroys = 0
        /\ connections_
    BY <1>2 DEF LifeInv, UpInv, Running
  <2>2. index_' = "kAdded" /\ "read" \in events_'
    BY <1>4, <2>1 DEF Update
  <2> QED BY <1>2, <2>1, <2>2 DEF UpInv
<1>9. FaultInv'
  <2>1. fault' = "died" => rst'
    BY <1>2, <1>4, <1>6
  <2>2. Alive'
    BY <1>2, OwnerAlive
  <2>3. fault' # "useAfterFree"
    BY <1>2, <1>4
  <2> QED BY <1>2, <2>1, <2>2, <2>3 DEF LifeInv, FaultInv
<1> QED BY <1>5, <1>7, <1>8, <1>9 DEF LifeInv

\* shutdown(): the first FIN, which only a reset makes fail.
LEMMA ShutdownLife ==
  ASSUME IInv, LifeInv, ShuttingDown
  PROVE  LifeInv'
<1>1. TypeOK
  BY DEF IInv
<1>2. /\ fault = "none" /\ state_ = "kConnected" /\ state_' = "kDisconnecting"
      /\ OwnerInUserCode /\ ShutdownInLoop
      /\ UNCHANGED <<lpc, revents_, functors, batchRef, outputBuffer_, events_, index_,
                     pendingFunctors_, call, ioLoop, connections_, server, removals, holders,
                     sndbuf, received, inData, peerFin, rst, soError, promised, forced, accepted,
                     closes, destroys>>
  BY <1>1, ShutdownFacts, OwnerOnly
<1>3. /\ fin' = fin \/ "write" \notin events_
      /\ fault' = fault \/ (fault' = "died" /\ (rst \/ (fin /\ peerFin)) /\ fin' = fin)
  BY <1>1, <1>2, FinFacts
<1>4. KindInv' /\ EstablishInv' /\ DestroyInv'
  BY <1>2, OrdinaryQueues
<1>5. ~fin /\ closes # 1
  BY <1>2 DEF LifeInv, SentInv, DownInv
<1>6. ConnectingInv' /\ DownInv'
  BY <1>2, <1>5 DEF LifeInv, ConnectingInv, DownInv
<1>7. SentInv'
  BY <1>2, <1>3, <1>5 DEF SentInv
<1>8. UpInv'
  BY <1>2 DEF LifeInv, UpInv, Running
<1>9. FaultInv'
  <2>1. fault' = "died" => rst'
    BY <1>2, <1>3, <1>5
  <2>2. Alive'
    BY <1>2, OwnerAlive
  <2>3. fault' # "useAfterFree"
    BY <1>2, <1>3
  <2> QED BY <1>2, <2>1, <2>2, <2>3 DEF LifeInv, FaultInv
<1> QED BY <1>4, <1>6, <1>7, <1>8, <1>9 DEF LifeInv

\* forceClose() by the owner, and its letting go of the connection.
LEMMA OwnerCallLife ==
  ASSUME Sole, IInv, LifeInv, Calls
  PROVE  LifeInv'
<1>1. TypeOK
  BY DEF IInv
<1>2. \/ /\ state_ \in {"kConnected", "kDisconnecting"} /\ state_' = "kDisconnecting"
         /\ pendingFunctors_' = Append(pendingFunctors_, Bound("forceClose"))
      \/ state_' = state_ /\ pendingFunctors_' = pendingFunctors_
  BY DEF Sole, Calls, OwnerForceClose, Closable, Release
<1>3. /\ fault = "none"
      /\ UNCHANGED <<lpc, revents_, functors, batchRef, outputBuffer_, events_, index_, ioLoop,
                     connections_, server, removals, sndbuf, fin, received, inData, peerFin, rst,
                     soError, accepted, closes, destroys, fault>>
  BY <1>1, CallsFacts
<1>4. KindInv' /\ EstablishInv' /\ DestroyInv'
  <2>1. /\ state_' = state_ \/ (state_ # "kConnecting" /\ state_' # "kConnecting")
        /\ \/ pendingFunctors_' = pendingFunctors_
           \/ \E op \in {"user", "forceClose"} :
                pendingFunctors_' = Append(pendingFunctors_, Bound(op))
    BY <1>2
  <2> QED BY <1>3, <2>1, OrdinaryQueues
<1>5. ConnectingInv' /\ UpInv' /\ DownInv' /\ SentInv'
  BY <1>2, <1>3
     DEF LifeInv, ConnectingInv, UpInv, DownInv, SentInv, Running, InHandleEvent
<1>6. FaultInv'
  BY <1>3 DEF LifeInv, FaultInv
<1> QED BY <1>4, <1>5, <1>6 DEF LifeInv

\* handleWrite(): a connection that still writes has not been closed, and the
\* shutdown() that waited is its first.
LEMMA WriteLife ==
  ASSUME IInv, LifeInv, WriteEvent
  PROVE  LifeInv'
<1>1. TypeOK
  BY DEF IInv
<1>2. /\ lpc = "write" /\ lpc' = "swap" /\ fault = "none"
      /\ revents_' = {} /\ "write" \in events_ /\ ~fin /\ ~rst
      /\ UNCHANGED <<functors, batchRef, state_, call, ioLoop, connections_, server, removals,
                     holders, received, inData, peerFin, rst, soError, promised, forced,
                     accepted, closes, destroys>>
  BY <1>1, WriteEventFacts
<1>3. \/ UNCHANGED <<events_, index_, pendingFunctors_, fin, fault>>
      \/ /\ events_' = events_ \ {"write"}
         /\ index_' = IF index_ = "kAdded" /\ events_' = {} THEN "kDeleted" ELSE "kAdded"
         /\ pendingFunctors_' = Append(pendingFunctors_, Bound("user"))
         /\ UNCHANGED <<fin, fault>> \/ (state_ = "kDisconnecting" /\ ShutdownWrite)
  BY <1>1, WriteEventFacts
<1>4. ShutdownWrite => UNCHANGED fault
  BY <1>2 DEF ShutdownWrite
<1>5. fault' = "none"
  BY <1>2, <1>3, <1>4
<1>6. closes # 1 /\ state_ # "kConnecting"
  BY <1>2 DEF LifeInv, DownInv, ConnectingInv, Running, InHandleEvent
<1>7. KindInv' /\ EstablishInv' /\ DestroyInv'
  <2>1. \/ pendingFunctors_' = pendingFunctors_
        \/ \E op \in {"user", "forceClose"} :
              pendingFunctors_' = Append(pendingFunctors_, Bound(op))
    BY <1>3
  <2> QED BY <1>2, <2>1, OrdinaryQueues
<1>8. ConnectingInv' /\ DownInv'
  BY <1>2, <1>6 DEF LifeInv, ConnectingInv, DownInv
<1>9. SentInv'
  BY <1>2, <1>3 DEF SentInv
<1>10. UpInv'
  <2> SUFFICES ASSUME server' PROVE UpInv'
    BY DEF UpInv
  <2>1. UpInv /\ server /\ Running
    BY <1>2 DEF LifeInv, Running
  <2>2. state_ \in {"kConnected", "kDisconnecting"}
    <3>1. state_ # "kDisconnected" \/ closes = 1
      BY <2>1 DEF UpInv
    <3> QED BY <1>1, <1>6, <3>1 DEF TypeOK
  <2>3. /\ index_ = "kAdded" /\ "read" \in events_ /\ closes = 0 /\ destroys = 0 /\ connections_
    BY <2>1, <2>2 DEF UpInv
  <2>4. index_' = "kAdded" /\ "read" \in events_'
    BY <1>3, <2>3
  <2> QED BY <1>2, <2>2, <2>3, <2>4 DEF UpInv
<1>11. FaultInv'
  BY <1>2, <1>5 DEF LifeInv, FaultInv
<1> QED BY <1>7, <1>8, <1>9, <1>10, <1>11 DEF LifeInv
\* handleClose() runs for the first time, on a connection that is up.
LEMMA ClosingFirst ==
  ASSUME IInv, LifeInv, Closing
  PROVE  /\ closes = 0 /\ state_ # "kConnecting"
         /\ server => index_ = "kAdded" /\ connections_ /\ destroys = 0 /\ removals = 0
<1>1. fault = "none"
  BY ClosingFacts
<1>2. TypeOK /\ ConnectingInv /\ UpInv /\ DownInv /\ DestroyInv
  BY DEF IInv, LifeInv
<1>3. closes # 1
  BY <1>1, <1>2, ClosingFacts DEF DownInv, Running, Closable
<1>4. closes = 0
  BY <1>2, <1>3 DEF TypeOK, DownInv
<1>5. state_ # "kConnecting"
  BY <1>2, ClosingFacts DEF ConnectingInv, InHandleEvent, Closable
<1>6. server => index_ = "kAdded" /\ connections_ /\ destroys = 0 /\ removals = 0
  <2> SUFFICES ASSUME server
               PROVE  index_ = "kAdded" /\ connections_ /\ destroys = 0 /\ removals = 0
    OBVIOUS
  <2>1. state_ # "kDisconnected"
    BY <1>1, <1>2, <1>4 DEF UpInv, Running
  <2>2. state_ \in {"kConnected", "kDisconnecting"}
    BY <1>2, <1>5, <2>1 DEF TypeOK
  <2>3. index_ = "kAdded" /\ connections_ /\ destroys = 0
    BY <1>1, <1>2, <1>4, <2>2 DEF UpInv, Running
  <2>4. removals \in Nat /\ ~(removals > 0)
    BY <1>1, <1>2, <1>4 DEF TypeOK, DestroyInv, Running
  <2> QED BY <2>3, <2>4
<1> QED BY <1>4, <1>5, <1>6

\* Queueing connectDestroyed(), when there is no other.
LEMMA DestroyedQueue ==
  ASSUME IInv, LifeInv, NoDestroyed(pendingFunctors_), NoDestroyed(functors),
         pendingFunctors_' = Append(pendingFunctors_, Bound("destroyed")), functors' = functors
  PROVE  /\ KindInv' /\ Single(pendingFunctors_', functors')
         /\ state_' = state_ \/ (state_ # "kConnecting" /\ state_' # "kConnecting")
              => EstablishInv'
<1>1. /\ functors \in Seq(Functor) /\ pendingFunctors_ \in Seq(Functor)
      /\ FromHere(functors) /\ FromHere(pendingFunctors_)
      /\ EstablishFirst(functors, pendingFunctors_, state_)
  BY DEF IInv, TypeOK, LifeInv, KindInv, EstablishInv
<1>2. PICK g \in Functor : g = Bound("destroyed") /\ g.op = "destroyed"
  BY BoundFacts
<1>3. PICK q : q = Append(pendingFunctors_, g)
  OBVIOUS
<1>4. pendingFunctors_' = q
  BY <1>2, <1>3
<1>5. FromHere(q) /\ OneDestroyed(q)
  BY <1>1, <1>2, <1>3, AppendKinds
<1>6. EstablishFirst(functors, q, state_)
  BY <1>1, <1>2, <1>3, EstablishAppend
<1>7. KindInv'
  BY <1>1, <1>4, <1>5 DEF KindInv
<1>8. Single(pendingFunctors_', functors')
  BY <1>4, <1>5 DEF Single, OneDestroyed, NoDestroyed
<1>9. ASSUME state_' = state_ \/ (state_ # "kConnecting" /\ state_' # "kConnecting")
      PROVE  EstablishInv'
  <2> DEFINE s2 == state_'
  <2>1. EstablishFirst(functors, q, s2)
    BY <1>6, <1>9, EstablishOver
  <2> QED BY <1>4, <2>1 DEF EstablishInv
<1> QED BY <1>7, <1>8, <1>9

\* Closing the connection.
LEMMA ClosingLife ==
  ASSUME IInv, LifeInv, Closing
  PROVE  LifeInv'
<1>1. TypeOK /\ HandleClose
  BY ClosingFacts DEF IInv
<1>2. /\ closes = 0 /\ state_ # "kConnecting"
      /\ server => index_ = "kAdded" /\ connections_ /\ destroys = 0 /\ removals = 0
  BY ClosingFirst
<1>3. /\ fault = "none" /\ UNCHANGED <<revents_, batchRef>>
      /\ \/ lpc' = "error" /\ functors' = functors /\ "IN" \notin revents_
         \/ lpc' = "write" /\ functors' = functors
         \/ /\ lpc' = "pending" /\ functors # <<>> /\ Head(functors).op = "forceClose"
            /\ functors' = Tail(functors)
  BY ClosingFacts
<1>4. /\ state_' = "kDisconnected" /\ events_' = {} /\ closes' = 1
      /\ index_ = "kAdded" => index_' = "kDeleted"
      /\ UNCHANGED <<ioLoop, server, holders, sndbuf, fin, rst, soError, destroys>>
      /\ \/ /\ server /\ ioLoop = "base" /\ ~connections_'
            /\ pendingFunctors_' = Append(pendingFunctors_, Bound("destroyed"))
            /\ UNCHANGED <<removals, fault>>
         \/ /\ server /\ ioLoop = "sub" /\ removals' = removals + 1
            /\ UNCHANGED <<connections_, pendingFunctors_, fault>>
         \/ /\ ~server /\ fault' = "useAfterFree"
            /\ UNCHANGED <<connections_, removals, pendingFunctors_>>
  BY <1>1, <1>2, CloseFacts
<1>5. /\ functors \in Seq(Functor) /\ pendingFunctors_ \in Seq(Functor)
      /\ FromHere(functors) /\ FromHere(pendingFunctors_)
      /\ EstablishFirst(functors, pendingFunctors_, state_)
      /\ Single(pendingFunctors_, functors)
      /\ server => NoDestroyed(pendingFunctors_) /\ NoDestroyed(functors)
  BY <1>1, <1>2, <1>3 DEF TypeOK, LifeInv, KindInv, EstablishInv, DestroyInv, Running
<1> DEFINE f2 == functors'
           p2 == pendingFunctors_'
<1>6. /\ f2 \in Seq(Functor) /\ FromHere(f2)
      /\ NoDestroyed(functors) => NoDestroyed(f2)
      /\ OneDestroyed(functors) => OneDestroyed(f2)
      /\ EstablishFirst(f2, pendingFunctors_, "kDisconnected")
  <2>1. CASE functors' = functors
    BY <1>2, <1>5, <2>1, EstablishOver
  <2>2. CASE functors # <<>> /\ functors' = Tail(functors)
    <3>1. PICK t : t = Tail(functors)
      OBVIOUS
    <3>2. PICK d : d = "kDisconnected"
      OBVIOUS
    <3>3. EstablishFirst(t, pendingFunctors_, d)
      BY <1>5, <2>2, <3>1, <3>2, EstablishTail
    <3>4. /\ FromHere(t) /\ t \in Seq(Functor)
          /\ NoDestroyed(functors) => NoDestroyed(t)
          /\ OneDestroyed(functors) => OneDestroyed(t)
      BY <1>5, <2>2, <3>1, TailKinds, TailFunctor
    <3> QED BY <2>2, <3>1, <3>2, <3>3, <3>4
  <2> QED BY <1>3, <2>1, <2>2
<1>7. /\ FromHere(p2) /\ EstablishFirst(f2, p2, "kDisconnected")
      /\ server => Single(p2, f2)
      /\ p2 = pendingFunctors_ \/ (server /\ ioLoop = "base" /\ ~connections_')
  <2>1. CASE pendingFunctors_' = pendingFunctors_
    BY <1>5, <1>6, <2>1 DEF Single
  <2>2. CASE /\ server /\ ioLoop = "base" /\ ~connections_'
             /\ pendingFunctors_' = Append(pendingFunctors_, Bound("destroyed"))
    <3>1. PICK g \in Functor : g = Bound("destroyed") /\ g.op = "destroyed"
      BY BoundFacts
    <3>2. PICK q : q = Append(pendingFunctors_, g)
      OBVIOUS
    <3>3. FromHere(q) /\ OneDestroyed(q)
      BY <1>5, <2>2, <3>1, <3>2, AppendKinds
    <3>4. EstablishFirst(f2, q, "kDisconnected")
      BY <1>5, <1>6, <3>1, <3>2, EstablishAppend
    <3>5. NoDestroyed(f2) /\ OneDestroyed(f2)
      BY <1>5, <1>6, <2>2 DEF Single
    <3> QED BY <2>2, <3>1, <3>2, <3>3, <3>4, <3>5 DEF Single
  <2> QED BY <1>4, <2>1, <2>2
<1>8. KindInv' /\ EstablishInv'
  BY <1>4, <1>6, <1>7 DEF KindInv, EstablishInv
<1>9. ConnectingInv' /\ UpInv' /\ SentInv'
  BY <1>2, <1>3, <1>4 DEF ConnectingInv, UpInv, SentInv, Running
<1>10. DownInv'
  BY <1>2, <1>3, <1>4 DEF DownInv, Running
<1>11. DestroyInv'
  <2>1. destroys' <= 1 /\ (connections_' => server')
    BY <1>3, <1>4 DEF LifeInv, DestroyInv
  <2>2. CASE ~server
    BY <1>4, <2>1, <2>2 DEF DestroyInv, Running
  <2>3. CASE server
    <3>1. Single(p2, f2) /\ destroys' = 0
      BY <1>2, <1>4, <1>7, <2>3
    <3>2. connections_' \/ destroys' > 0 => NoDestroyed(p2) /\ NoDestroyed(f2)
      BY <1>5, <1>6, <1>7, <2>3, <3>1
    <3>3. removals' > 0 => removals' = 1 /\ closes' = 1 /\ ioLoop' = "sub"
      <4>1. removals = 0 /\ closes' = 1 /\ ioLoop' = ioLoop
        BY <1>2, <1>4, <2>3
      <4>2. removals' = removals \/ (ioLoop = "sub" /\ removals' = removals + 1)
        BY <1>4, Zenon
      <4> QED BY <4>1, <4>2
    <3>4. removals' = removals \/ connections_' = connections_
      BY <1>4, Zenon
    <3>5. removals' = removals => ~(removals' > 0)
      BY <1>2, <2>3
    <3>6. removals' > 0 => connections_'
      BY <1>2, <2>3, <3>4, <3>5, Zenon
    <3> QED BY <2>1, <3>1, <3>2, <3>3, <3>6, Zenon DEF DestroyInv
  <2> QED BY <2>2, <2>3
<1>12. FaultInv'
  BY <1>3, <1>4 DEF LifeInv, FaultInv
<1> QED BY <1>8, <1>9, <1>10, <1>11, <1>12 DEF LifeInv
\* connectEstablished() runs on a connection that waits for it,
LEMMA EstablishedFirst ==
  ASSUME IInv, LifeInv, RunEstablished
  PROVE  state_ = "kConnecting"
<1>1. functors # <<>> /\ Head(functors).op = "established"
  BY DEF RunEstablished, RunNext
<1>2. functors \in Seq(Functor) /\ EstablishFirst(functors, pendingFunctors_, state_)
  BY DEF IInv, TypeOK, LifeInv, EstablishInv
<1>3. PICK t : t = Tail(functors)
  OBVIOUS
<1>4. 1 \in DOMAIN functors /\ functors[1] = Head(functors)
  BY <1>1, <1>2, <1>3, TailFunctor
<1> QED BY <1>1, <1>2, <1>4 DEF EstablishFirst

\* and registers its channel.
LEMMA EstablishedLife ==
  ASSUME IInv, LifeInv, RunEstablished
  PROVE  LifeInv'
<1>1. /\ fault = "none" /\ lpc = "pending" /\ functors # <<>>
      /\ Head(functors).op = "established" /\ functors' = Tail(functors)
      /\ state_' = "kConnected" /\ Update(events_ \cup {"read"})
      /\ UNCHANGED <<lpc, revents_, pendingFunctors_, ioLoop, connections_, server, removals, fin,
                     rst, soError, closes, destroys, fault>>
  BY DEF RunEstablished, RunNext, At, Running
<1>2. /\ functors \in Seq(Functor) /\ pendingFunctors_ \in Seq(Functor)
      /\ FromHere(functors) /\ FromHere(pendingFunctors_)
      /\ EstablishFirst(functors, pendingFunctors_, state_)
      /\ Single(pendingFunctors_, functors)
  BY <1>1 DEF IInv, TypeOK, LifeInv, KindInv, EstablishInv, DestroyInv, Running
<1>3. state_ = "kConnecting"
  BY EstablishedFirst
<1>4. index_ = "kNew" /\ events_ = {} /\ closes = 0 /\ destroys = 0
  BY <1>3 DEF LifeInv, ConnectingInv
<1>5. index_' = "kAdded" /\ events_' = {"read"}
  BY <1>1, <1>4 DEF Update
<1>6. PICK t \in Seq(Functor) : t = Tail(functors)
  BY <1>1, <1>2, TailFunctor
<1>7. /\ FromHere(t)
      /\ NoDestroyed(functors) => NoDestroyed(t)
      /\ OneDestroyed(functors) => OneDestroyed(t)
  BY <1>1, <1>2, <1>6, TailKinds
<1>8. EstablishFirst(t, pendingFunctors_, "kConnected")
  <2>1. PICK d : d = "kConnected"
    OBVIOUS
  <2>2. EstablishFirst(t, pendingFunctors_, d)
    BY <1>1, <1>2, <1>6, <2>1, EstablishTail
  <2> QED BY <2>1, <2>2
<1>9. KindInv' /\ EstablishInv'
  BY <1>1, <1>2, <1>6, <1>7, <1>8 DEF KindInv, EstablishInv
<1>10. DestroyInv'
  <2>1. Single(pendingFunctors_, t)
    BY <1>2, <1>7 DEF Single
  <2> QED BY <1>1, <1>6, <1>7, <2>1 DEF LifeInv, DestroyInv, Running
<1>11. ConnectingInv' /\ DownInv'
  BY <1>1, <1>4 DEF ConnectingInv, DownInv
<1>12. UpInv'
  BY <1>1, <1>4, <1>5 DEF LifeInv, UpInv, Running
<1>13. SentInv'
  BY <1>1, <1>3 DEF LifeInv, SentInv
<1>14. FaultInv'
  BY <1>1 DEF LifeInv, FaultInv
<1> QED BY <1>9, <1>10, <1>11, <1>12, <1>13, <1>14 DEF LifeInv

\* connectDestroyed() in the connection's own loop is the only one.
LEMMA DestroyedFirst ==
  ASSUME IInv, LifeInv, RunDestroyed
  PROVE  /\ ~connections_ /\ destroys = 0 /\ state_ # "kConnecting"
         /\ server => closes = 1
         /\ NoDestroyed(pendingFunctors_) /\ NoDestroyed(functors')
<1>1. /\ fault = "none" /\ functors # <<>> /\ Head(functors).op = "destroyed"
      /\ functors' = Tail(functors)
  BY DEF RunDestroyed, RunNext, At, Running
<1>2. /\ functors \in Seq(Functor) /\ pendingFunctors_ \in Seq(Functor)
      /\ destroys \in 0 .. 2 /\ closes \in 0 .. 2
      /\ EstablishFirst(functors, pendingFunctors_, state_)
      /\ Single(pendingFunctors_, functors)
      /\ connections_ \/ destroys > 0 => NoDestroyed(functors)
      /\ closes <= 1 /\ (server /\ closes = 0 => connections_)
  BY <1>1 DEF IInv, TypeOK, LifeInv, EstablishInv, UpInv, DownInv, DestroyInv, Running
<1>3. PICK t : t = Tail(functors)
  OBVIOUS
<1>4. ~NoDestroyed(functors) /\ (OneDestroyed(functors) => NoDestroyed(t))
  BY <1>1, <1>2, <1>3, TailKinds
<1>5. ~connections_ /\ destroys = 0
  BY <1>2, <1>4
<1>6. NoDestroyed(pendingFunctors_) /\ NoDestroyed(functors')
  BY <1>1, <1>2, <1>3, <1>4 DEF Single
<1>7. state_ # "kConnecting"
  BY <1>1, <1>2 DEF EstablishFirst, Establishing
<1>8. server => closes = 1
  BY <1>2, <1>5
<1> QED BY <1>5, <1>6, <1>7, <1>8

\* It takes the channel out of the poller.
LEMMA DestroyedLife ==
  ASSUME IInv, LifeInv, RunDestroyed
  PROVE  LifeInv'
<1>1. /\ fault = "none" /\ lpc = "pending" /\ functors # <<>> /\ functors' = Tail(functors)
      /\ ConnectDestroyed
      /\ UNCHANGED <<lpc, revents_, pendingFunctors_, ioLoop, connections_, server, removals, fin,
                     rst, soError, closes, fault>>
  BY DEF RunDestroyed, RunNext, At, Running
<1>2. /\ ~connections_ /\ destroys = 0 /\ state_ # "kConnecting"
      /\ server => closes = 1
      /\ NoDestroyed(pendingFunctors_) /\ NoDestroyed(functors')
  BY DestroyedFirst
<1>3. /\ index_' = "kNew" /\ destroys' = 1
      /\ state_ = "kConnected" => state_' = "kDisconnected" /\ events_' = {}
      /\ state_ # "kConnected" => state_' = state_ /\ events_' = events_
  BY <1>1, <1>2, DestroyFacts DEF IInv
<1>4. /\ functors \in Seq(Functor) /\ pendingFunctors_ \in Seq(Functor)
      /\ FromHere(functors) /\ FromHere(pendingFunctors_)
      /\ EstablishFirst(functors, pendingFunctors_, state_)
  BY DEF IInv, TypeOK, LifeInv, KindInv, EstablishInv
<1>5. PICK t \in Seq(Functor) : t = Tail(functors)
  BY <1>1, <1>4, TailFunctor
<1>6. FromHere(t)
  BY <1>1, <1>4, <1>5, TailKinds
<1> DEFINE s2 == state_'
<1>7. EstablishFirst(t, pendingFunctors_, s2)
  <2>1. s2 # "kConnecting"
    BY <1>2, <1>3
  <2> HIDE DEF s2
  <2> QED BY <1>1, <1>4, <1>5, <2>1, EstablishTail
<1>8. KindInv' /\ EstablishInv'
  BY <1>1, <1>4, <1>5, <1>6, <1>7 DEF KindInv, EstablishInv
<1>9. ConnectingInv' /\ SentInv'
  BY <1>1, <1>2, <1>3 DEF LifeInv, ConnectingInv, SentInv
<1>10. DownInv'
  BY <1>1, <1>3 DEF LifeInv, DownInv, Running
<1>11. UpInv'
  <2> SUFFICES ASSUME server PROVE UpInv'
    BY <1>1 DEF UpInv
  <2>1. state_ = "kDisconnected" /\ closes = 1
    BY <1>2 DEF LifeInv, DownInv
  <2> QED BY <1>1, <1>3, <2>1 DEF UpInv
<1>12. DestroyInv'
  <2>1. Single(pendingFunctors_, functors')
    BY <1>2 DEF Single, OneDestroyed, NoDestroyed
  <2>2. ~connections_'
    BY <1>1, <1>2
  <2> QED BY <1>1, <1>2, <1>3, <2>1, <2>2 DEF LifeInv, DestroyInv, Running
<1>13. FaultInv'
  BY <1>1 DEF LifeInv, FaultInv
<1> QED BY <1>8, <1>9, <1>10, <1>11, <1>12, <1>13 DEF LifeInv
\* ~TcpServer(): the connection it still has is not being destroyed.
LEMMA ServerLife ==
  ASSUME IInv, LifeInv, DestroyServer
  PROVE  LifeInv'
<1>1. /\ fault = "none" /\ server /\ ~server' /\ ~connections_'
      /\ UNCHANGED <<lpc, revents_, functors, ioLoop, removals, fin, rst, soError, closes, fault>>
      /\ \/ connections_ /\ ioLoop = "base" /\ ConnectDestroyed /\ UNCHANGED pendingFunctors_
         \/ /\ connections_ /\ pendingFunctors_' = Append(pendingFunctors_, Bound("destroyed"))
            /\ UNCHANGED <<state_, events_, index_, destroys>>
         \/ ~connections_ /\ UNCHANGED <<state_, events_, index_, pendingFunctors_, destroys>>
  BY DEF DestroyServer, QueueDestroyed, Running
<1>2. /\ functors \in Seq(Functor) /\ pendingFunctors_ \in Seq(Functor)
      /\ EstablishFirst(functors, pendingFunctors_, state_)
      /\ destroys <= 1 /\ Single(pendingFunctors_, functors)
      /\ connections_ \/ destroys > 0 => NoDestroyed(pendingFunctors_) /\ NoDestroyed(functors)
      /\ connections_ => destroys = 0
      /\ removals > 0 => removals = 1 /\ closes = 1 /\ ioLoop = "sub"
  BY <1>1 DEF IInv, TypeOK, LifeInv, EstablishInv, DestroyInv, Running
<1>3. UpInv'
  BY <1>1 DEF UpInv
<1>4. FaultInv'
  BY <1>1 DEF LifeInv, FaultInv
<1>5. CASE connections_ /\ ioLoop = "base" /\ ConnectDestroyed /\ UNCHANGED pendingFunctors_
  <2>1. state_ # "kConnecting" /\ destroys = 0
    BY <1>2, <1>5 DEF LifeInv, ConnectingInv
  <2>2. /\ index_' = "kNew" /\ destroys' = 1 /\ state_' # "kConnecting"
        /\ state_ = "kConnected" => state_' = "kDisconnected" /\ events_' = {}
        /\ state_ # "kConnected" => state_' = state_ /\ events_' = events_
    BY <1>5, <2>1, DestroyFacts DEF IInv
  <2>3. KindInv' /\ EstablishInv'
    <3> DEFINE s2 == state_'
    <3>1. EstablishFirst(functors, pendingFunctors_, s2)
      BY <1>2, <2>1, <2>2, EstablishOver
    <3> QED BY <1>1, <1>5, <3>1 DEF LifeInv, KindInv, EstablishInv
  <2>4. ConnectingInv' /\ SentInv'
    BY <1>1, <2>2 DEF LifeInv, ConnectingInv, SentInv
  <2>5. DownInv'
    BY <1>1, <2>2 DEF LifeInv, DownInv, Running
  <2>6. DestroyInv'
    BY <1>1, <1>2, <1>5, <2>2 DEF DestroyInv
  <2> QED BY <1>3, <1>4, <2>3, <2>4, <2>5, <2>6 DEF LifeInv
<1>6. CASE /\ connections_ /\ pendingFunctors_' = Append(pendingFunctors_, Bound("destroyed"))
           /\ UNCHANGED <<state_, events_, index_, destroys>>
  <2>1. KindInv' /\ EstablishInv' /\ Single(pendingFunctors_', functors')
    BY <1>1, <1>2, <1>6, DestroyedQueue
  <2>2. ConnectingInv' /\ SentInv' /\ DownInv'
    BY <1>1, <1>6 DEF LifeInv, ConnectingInv, SentInv, DownInv, Running, InHandleEvent
  <2>3. DestroyInv'
    BY <1>1, <1>2, <1>6, <2>1 DEF DestroyInv
  <2> QED BY <1>3, <1>4, <2>1, <2>2, <2>3 DEF LifeInv
<1>7. CASE ~connections_ /\ UNCHANGED <<state_, events_, index_, pendingFunctors_, destroys>>
  <2>1. KindInv' /\ EstablishInv'
    BY <1>1, <1>7 DEF LifeInv, KindInv, EstablishInv
  <2>2. ConnectingInv' /\ SentInv' /\ DownInv'
    BY <1>1, <1>7 DEF LifeInv, ConnectingInv, SentInv, DownInv, Running, InHandleEvent
  <2>3. DestroyInv'
    BY <1>1, <1>2, <1>7 DEF DestroyInv
  <2> QED BY <1>3, <1>4, <2>1, <2>2, <2>3 DEF LifeInv
<1> QED BY <1>1, <1>5, <1>6, <1>7

\* removeConnectionInLoop(): the connection has been closed in its loop, and
\* the server still has it.
LEMMA RemovalLife ==
  ASSUME IInv, LifeInv, RemoveConnectionInLoop
  PROVE  LifeInv'
<1>1. /\ fault = "none" /\ removals > 0 /\ removals' = removals - 1 /\ ~connections_'
      /\ pendingFunctors_' = Append(pendingFunctors_, Bound("destroyed"))
      /\ (server /\ fault' = "none") \/ (~server /\ fault' = "useAfterFree")
      /\ UNCHANGED <<lpc, revents_, functors, state_, events_, index_, ioLoop, server, fin, rst,
                     soError, closes, destroys>>
  BY DEF RemoveConnectionInLoop, QueueDestroyed, Running
<1>2. /\ functors \in Seq(Functor) /\ pendingFunctors_ \in Seq(Functor)
      /\ FromHere(functors) /\ FromHere(pendingFunctors_)
      /\ EstablishFirst(functors, pendingFunctors_, state_)
      /\ destroys <= 1 /\ removals = 1 /\ closes = 1
      /\ server => /\ destroys = 0
                   /\ NoDestroyed(pendingFunctors_) /\ NoDestroyed(functors)
  BY <1>1 DEF IInv, TypeOK, LifeInv, KindInv, EstablishInv, DestroyInv, Running
<1>3. KindInv' /\ EstablishInv'
  <2>1. PICK g \in Functor : g = Bound("destroyed") /\ g.op = "destroyed"
    BY BoundFacts
  <2>2. PICK q : q = Append(pendingFunctors_, g)
    OBVIOUS
  <2>3. FromHere(q)
    BY <1>2, <2>1, <2>2, AppendKinds
  <2>4. EstablishFirst(functors, q, state_)
    BY <1>2, <2>1, <2>2, EstablishAppend
  <2> QED BY <1>1, <1>2, <2>1, <2>2, <2>3, <2>4 DEF KindInv, EstablishInv
<1>4. ConnectingInv' /\ SentInv' /\ DownInv'
  BY <1>1, <1>2 DEF LifeInv, ConnectingInv, SentInv, DownInv, Running, InHandleEvent
<1>5. UpInv' /\ FaultInv'
  BY <1>1, <1>2 DEF LifeInv, UpInv, FaultInv, Running
<1>6. DestroyInv'
  <2>1. CASE ~server
    BY <1>1, <1>2, <2>1 DEF DestroyInv, Running
  <2>2. CASE server
    <3>1. Single(pendingFunctors_', functors')
      BY <1>1, <1>2, <2>2, DestroyedQueue
    <3> QED BY <1>1, <1>2, <2>2, <3>1 DEF DestroyInv
  <2> QED BY <2>1, <2>2
<1> QED BY <1>3, <1>4, <1>5, <1>6 DEF LifeInv

\* So it is inductive, together with the invariant for any threads.
LEMMA LifeNext ==
  ASSUME Sole
  PROVE  IInv /\ LifeInv /\ [Next]_vars => LifeInv'
<1> SUFFICES ASSUME IInv, LifeInv, [Next]_vars PROVE LifeInv'
  OBVIOUS
<1>1. CASE Next
  <2>1. ASSUME HandleDead PROVE LifeInv'
    BY <2>1, DeadLife DEF IInv
  <2> QED BY <1>1, <2>1, NextCases, LookLife, TurnLife, ClosingLife, SendLife, ShutdownLife,
             OwnerCallLife, PeerLife, WriteLife, EstablishedLife, DestroyedLife, ServerLife,
             RemovalLife
<1>2. CASE UNCHANGED vars
  <2>1. UNCHANGED <<lpc, revents_, state_, events_, index_, pendingFunctors_, functors, batchRef,
                    ioLoop, connections_, server, removals, holders, fin, rst, soError, closes,
                    destroys, fault>>
    BY <1>2 DEF vars
  <2>2. KindInv' /\ EstablishInv'
    BY <2>1 DEF LifeInv, KindInv, EstablishInv
  <2>3. ConnectingInv' /\ UpInv' /\ DownInv' /\ SentInv'
    BY <2>1 DEF LifeInv, ConnectingInv, UpInv, DownInv, SentInv, Running, InHandleEvent
  <2>4. DestroyInv'
    BY <2>1 DEF LifeInv, DestroyInv, Running
  <2>5. FaultInv'
    <3>1. Alive => Alive'
      BY <2>1 DEF Alive, InHandleEvent, Holding, Shared
    <3> QED BY <2>1, <3>1 DEF LifeInv, FaultInv
  <2> QED BY <2>2, <2>3, <2>4, <2>5 DEF LifeInv
<1> QED BY <1>1, <1>2

\* It holds in every state of such a connection.
LEMMA LifeInductive == Sole => (Spec => [](IInv /\ LifeInv))
<1> SUFFICES ASSUME Sole PROVE Spec => [](IInv /\ LifeInv)
  OBVIOUS
<1>1. Init => IInv /\ LifeInv
  BY InitInv, LifeInit
<1>2. IInv /\ LifeInv /\ [Next]_vars => IInv' /\ LifeInv'
  BY NextInv, LifeNext
<1> QED BY <1>1, <1>2, PTL DEF Spec

\* handleClose() and connectDestroyed() each run once at most, the program
\* dies of a reset only and touches no freed object as long as the TcpServer
\* exists, for a connection used in its loop's thread only.
THEOREM ClosedOnce == Sole => (Spec => []ClosedOnceAlive)
<1> SUFFICES ASSUME Sole PROVE Spec => []ClosedOnceAlive
  OBVIOUS
<1>1. IInv /\ LifeInv => ClosedOnceAlive
  BY DEF LifeInv, DownInv, DestroyInv, FaultInv, ClosedOnceAlive
<1> QED BY <1>1, LifeInductive, PTL

\* A connection whose memory is gone has left the poller: nothing in the
\* poller's maps points to its Channel, as long as the TcpServer exists.
THEOREM RemovedFirst == Sole => (Spec => []ChannelRemovedFirst)
<1> SUFFICES ASSUME Sole PROVE Spec => []ChannelRemovedFirst
  OBVIOUS
<1>1. IInv /\ LifeInv => ChannelRemovedFirst
  <2> SUFFICES ASSUME IInv, LifeInv, server, ~Alive PROVE index_ = "kNew"
    BY DEF ChannelRemovedFirst
  <2>1. Running
    BY DEF LifeInv, FaultInv, IInv, TypeOK, Running
  <2>2. ~connections_ /\ ~Holding(pendingFunctors_) /\ ~Holding(functors)
    BY DEF Alive
  <2>3. Bound("destroyed") \notin Elements(pendingFunctors_) \cup Elements(functors)
    <3>1. Shared(Bound("destroyed"))
      BY BoundFacts DEF Shared
    <3> QED BY <2>2, <3>1 DEF Holding, Elements
  <2>4. destroys > 0
    BY <2>1, <2>2, <2>3 DEF IInv, ForgottenIsDestroyed
  <2> QED BY <2>1, <2>4 DEF LifeInv, UpInv
<1> QED BY <1>1, LifeInductive, PTL
-----------------------------------------------------------------------------
(***************************************************************************)
(* The life of a connection used in its loop's thread only.                *)
(***************************************************************************)

\* The four phases.
LEMMA PhaseFacts ==
  ASSUME TypeOK
  PROVE  /\ destroys > 0 => Phase = "gone"
         /\ destroys = 0 /\ closes > 0 => Phase = "down"
         /\ destroys = 0 /\ closes = 0 /\ state_ = "kConnecting" => Phase = "connecting"
         /\ destroys = 0 /\ closes = 0 /\ state_ # "kConnecting" => Phase = "up"
BY DEF TypeOK, Phase

\* A new connection starts a life.
LEMMA AbstractInit == Init => Life!Init
<1> SUFFICES ASSUME Init PROVE Life!Init
  OBVIOUS
<1>1. connections_ /\ server = TRUE /\ Phase \in {"connecting", "up"}
  BY DEF Init, Constructed, Phase
<1>2. [c \in {1} |-> Phase] \in [{1} -> {"none", "connecting", "up"}]
  BY <1>1
<1>3. {c \in {1} : connections_} = {c \in {1} : [d \in {1} |-> Phase][c] # "none"}
  <2>1. {c \in {1} : connections_} = {1}
    BY <1>1, Zenon
  <2>2. {c \in {1} : [d \in {1} |-> Phase][c] # "none"} = {1}
    BY <1>1
  <2> QED BY <2>1, <2>2
<1> QED BY <1>1, <1>2, <1>3 DEF Life!Init

\* The server's map, as a set of connections.
LEMMA ListedFacts ==
  /\ connections_ => {c \in {1} : connections_} = {1}
  /\ ~connections_ => {c \in {1} : connections_} = {}
  /\ connections_' => {c \in {1} : connections_'} = {1}
  /\ ~connections_' => {c \in {1} : connections_'} = {}
BY Zenon

\* Which changes of phase and of the server's map are steps of a life, while
\* the server goes on,
LEMMA LifeSteps ==
  ASSUME server' = server,
         \/ Phase' = Phase /\ (connections_' <=> connections_)
         \/ Phase = "connecting" /\ Phase' = "up" /\ (connections_' <=> connections_)
         \/ Phase = "up" /\ Phase' = "down" /\ (connections_' => connections_)
         \/ server /\ Phase = "down" /\ Phase' = "down" /\ connections_ /\ ~connections_'
         \/ Phase \in {"up", "down"} /\ Phase' = "gone" /\ ~connections_ /\ ~connections_'
  PROVE  Life!Next \/ UNCHANGED Life!vars
<1> DEFINE ph == [c \in {1} |-> Phase]
           ph2 == [c \in {1} |-> Phase']
           ls == {c \in {1} : connections_}
           ls2 == {c \in {1} : connections_'}
<1>1. /\ ls = {1} <=> connections_
      /\ ls = {} <=> ~connections_
      /\ ls2 = {1} <=> connections_'
      /\ ls2 = {} <=> ~connections_'
      /\ ls \in {{}, {1}} /\ ls2 \in {{}, {1}}
  BY ListedFacts
<1>2. ph[1] = Phase /\ ph2 = [ph EXCEPT ![1] = Phase']
  OBVIOUS
<1> HIDE DEF ls, ls2
<1>3. CASE Phase' = Phase /\ (connections_' <=> connections_)
  <2>1. ph2 = ph /\ ls2 = ls
    BY <1>1, <1>3
  <2> QED BY <2>1 DEF Life!vars, ls, ls2
<1>4. CASE Phase = "connecting" /\ Phase' = "up" /\ (connections_' <=> connections_)
  <2>1. ls2 = ls
    BY <1>1, <1>4
  <2>2. Life!Moves(1, {"connecting"}, "up")
    BY <1>2, <1>4 DEF Life!Moves
  <2> QED BY <2>1, <2>2 DEF Life!Establish, Life!Next, ls, ls2
<1>5. CASE Phase = "up" /\ Phase' = "down" /\ (connections_' => connections_)
  <2>1. ls2 \in {ls, ls \ {1}}
    BY <1>1, <1>5
  <2>2. Life!Moves(1, {"up"}, "down")
    BY <1>2, <1>5 DEF Life!Moves
  <2> QED BY <2>1, <2>2 DEF Life!Close, Life!Next, ls, ls2
<1>6. CASE server /\ Phase = "down" /\ Phase' = "down" /\ connections_ /\ ~connections_'
  <2>1. ls2 = ls \ {1} /\ 1 \in ls
    BY <1>1, <1>6
  <2>2. ph2 = ph /\ ph[1] = "down"
    BY <1>6
  <2> QED BY <1>6, <2>1, <2>2 DEF Life!Forget, Life!Next, ls, ls2
<1>7. CASE Phase \in {"up", "down"} /\ Phase' = "gone" /\ ~connections_ /\ ~connections_'
  <2>1. ls2 = ls /\ 1 \notin ls
    BY <1>1, <1>7
  <2>2. Life!Moves(1, {"up", "down"}, "gone")
    BY <1>2, <1>7 DEF Life!Moves
  <2> QED BY <2>1, <2>2 DEF Life!Destroy, Life!Next, ls, ls2
<1> QED BY <1>3, <1>4, <1>5, <1>6, <1>7

\* and when it ends.
LEMMA LifeEnds ==
  ASSUME server, server' = FALSE, ~connections_',
         \/ Phase' = Phase
         \/ Phase \in {"up", "down"} /\ Phase' = "gone" /\ connections_
  PROVE  Life!Next
<1> DEFINE ph == [c \in {1} |-> Phase]
           ph2 == [c \in {1} |-> Phase']
           ls == {c \in {1} : connections_}
           ls2 == {c \in {1} : connections_'}
<1>1. /\ ls = {1} <=> connections_
      /\ ls2 = {}
      /\ ls \in {{}, {1}}
  BY ListedFacts
<1> HIDE DEF ls, ls2
<1>2. CASE Phase \in {"up", "down"} /\ Phase' = "gone" /\ connections_
  <2>1. ls2 = {} /\ {1} \in SUBSET ls
    BY <1>1, <1>2
  <2>2. \A c \in {1} : ph[c] \in {"up", "down"}
    BY <1>2
  <2>3. ph2 = [c \in {1} |-> IF c \in {1} THEN "gone" ELSE ph[c]]
    BY <1>2
  <2> QED BY <2>1, <2>2, <2>3 DEF Life!EndServer, Life!Next, ls, ls2
<1>3. CASE Phase' = Phase
  <2>1. ls2 = {} /\ {} \in SUBSET ls
    BY <1>1
  <2>2. ph2 = [c \in {1} |-> IF c \in {} THEN "gone" ELSE ph[c]]
    BY <1>3
  <2> QED BY <2>1, <2>2 DEF Life!EndServer, Life!Next, ls, ls2
<1> QED BY <1>2, <1>3
\* Where the counters and the map stay, and the state stays kConnecting or
\* other than that, the life goes on.
LEMMA LifeStutters ==
  ASSUME UNCHANGED <<closes, destroys, connections_, server>>,
         state_' = state_ \/ (state_ # "kConnecting" /\ state_' # "kConnecting")
  PROVE  Life!Next \/ UNCHANGED Life!vars
<1>1. Phase' = Phase
  BY DEF Phase
<1>2. connections_' <=> connections_
  BY Zenon
<1> QED BY <1>1, <1>2, LifeSteps

\* Every step of the connection is one of its life, or none.
LEMMA AbstractNext ==
  ASSUME Sole
  PROVE  IInv /\ IInv' /\ LifeInv /\ [Next]_vars => [Life!Next]_(Life!vars)
<1> SUFFICES ASSUME IInv, IInv', LifeInv, [Next]_vars
             PROVE  Life!Next \/ UNCHANGED Life!vars
  OBVIOUS
<1>1. /\ TypeOK /\ TypeOK' /\ closes \in Nat /\ destroys \in Nat
      /\ closes' \in Nat /\ destroys' \in Nat
  BY DEF IInv, TypeOK
<1>2. CASE Look \/ Turn \/ PeerStep \/ Sending \/ WriteEvent
  <2>1. UNCHANGED <<closes, destroys, connections_, server, state_>>
    BY <1>1, <1>2, LookFacts, TurnFacts, PeerFacts, SendingFacts, WriteEventFacts
  <2> QED BY <2>1, LifeStutters
<1>3. CASE ShuttingDown
  <2>1. /\ UNCHANGED <<closes, destroys, connections_, server>>
        /\ state_' = state_ \/ (state_ # "kConnecting" /\ state_' # "kConnecting")
    BY <1>1, <1>3, ShutdownFacts
  <2> QED BY <2>1, LifeStutters
<1>4. CASE Calls
  <2>1. UNCHANGED <<closes, destroys, connections_, server>>
    BY <1>1, <1>4, CallsFacts
  <2>2. state_' = state_ \/ (state_ # "kConnecting" /\ state_' # "kConnecting")
    BY <1>4 DEF Sole, Calls, OwnerForceClose, Closable, Release
  <2> QED BY <2>1, <2>2, LifeStutters
<1>5. CASE Closing
  <2>1. /\ closes = 0 /\ state_ # "kConnecting" /\ closes' = 1 /\ destroys' = destroys
        /\ server' = server
    BY <1>1, <1>5, ClosingFirst, ClosingFacts, CloseFacts
  <2>2. connections_' => connections_
    <3>1. ~connections_' \/ connections_' = connections_
      BY <1>1, <1>5, ClosingFacts, CloseFacts
    <3> QED BY <3>1, Zenon
  <2>3. CASE destroys = 0
    <3>1. Phase = "up" /\ Phase' = "down"
      BY <1>1, <2>1, <2>3, PhaseFacts DEF Phase
    <3> QED BY <2>1, <2>2, <3>1, LifeSteps
  <2>4. CASE destroys > 0
    <3>1. Phase' = Phase
      BY <2>1, <2>4 DEF Phase
    <3>2. ~connections_
      BY <1>5, <2>4, ClosingFacts DEF LifeInv, DestroyInv, Running
    <3> QED BY <2>1, <2>2, <3>1, <3>2, LifeSteps
  <2> QED BY <1>1, <2>3, <2>4
<1>6. CASE RunEstablished
  <2>1. state_ = "kConnecting" /\ closes = 0 /\ destroys = 0
    BY <1>6, EstablishedFirst DEF LifeInv, ConnectingInv
  <2>2. state_' = "kConnected" /\ UNCHANGED <<closes, destroys, connections_, server>>
    BY <1>6 DEF RunEstablished
  <2>3. Phase = "connecting" /\ Phase' = "up"
    BY <2>1, <2>2 DEF Phase
  <2>4. connections_' <=> connections_
    BY <2>2, Zenon
  <2> QED BY <2>2, <2>3, <2>4, LifeSteps
<1>7. CASE RunDestroyed
  <2>1. ~connections_ /\ destroys = 0 /\ state_ # "kConnecting"
    BY <1>7, DestroyedFirst
  <2>2. ConnectDestroyed /\ connections_' = connections_ /\ server' = server
    BY <1>7 DEF RunDestroyed
  <2>3. destroys' > 0
    BY <1>1, <2>2, DestroyFacts
  <2>4. Phase \in {"up", "down"} /\ Phase' = "gone"
    BY <1>1, <2>1, <2>3 DEF Phase
  <2>5. ~connections_'
    BY <2>1, <2>2, Zenon
  <2> QED BY <2>1, <2>2, <2>4, <2>5, LifeSteps
<1>8. CASE DestroyServer
  <2>1. /\ fault = "none" /\ ~connections_' /\ closes' = closes /\ server /\ server' = FALSE
        /\ \/ connections_ /\ ioLoop = "base" /\ ConnectDestroyed
           \/ UNCHANGED <<state_, destroys>>
    BY <1>8 DEF DestroyServer, Running
  <2>2. CASE connections_ /\ ioLoop = "base" /\ ConnectDestroyed
    <3>1. destroys = 0 /\ state_ # "kConnecting"
      BY <2>1, <2>2 DEF LifeInv, DestroyInv, ConnectingInv, Running
    <3>2. destroys' > 0
      BY <1>1, <2>2, DestroyFacts
    <3>3. Phase \in {"up", "down"} /\ Phase' = "gone"
      BY <1>1, <3>1, <3>2 DEF Phase
    <3> QED BY <2>1, <2>2, <3>3, LifeEnds
  <2>3. CASE UNCHANGED <<state_, destroys>>
    <3>1. Phase' = Phase
      BY <2>1, <2>3 DEF Phase
    <3> QED BY <2>1, <3>1, LifeEnds
  <2> QED BY <2>1, <2>2, <2>3
<1>9. CASE RemoveConnectionInLoop
  <2>1. /\ fault = "none" /\ removals > 0 /\ ~connections_'
        /\ UNCHANGED <<closes, destroys, state_, server>>
    BY <1>9 DEF RemoveConnectionInLoop, Running
  <2>2. Phase' = Phase
    BY <2>1 DEF Phase
  <2>3. DestroyInv /\ Running
    BY <2>1 DEF LifeInv, Running
  <2>4. CASE server
    <3>1. connections_ /\ destroys = 0 /\ closes = 1
      BY <2>1, <2>3, <2>4 DEF DestroyInv
    <3>2. Phase = "down"
      BY <3>1 DEF Phase
    <3> QED BY <2>1, <2>2, <2>4, <3>1, <3>2, LifeSteps
  <2>5. CASE ~server
    <3>1. ~connections_
      BY <2>3, <2>5 DEF DestroyInv
    <3> QED BY <2>1, <2>2, <3>1, LifeSteps
  <2> QED BY <2>4, <2>5
<1>10. CASE UNCHANGED vars
  BY <1>10, LifeStutters DEF vars
<1>11. CASE HandleDead
  <2>1. UNCHANGED <<closes, destroys, connections_, server, state_>>
    BY <1>11 DEF HandleDead
  <2> QED BY <2>1, LifeStutters
<1> QED BY <1>11, <1>2, <1>3, <1>4, <1>5, <1>6, <1>7, <1>8, <1>9, <1>10, NextCases

\* With its handlers, stale events and queued functors the connection lives
\* the life that TcpServer promises: established, down once, forgotten, and
\* destroyed only then.
THEOREM ConnectionHasLife == Sole => (Spec => ConnectionLives)
<1> SUFFICES ASSUME Sole PROVE Spec => ConnectionLives
  OBVIOUS
<1>1. IInv /\ IInv' /\ LifeInv /\ [Next]_vars => [Life!Next]_(Life!vars)
  BY AbstractNext
<1> QED BY <1>1, AbstractInit, LifeInductive, PTL DEF Spec, ConnectionLives, Life!Spec
=============================================================================
