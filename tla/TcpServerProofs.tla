--------------------------- MODULE TcpServerProofs ---------------------------
(***************************************************************************)
(* Proofs about TcpServer, for any number of threads, clients, calls of    *)
(* start(), descriptors of others and any limit: no descriptor leaks, the  *)
(* pool is round-robin, no socket is closed before its connection has been *)
(* destroyed, and connections live as ConnectionLife says.                 *)
(***************************************************************************)
EXTENDS TcpServer, TLAPS, FiniteSetTheorems, SequenceTheorems

-----------------------------------------------------------------------------
(***************************************************************************)
(* Descriptors.                                                            *)
(***************************************************************************)

\* The clients that have connected are in the backlog, were accepted or were
\* turned away; only accepted ones have an open socket.
ClientInv ==
  /\ nextConnId_ + backlog <= clients + 1
  /\ open \subseteq 1 .. nextConnId_ - 1
  /\ apc \in {"close", "accept"} => backlog > 0

\* The kernel's count of descriptors.
CountInv ==
  used = Cardinality(open) + foreign
           + (IF idleFd_ = "none" \/ apc \in {"accept", "open"} THEN 0 ELSE 1)

\* As long as nobody else takes a descriptor meanwhile, giving up idleFd_ makes
\* room for the client, and closing the client's socket for idleFd_.
SpareInv ==
  ~robbed =>
    /\ apc \in {"loop", "close"} => idleFd_ = "null"
    /\ apc \in {"accept", "open"} => used < Limit
    /\ apc = "closeNew" => idleFd_ = "client"

-----------------------------------------------------------------------------
(***************************************************************************)
(* The pool.                                                               *)
(***************************************************************************)

\* The loops are numbered in order, and the last connections, as many as there
\* are loops, were given to the loops before next_, going round.
PoolInv ==
  /\ Len(loops_) <= MaxThreads
  /\ \A i \in 1 .. Len(loops_) : loops_[i] = i
  /\ grown <= nextConnId_
  /\ \A c \in grown .. nextConnId_ - 1 :
       LET age == nextConnId_ - c
       IN age <= Len(loops_) =>
            ioLoop[c] = 1 + (IF age <= next_ THEN next_ - age ELSE next_ - age + Len(loops_))

-----------------------------------------------------------------------------
(***************************************************************************)
(* Connections and the functors queued for them.                           *)
(***************************************************************************)
Accepted == 1 .. nextConnId_ - 1

\* A functor is in a queue, and in the queue of a loop.
InSeq(s, f) == \E i \in DOMAIN s : s[i] = f
Has(q, l, f) == InSeq(q[l], f)

\* Two functors of one connection in a queue are connectEstablished() and,
\* after it, connectDestroyed().
OrderedSeq(s) ==
  \A i, j \in DOMAIN s :
    i < j /\ s[i].c = s[j].c /\ s[i].op # "listen"
      => s[i].op = "established" /\ s[j].op = "destroyed"

Ordered(q) == \A l \in Loops : OrderedSeq(q[l])

\* The life of a connection so far.
StateInv ==
  /\ \A c \in Conns \ Accepted : state_[c] = "none"
  /\ \A c \in Accepted : state_[c] # "none"
  /\ connections_ \subseteq Accepted /\ connections_ \cap destroyed = {}
  /\ destroyed \subseteq Accepted
  /\ ~server => connections_ = {}
  /\ listening => server
  /\ \A c \in destroyed : state_[c] = "kDisconnected"
  /\ \A c \in Accepted : server /\ state_[c] # "kDisconnected" => c \in connections_

\* What is known of a connection when a functor is queued for it.
FunctorOK(l, f) ==
  /\ f.op # "listen" => f.c \in Accepted
  /\ f.op = "established" => ioLoop[f.c] = l /\ l # 0 /\ state_[f.c] = "kConnecting"
  /\ f.op = "destroyed" => ioLoop[f.c] = l /\ f.c \notin connections_ /\ f.c \notin destroyed
  /\ f.op = "remove" => /\ l = 0 /\ ioLoop[f.c] # 0 /\ state_[f.c] = "kDisconnected"
                        /\ server => f.c \in connections_

\* And conversely: connectEstablished() is queued for a connection that waits
\* for it; and one that the server has forgotten is on its way to
\* connectDestroyed(), or has been there.
QueueInv ==
  /\ \A l \in Loops, f \in Functor : Has(pendingFunctors_, l, f) => FunctorOK(l, f)
  /\ \A c \in Accepted : state_[c] = "kConnecting" =>
       Has(pendingFunctors_, ioLoop[c], Bound("established", c))
  /\ \A c \in Accepted :
       c \in connections_ \/ c \in destroyed \/ Has(pendingFunctors_, ioLoop[c], Bound("destroyed", c))
  /\ Ordered(pendingFunctors_)

IInv ==
  /\ TypeOK /\ ClientInv /\ CountInv /\ SpareInv /\ PoolInv /\ RoundRobin
  /\ StateInv /\ QueueInv /\ ClosedAfterDestroyed

-----------------------------------------------------------------------------
(***************************************************************************)
(* Facts about queues.                                                     *)
(***************************************************************************)

Queues == [Loops -> Seq(Functor)]

\* A functor f is appended to the queue of loop l; the functors of the same
\* connection that may be there; and what the queues then have.
Appends(q, q2, l, f) == q2 = [q EXCEPT ![l] = Append(@, f)]

MayFollow(q, l, f) ==
  \A g \in Functor : Has(q, l, g) /\ g.c = f.c /\ g.op # "listen"
                       => g.op = "established" /\ f.op = "destroyed"

Gains(q, q2, l, f) ==
  \A m \in Loops, g \in Functor : Has(q2, m, g) <=> Has(q, m, g) \/ (m = l /\ g = f)

\* The first functor is taken from the queue of loop l; and what remains.
Drops(q, q2, l) == q2 = [q EXCEPT ![l] = Tail(@)]

Loses(q, q2, l, f) ==
  /\ \A m \in Loops, g \in Functor : Has(q2, m, g) => Has(q, m, g)
  /\ \A m \in Loops, g \in Functor : Has(q, m, g) => Has(q2, m, g) \/ (m = l /\ g = f)
  /\ \A g \in Functor : Has(q2, l, g) /\ g.c = f.c /\ f.op # "listen"
       => f.op = "established" /\ g.op = "destroyed"

\* Appending.
LEMMA AppendQueue ==
  ASSUME NEW q \in Queues, NEW l \in Loops, NEW f \in Functor,
         NEW q2, Appends(q, q2, l, f), Ordered(q), MayFollow(q, l, f)
  PROVE  q2 \in Queues /\ Gains(q, q2, l, f) /\ Ordered(q2)
<1> USE DEF Queues, Appends
<1>1. /\ q[l] \in Seq(Functor) /\ Len(q[l]) \in Nat /\ DOMAIN q[l] = 1 .. Len(q[l])
      /\ q2[l] = Append(q[l], f)
  OBVIOUS
<1>2. /\ q2[l] \in Seq(Functor) /\ DOMAIN q2[l] = 1 .. Len(q[l]) + 1
      /\ \A i \in 1 .. Len(q[l]) : q2[l][i] = q[l][i]
      /\ q2[l][Len(q[l]) + 1] = f
  BY <1>1
<1>3. \A m \in Loops : m # l => q2[m] = q[m]
  OBVIOUS
<1>4. q2 \in [Loops -> Seq(Functor)]
  BY <1>2
<1>5. ASSUME NEW m \in Loops, NEW g \in Functor
      PROVE  Has(q2, m, g) <=> Has(q, m, g) \/ (m = l /\ g = f)
  <2>1. CASE m # l
    BY <1>3, <2>1 DEF Has, InSeq
  <2>2. CASE m = l
    <3>1. 1 .. Len(q[l]) \subseteq DOMAIN q2[l] /\ Len(q[l]) + 1 \in DOMAIN q2[l]
      BY <1>1, <1>2
    <3>2. \A i \in DOMAIN q2[l] : i \in 1 .. Len(q[l]) \/ i = Len(q[l]) + 1
      BY <1>1, <1>2
    <3> QED BY <1>1, <1>2, <2>2, <3>1, <3>2 DEF Has, InSeq
  <2> QED BY <2>1, <2>2
<1>6. Ordered(q2)
  <2> SUFFICES ASSUME NEW m \in Loops, NEW i \in DOMAIN q2[m], NEW j \in DOMAIN q2[m],
                      i < j, q2[m][i].c = q2[m][j].c, q2[m][i].op # "listen"
               PROVE  q2[m][i].op = "established" /\ q2[m][j].op = "destroyed"
    BY DEF Ordered, OrderedSeq
  <2>1. CASE m # l
    BY <1>3, <2>1 DEF Ordered, OrderedSeq
  <2>2. CASE m = l /\ j \in 1 .. Len(q[l])
    <3>1. i \in 1 .. Len(q[l])
      BY <1>1, <1>2, <2>2
    <3> QED BY <1>1, <1>2, <2>2, <3>1 DEF Ordered, OrderedSeq
  <2>3. CASE m = l /\ j = Len(q[l]) + 1
    <3>1. i \in 1 .. Len(q[l])
      BY <1>1, <1>2, <2>3
    <3>2. q[l][i] \in Functor /\ Has(q, l, q[l][i])
      BY <1>1, <3>1 DEF Has, InSeq
    <3>3. q2[m][i] = q[l][i] /\ q2[m][j] = f
      BY <1>2, <2>3, <3>1
    <3> QED BY <3>2, <3>3 DEF MayFollow
  <2> QED BY <1>1, <1>2, <2>1, <2>2, <2>3
<1> QED BY <1>4, <1>5, <1>6 DEF Gains

\* Taking the first.
LEMMA TailQueue ==
  ASSUME NEW q \in Queues, NEW l \in Loops, q[l] # <<>>, Ordered(q),
         NEW q2, Drops(q, q2, l)
  PROVE  /\ q2 \in Queues /\ Ordered(q2)
         /\ Head(q[l]) \in Functor /\ Has(q, l, Head(q[l])) /\ Loses(q, q2, l, Head(q[l]))
<1> USE DEF Queues, Drops
<1>1. /\ q[l] \in Seq(Functor) /\ Len(q[l]) \in Nat /\ DOMAIN q[l] = 1 .. Len(q[l])
      /\ q2[l] = Tail(q[l])
  OBVIOUS
<1>2. /\ Len(q[l]) >= 1 /\ 1 \in DOMAIN q[l] /\ Head(q[l]) = q[l][1] /\ q[l][1] \in Functor
      /\ q2[l] \in Seq(Functor) /\ DOMAIN q2[l] = 1 .. Len(q[l]) - 1
      /\ \A i \in 1 .. Len(q[l]) - 1 : q2[l][i] = q[l][i + 1] /\ i + 1 \in DOMAIN q[l]
  BY <1>1
<1>3. \A m \in Loops : m # l => q2[m] = q[m]
  OBVIOUS
<1>4. q2 \in [Loops -> Seq(Functor)]
  BY <1>2
<1>5. Ordered(q2)
  <2> SUFFICES ASSUME NEW m \in Loops, NEW i \in DOMAIN q2[m], NEW j \in DOMAIN q2[m],
                      i < j, q2[m][i].c = q2[m][j].c, q2[m][i].op # "listen"
               PROVE  q2[m][i].op = "established" /\ q2[m][j].op = "destroyed"
    BY DEF Ordered, OrderedSeq
  <2>1. CASE m # l
    BY <1>3, <2>1 DEF Ordered, OrderedSeq
  <2>2. CASE m = l
    <3>1. /\ q2[m][i] = q[l][i + 1] /\ q2[m][j] = q[l][j + 1] /\ i + 1 < j + 1
          /\ i + 1 \in DOMAIN q[l] /\ j + 1 \in DOMAIN q[l]
      BY <1>1, <1>2, <2>2
    <3> QED BY <3>1 DEF Ordered, OrderedSeq
  <2> QED BY <2>1, <2>2
<1>6. ASSUME NEW m \in Loops, NEW g \in Functor, Has(q2, m, g)
      PROVE  Has(q, m, g)
  <2>1. CASE m # l
    BY <1>3, <1>6, <2>1 DEF Has, InSeq
  <2>2. CASE m = l
    BY <1>2, <1>6, <2>2 DEF Has, InSeq
  <2> QED BY <2>1, <2>2
<1>7. ASSUME NEW m \in Loops, NEW g \in Functor, Has(q, m, g)
      PROVE  Has(q2, m, g) \/ (m = l /\ g = Head(q[l]))
  <2>1. CASE m # l
    BY <1>3, <1>7, <2>1 DEF Has, InSeq
  <2>2. CASE m = l
    <3>1. PICK i \in DOMAIN q[l] : q[l][i] = g
      BY <1>7, <2>2 DEF Has, InSeq
    <3>2. CASE i = 1
      BY <1>2, <2>2, <3>1, <3>2
    <3>3. CASE i # 1
      <4>1. i - 1 \in DOMAIN q2[l] /\ q2[l][i - 1] = g
        BY <1>1, <1>2, <3>1, <3>3
      <4> QED BY <2>2, <4>1 DEF Has, InSeq
    <3> QED BY <3>2, <3>3
  <2> QED BY <2>1, <2>2
<1>8. ASSUME NEW g \in Functor, Has(q2, l, g), g.c = Head(q[l]).c, Head(q[l]).op # "listen"
      PROVE  Head(q[l]).op = "established" /\ g.op = "destroyed"
  <2>1. PICK i \in DOMAIN q2[l] : q2[l][i] = g
    BY <1>8 DEF Has, InSeq
  <2>2. i + 1 \in DOMAIN q[l] /\ q[l][i + 1] = g /\ 1 < i + 1
    BY <1>1, <1>2, <2>1
  <2> QED BY <1>2, <1>8, <2>2 DEF Ordered, OrderedSeq
<1>9. Has(q, l, Head(q[l]))
  BY <1>2 DEF Has, InSeq
<1> QED BY <1>2, <1>4, <1>5, <1>6, <1>7, <1>8, <1>9 DEF Loses

\* The sets of connections are finite.
LEMMA ConnsFinite ==
  ASSUME NEW S, S \subseteq Conns
  PROVE  IsFiniteSet(S) /\ Cardinality(S) \in Nat
<1>1. IsFiniteSet(Conns)
  BY ServerBounds, FS_Interval DEF Conns
<1>2. IsFiniteSet(S)
  BY <1>1, FS_Subset
<1> QED BY <1>2, FS_CardinalityType

\* An iteration meets each connection once.
LEMMA OrdersFacts ==
  ASSUME NEW S, S \subseteq Conns, NEW order \in Orders(S)
  PROVE  /\ Cardinality(S) \in Nat /\ DOMAIN order = 1 .. Cardinality(S)
         /\ \A i \in DOMAIN order : order[i] \in S
         /\ \A c \in S : \E i \in DOMAIN order : order[i] = c
         /\ \A i, j \in DOMAIN order : order[i] = order[j] => i = j
<1> DEFINE n == Cardinality(S)
<1>1. IsFiniteSet(S) /\ n \in Nat
  BY ConnsFinite
<1>2. order \in [1 .. n -> S] /\ S = {order[i] : i \in DOMAIN order}
  BY DEF Orders
<1> HIDE DEF n
<1>3. \A c \in S : \E i \in DOMAIN order : order[i] = c
  BY <1>2
<1>4. IsFiniteSet(1 .. n) /\ Cardinality(1 .. n) = n
  <2>1. n \in Int /\ 1 \in Int
    BY <1>1
  <2>2. IsFiniteSet(1 .. n) /\ Cardinality(1 .. n) = IF 1 > n THEN 0 ELSE n - 1 + 1
    BY <2>1, FS_Interval
  <2> QED BY <1>1, <2>2
<1>5. order \in Surjection(1 .. n, S)
  BY <1>2, <1>3 DEF Surjection
<1>6. order \in Injection(1 .. n, S)
  <2>1. Cardinality(1 .. n) = Cardinality(S)
    BY <1>4 DEF n
  <2> QED BY <1>4, <1>5, <2>1, FS_SurjSameCardinalityImpliesInj
<1>7. \A i, j \in DOMAIN order : order[i] = order[j] => i = j
  BY <1>2, <1>6 DEF Injection, IsInjective
<1> QED BY <1>1, <1>2, <1>3, <1>7 DEF n

\* A sequence of connectDestroyed() for connections in the given order; and the
\* functors of a queue that may precede it.
DestroysAll(s, order) ==
  DOMAIN s = DOMAIN order /\ \A i \in DOMAIN order : s[i] = Bound("destroyed", order[i])

OnlyEstablished(s, S) ==
  \A i \in DOMAIN s : s[i].op # "listen" /\ s[i].c \in S => s[i].op = "established"

\* connectDestroyed() of the connections in S, in some order, is appended to a
\* queue.
LEMMA ConcatOne ==
  ASSUME NEW s \in Seq(Functor), NEW S \in SUBSET Conns, NEW order \in Orders(S),
         NEW new \in [DOMAIN order -> Functor], DestroysAll(new, order),
         OnlyEstablished(s, S), OrderedSeq(s)
  PROVE  /\ s \o new \in Seq(Functor)
         /\ \A g \in Functor :
              InSeq(s \o new, g) <=> InSeq(s, g) \/ \E c \in S : g = Bound("destroyed", c)
         /\ OrderedSeq(s \o new)
<1> DEFINE k == Cardinality(S)
           n == Len(s)
           t == s \o new
<1>1. /\ n \in Nat /\ k \in Nat /\ DOMAIN order = 1 .. k /\ DOMAIN s = 1 .. n
      /\ \A i \in 1 .. k : order[i] \in S
      /\ \A c \in S : \E i \in 1 .. k : order[i] = c
      /\ \A i, j \in 1 .. k : order[i] = order[j] => i = j
  BY OrdersFacts
<1> HIDE DEF n, k
<1>2. \A i \in 1 .. k : new[i] = Bound("destroyed", order[i])
  BY <1>1 DEF DestroysAll
<1>3. DOMAIN new = 1 .. k /\ new \in [1 .. k -> Functor]
  BY <1>1
<1>5. new \in Seq(Functor) /\ Len(new) = k
  BY <1>1, <1>3
<1>6. /\ t \in Seq(Functor) /\ Len(t) = n + k
      /\ \A i \in 1 .. n + k : t[i] = IF i <= n THEN s[i] ELSE new[i - n]
  <2>1. /\ s \o new \in Seq(Functor) /\ Len(s \o new) = Len(s) + Len(new)
        /\ \A i \in 1 .. Len(s) + Len(new) :
             (s \o new)[i] = IF i <= Len(s) THEN s[i] ELSE new[i - Len(s)]
    BY <1>5, ConcatProperties, Zenon
  <2> QED BY <1>5, <2>1 DEF n
<1> HIDE DEF t
<1>7. DOMAIN t = 1 .. n + k
  BY <1>6, LenProperties
<1>8. \A i \in 1 .. n : i \in DOMAIN t /\ i \in DOMAIN s /\ t[i] = s[i]
  BY <1>1, <1>6, <1>7
<1>9. \A i \in 1 .. k : i + n \in DOMAIN t /\ t[i + n] = Bound("destroyed", order[i])
  <2> TAKE i \in 1 .. k
  <2>1. i + n \in 1 .. n + k /\ ~(i + n <= n) /\ (i + n) - n = i
    BY <1>1
  <2> QED BY <1>2, <1>6, <1>7, <2>1
<1>10. \A i \in DOMAIN t : i \in 1 .. n \/ \E j \in 1 .. k : i = j + n
  <2> TAKE i \in DOMAIN t
  <2>1. i \in 1 .. n + k
    BY <1>7
  <2>2. i \in 1 .. n \/ (i - n \in 1 .. k /\ i = (i - n) + n)
    BY <1>1, <2>1
  <2> QED BY <2>2
<1>11. ASSUME NEW g \in Functor
       PROVE  (\E i \in DOMAIN t : t[i] = g)
                <=> (\E i \in DOMAIN s : s[i] = g) \/ (\E c \in S : g = Bound("destroyed", c))
  <2>1. ASSUME NEW i \in DOMAIN t, t[i] = g
        PROVE  (\E j \in DOMAIN s : s[j] = g) \/ (\E c \in S : g = Bound("destroyed", c))
    <3>1. CASE i \in 1 .. n
      BY <1>8, <2>1, <3>1
    <3>2. CASE \E j \in 1 .. k : i = j + n
      <4>1. PICK j \in 1 .. k : i = j + n
        BY <3>2
      <4>2. g = Bound("destroyed", order[j]) /\ order[j] \in S
        BY <1>1, <1>9, <2>1, <4>1
      <4> QED BY <4>2
    <3> QED BY <1>10, <3>1, <3>2
  <2>2. ASSUME NEW i \in DOMAIN s, s[i] = g PROVE \E j \in DOMAIN t : t[j] = g
    BY <1>1, <1>8, <2>2
  <2>3. ASSUME NEW c \in S, g = Bound("destroyed", c) PROVE \E j \in DOMAIN t : t[j] = g
    <3>1. PICK i \in 1 .. k : order[i] = c
      BY <1>1
    <3> QED BY <1>9, <2>3, <3>1
  <2> QED BY <2>1, <2>2, <2>3
<1>12. ASSUME NEW i \in DOMAIN t, NEW j \in DOMAIN t, i < j, t[i].c = t[j].c, t[i].op # "listen"
       PROVE  t[i].op = "established" /\ t[j].op = "destroyed"
  <2>0. i \in Nat /\ j \in Nat
    BY <1>1, <1>7
  <2>1. CASE j \in 1 .. n
    <3>1. i \in 1 .. n
      BY <1>1, <1>7, <1>12, <2>1
    <3> QED BY <1>8, <1>12, <2>1, <3>1 DEF OrderedSeq
  <2>2. CASE \E b \in 1 .. k : j = b + n
    <3>1. PICK b \in 1 .. k : j = b + n
      BY <2>2
    <3>2. t[j] = Bound("destroyed", order[b]) /\ order[b] \in S
      BY <1>1, <1>9, <3>1
    <3>3. t[j].op = "destroyed" /\ t[j].c = order[b]
      BY <3>2 DEF Bound
    <3>4. CASE i \in 1 .. n
      BY <1>8, <1>12, <3>2, <3>3, <3>4 DEF OnlyEstablished
    <3>5. CASE \E a \in 1 .. k : i = a + n
      <4>1. PICK a \in 1 .. k : i = a + n
        BY <3>5
      <4>2. t[i] = Bound("destroyed", order[a])
        BY <1>9, <4>1
      <4>3. t[i].c = order[a]
        BY <4>2 DEF Bound
      <4>4. a = b
        <5>1. order[a] = order[b]
          BY <1>12, <3>3, <4>3
        <5> QED BY <1>1, <5>1
      <4> QED BY <1>12, <2>0, <3>1, <4>1, <4>4
    <3> QED BY <1>10, <3>4, <3>5
  <2> QED BY <1>10, <2>1, <2>2
<1>13. \A g \in Functor : InSeq(t, g) <=> InSeq(s, g) \/ \E c \in S : g = Bound("destroyed", c)
  BY <1>11 DEF InSeq
<1>14. OrderedSeq(t)
  BY <1>12 DEF OrderedSeq
<1> QED BY <1>6, <1>13, <1>14 DEF t

\* ~TcpServer() queues connectDestroyed() for the connections S[l] of loop l, in
\* any order; the functors of these that may be there; and what the queues have.
Iterates(orders, S) == \A l \in Loops : orders[l] \in Orders(S[l])

QueuesDestroyed(q, q2, orders) ==
  q2 = [l \in Loops |-> q[l] \o [i \in DOMAIN orders[l] |-> Bound("destroyed", orders[l][i])]]

MayEnd(q, S) ==
  \A l \in Loops, g \in Functor :
    Has(q, l, g) /\ g.op # "listen" /\ g.c \in S[l] => g.op = "established"

GainsDestroyed(q, q2, S) ==
  \A m \in Loops, g \in Functor :
    Has(q2, m, g) <=> Has(q, m, g) \/ \E c \in S[m] : g = Bound("destroyed", c)

\* And what then is queued.
LEMMA ConcatQueue ==
  ASSUME NEW q \in Queues, Ordered(q), NEW S \in [Loops -> SUBSET Conns],
         NEW orders, Iterates(orders, S), MayEnd(q, S),
         NEW q2, QueuesDestroyed(q, q2, orders)
  PROVE  q2 \in Queues /\ GainsDestroyed(q, q2, S) /\ Ordered(q2)
<1> USE DEF Iterates, QueuesDestroyed, MayEnd
<1> USE DEF Queues
<1>1. ASSUME NEW l \in Loops
      PROVE  /\ q2[l] \in Seq(Functor) /\ OrderedSeq(q2[l])
             /\ \A g \in Functor :
                  InSeq(q2[l], g) <=> InSeq(q[l], g) \/ \E c \in S[l] : g = Bound("destroyed", c)
  <2> DEFINE s == q[l]
             T == S[l]
             order == orders[l]
             new == [i \in DOMAIN order |-> Bound("destroyed", order[i])]
  <2>1. /\ s \in Seq(Functor) /\ T \in SUBSET Conns /\ order \in Orders(T) /\ q2[l] = s \o new
        /\ DestroysAll(new, order)
    BY DEF DestroysAll
  <2>2. new \in [DOMAIN order -> Functor]
    <3>1. \A i \in DOMAIN order : order[i] \in Conns
      BY <2>1, OrdersFacts
    <3>2. \A i \in DOMAIN order : Bound("destroyed", order[i]) \in Functor
      BY <3>1 DEF Functor, Bound
    <3> QED BY <3>2
  <2>3. OnlyEstablished(s, T)
    <3>1. \A i \in DOMAIN q[l] : q[l][i] \in Functor /\ Has(q, l, q[l][i])
      BY DEF Has, InSeq
    <3> QED BY <3>1 DEF OnlyEstablished
  <2>4. OrderedSeq(s)
    BY DEF Ordered
  <2>5. /\ s \o new \in Seq(Functor) /\ OrderedSeq(s \o new)
        /\ \A g \in Functor :
             InSeq(s \o new, g) <=> InSeq(s, g) \/ \E c \in T : g = Bound("destroyed", c)
    <3> HIDE DEF s, T, order, new
    <3> QED BY <2>1, <2>2, <2>3, <2>4, ConcatOne
  <2> QED BY <2>1, <2>5
<1>2. q2 \in [Loops -> Seq(Functor)]
  BY <1>1
<1>3. GainsDestroyed(q, q2, S)
  BY <1>1, Zenon DEF GainsDestroyed, Has
<1>4. Ordered(q2)
  BY <1>1 DEF Ordered
<1> QED BY <1>2, <1>3, <1>4

-----------------------------------------------------------------------------
(***************************************************************************)
(* What a step that changes one part leaves true of the others.            *)
(***************************************************************************)

\* Steps that open and close nothing.
LEMMA DescriptorFrame ==
  ASSUME IInv, UNCHANGED <<nextConnId_, open, apc, idleFd_, used, backlog, clients, foreign, robbed>>
  PROVE  ClientInv' /\ CountInv' /\ SpareInv'
BY DEF IInv, ClientInv, CountInv, SpareInv

\* Steps that accept nothing and start no thread.
LEMMA PoolFrame ==
  ASSUME IInv, UNCHANGED <<loops_, next_, grown, nextConnId_, ioLoop>>
  PROVE  PoolInv' /\ RoundRobin'
BY DEF IInv, PoolInv, RoundRobin

\* Steps that leave the connections alone.
LEMMA ConnectionFrame ==
  ASSUME IInv, UNCHANGED <<server, listening, nextConnId_, connections_, pendingFunctors_, state_,
                           ioLoop, destroyed>>
  PROVE  StateInv' /\ QueueInv'
<1>1. Accepted' = Accepted
  BY DEF Accepted
<1>2. StateInv'
  BY <1>1 DEF IInv, StateInv
<1>3. QueueInv'
  <2>1. \A l \in Loops, f \in Functor : FunctorOK(l, f) => FunctorOK(l, f)'
    BY <1>1 DEF FunctorOK
  <2> QED BY <1>1, <2>1 DEF IInv, QueueInv
<1> QED BY <1>2, <1>3

\* Steps that close no connection.
LEMMA ClosedFrame ==
  ASSUME IInv, UNCHANGED <<nextConnId_, open>>, destroyed \subseteq destroyed', fault' => ~server'
  PROVE  ClosedAfterDestroyed'
BY DEF IInv, ClosedAfterDestroyed

-----------------------------------------------------------------------------
(***************************************************************************)
(* The initial state and the steps.                                        *)
(***************************************************************************)

\* A new server satisfies the invariant, whether or not it could open idleFd_.
LEMMA InitInv == Init => IInv
<1> SUFFICES ASSUME Init PROVE IInv
  OBVIOUS
<1> USE ServerBounds, LimitAssumption
<1>1. /\ server = TRUE /\ started_ = 0 /\ listening = FALSE /\ apc = "loop"
      /\ loops_ = <<>> /\ next_ = 0 /\ grown = 1 /\ nextConnId_ = 1 /\ connections_ = {}
      /\ pendingFunctors_ = [l \in Loops |-> <<>>] /\ state_ = [c \in Conns |-> "none"]
      /\ ioLoop = [c \in Conns |-> 0] /\ destroyed = {} /\ open = {}
      /\ backlog = 0 /\ clients = 0 /\ foreign = 0 /\ fault = FALSE
      /\ \/ idleFd_ = "null" /\ used = 1 /\ robbed = FALSE
         \/ idleFd_ = "none" /\ used = 0 /\ robbed = TRUE
  BY DEF Init, AcceptorInit, PoolInit
<1>2. TypeOK
  <2>1. /\ server \in BOOLEAN /\ listening \in BOOLEAN /\ robbed \in BOOLEAN /\ fault \in BOOLEAN
    BY <1>1, Zenon
  <2>2. /\ started_ \in 0 .. MaxStarts /\ backlog \in 0 .. MaxClients /\ clients \in 0 .. MaxClients
        /\ foreign \in 0 .. MaxForeign /\ used \in 0 .. Limit
        /\ nextConnId_ \in 1 .. MaxClients + 1 /\ grown \in 1 .. MaxClients + 1
    BY <1>1
  <2>3. loops_ \in Seq(1 .. MaxThreads) /\ loops_ = <<>> /\ next_ = 0
    BY <1>1
  <2>4. pendingFunctors_ \in [Loops -> Seq(Functor)]
    BY <1>1
  <2>5. /\ ioLoop \in [Conns -> Loops]
        /\ state_ \in [Conns -> {"none", "kConnecting", "kConnected", "kDisconnected"}]
    BY <1>1 DEF Loops
  <2>6. /\ apc \in {"loop", "close", "accept", "closeNew", "open"}
        /\ idleFd_ \in {"none", "null", "client"}
        /\ connections_ \subseteq Conns /\ destroyed \subseteq Conns /\ open \subseteq Conns
    BY <1>1
  <2> QED BY <2>1, <2>2, <2>3, <2>4, <2>5, <2>6, Zenon DEF TypeOK
<1>3. ClientInv /\ CountInv
  BY <1>1, FS_EmptySet DEF ClientInv, CountInv
<1>4. SpareInv
  BY <1>1 DEF SpareInv
<1>5. PoolInv /\ RoundRobin
  BY <1>1 DEF PoolInv, RoundRobin
<1>6. Accepted = {}
  BY <1>1 DEF Accepted
<1>7. StateInv
  BY <1>1, <1>6 DEF StateInv
<1>8. QueueInv
  BY <1>1, <1>6 DEF QueueInv, Has, InSeq, Ordered, OrderedSeq
<1>9. ClosedAfterDestroyed
  BY <1>1 DEF ClosedAfterDestroyed
<1> QED BY <1>2, <1>3, <1>4, <1>5, <1>7, <1>8, <1>9 DEF IInv

\* Facts about the numbers of a state that satisfies the invariant.
LEMMA Numbers ==
  ASSUME IInv
  PROVE  /\ Cardinality(open) \in Nat /\ IsFiniteSet(open)
         /\ used \in 0 .. Limit /\ foreign \in 0 .. MaxForeign
         /\ backlog \in 0 .. MaxClients /\ clients \in 0 .. MaxClients
         /\ nextConnId_ \in 1 .. MaxClients + 1 /\ Limit \in Nat /\ Limit > 0
         /\ MaxClients \in Nat /\ MaxForeign \in Nat
<1>1. open \subseteq Conns
  BY DEF IInv, TypeOK
<1> QED BY <1>1, ConnsFinite, ServerBounds, LimitAssumption DEF IInv, TypeOK

\* handleRead() when descriptors have run out, system call by system call.
LEMMA EmfileInv ==
  ASSUME IInv, HandleReadEmfile \/ CloseIdle \/ AcceptIdle \/ CloseNew \/ OpenIdle
  PROVE  IInv'
<1>0. UNCHANGED <<server, started_, listening, loops_, next_, grown, nextConnId_, connections_,
                  pendingFunctors_, state_, ioLoop, destroyed, clients, open, foreign, robbed, fault>>
  BY DEF HandleReadEmfile, CloseIdle, AcceptIdle, CloseNew, OpenIdle, EmfileStep,
         serverVars, connVars, clientVars, otherVars
<1>1. PoolInv' /\ RoundRobin' /\ StateInv' /\ QueueInv' /\ ClosedAfterDestroyed'
  <2>1. fault' => ~server'
    BY <1>0 DEF IInv, ClosedAfterDestroyed
  <2> QED BY <1>0, <2>1, PoolFrame, ConnectionFrame, ClosedFrame
<1>2. /\ used' \in 0 .. Limit /\ backlog' \in 0 .. MaxClients
      /\ idleFd_' \in {"none", "null", "client"}
      /\ apc' \in {"loop", "close", "accept", "closeNew", "open"}
      /\ ClientInv' /\ CountInv' /\ SpareInv'
  <2> DEFINE k == Cardinality(open)
             idle == IF idleFd_ = "none" \/ apc \in {"accept", "open"} THEN 0 ELSE 1
  <2>0. /\ k \in Nat /\ used = k + foreign + idle /\ used \in 0 .. Limit /\ Limit \in Nat
        /\ foreign \in 0 .. MaxForeign /\ MaxForeign \in Nat
        /\ used' = k + foreign' + idle' => CountInv'
    BY <1>0, Numbers DEF IInv, CountInv
  <2> HIDE DEF k
  <2> USE Numbers DEF IInv, ClientInv, SpareInv, TypeOK
  <2>1. CASE HandleReadEmfile
    BY <1>0, <2>0, <2>1 DEF HandleReadEmfile, Readable, InLoop, clientVars
  <2>2. CASE CloseIdle
    <3>1. used' = (IF idleFd_ = "none" THEN used ELSE used - 1) /\ apc = "close" /\ apc' = "accept"
          /\ UNCHANGED <<idleFd_, backlog>>
      BY <2>2 DEF CloseIdle, EmfileStep, ClosedIdle
    <3>2. used' \in 0 .. Limit /\ CountInv'
      BY ONLY <1>0, <2>0, <3>1
    <3>3. ClientInv' /\ SpareInv'
      BY <1>0, <3>1
    <3> QED BY <3>1, <3>2, <3>3
  <2>3. CASE AcceptIdle
    <3>1. apc = "accept" /\ apc' = "closeNew"
      BY <2>3 DEF AcceptIdle, EmfileStep
    <3>2. CASE used < Limit /\ used' = used + 1 /\ backlog' = backlog - 1 /\ idleFd_' = "client"
      <4>1. used' \in 0 .. Limit /\ CountInv'
        BY ONLY <1>0, <2>0, <3>1, <3>2
      <4>2. backlog' \in 0 .. MaxClients /\ ClientInv' /\ SpareInv'
        BY <1>0, <3>1, <3>2
      <4> QED BY <3>1, <3>2, <4>1, <4>2
    <3>3. CASE used = Limit /\ idleFd_' = "none" /\ UNCHANGED <<used, backlog>>
      <4>1. used' \in 0 .. Limit /\ CountInv'
        BY ONLY <1>0, <2>0, <3>1, <3>3
      <4>2. ClientInv' /\ SpareInv'
        BY <1>0, <3>1, <3>3
      <4> QED BY <3>1, <3>3, <4>1, <4>2
    <3> QED BY <2>3, <3>2, <3>3 DEF AcceptIdle
  <2>4. CASE CloseNew
    <3>1. used' = (IF idleFd_ = "none" THEN used ELSE used - 1) /\ apc = "closeNew" /\ apc' = "open"
          /\ UNCHANGED <<idleFd_, backlog>>
      BY <2>4 DEF CloseNew, EmfileStep, ClosedIdle
    <3>2. used' \in 0 .. Limit /\ CountInv'
      BY ONLY <1>0, <2>0, <3>1
    <3>3. ClientInv' /\ SpareInv'
      BY <1>0, <3>1
    <3> QED BY <3>1, <3>2, <3>3
  <2>5. CASE OpenIdle
    BY <1>0, <2>0, <2>5 DEF OpenIdle, EmfileStep
  <2> QED BY <2>1, <2>2, <2>3, <2>4, <2>5
<1>3. TypeOK'
  BY <1>0, <1>2 DEF IInv, TypeOK
<1> QED BY <1>1, <1>2, <1>3 DEF IInv

\* Clients connect; others open and close descriptors.
LEMMA OutsideInv ==
  ASSUME IInv, ClientConnects \/ ForeignOpen \/ ForeignClose
  PROVE  IInv'
<1>0. UNCHANGED <<server, started_, listening, loops_, next_, grown, nextConnId_, connections_,
                  pendingFunctors_, state_, ioLoop, destroyed, open, apc, idleFd_, fault>>
  BY DEF ClientConnects, ForeignOpen, ForeignClose, serverVars, connVars, clientVars, fdVars, otherVars
<1>1. PoolInv' /\ RoundRobin' /\ StateInv' /\ QueueInv' /\ ClosedAfterDestroyed'
  <2>1. fault' => ~server'
    BY <1>0 DEF IInv, ClosedAfterDestroyed
  <2> QED BY <1>0, <2>1, PoolFrame, ConnectionFrame, ClosedFrame
<1>2. /\ used' \in 0 .. Limit /\ backlog' \in 0 .. MaxClients /\ clients' \in 0 .. MaxClients
      /\ foreign' \in 0 .. MaxForeign /\ robbed' \in BOOLEAN
      /\ ClientInv' /\ CountInv' /\ SpareInv'
  <2> DEFINE k == Cardinality(open)
             idle == IF idleFd_ = "none" \/ apc \in {"accept", "open"} THEN 0 ELSE 1
  <2>0. /\ k \in Nat /\ used = k + foreign + idle /\ used \in 0 .. Limit /\ Limit \in Nat
        /\ foreign \in 0 .. MaxForeign /\ MaxForeign \in Nat
        /\ used' = k + foreign' + idle' => CountInv'
    BY <1>0, Numbers DEF IInv, CountInv
  <2> HIDE DEF k
  <2> USE Numbers DEF IInv, ClientInv, SpareInv, TypeOK
  <2>1. CASE ClientConnects
    BY <1>0, <2>0, <2>1 DEF ClientConnects, fdVars, otherVars
  <2>2. CASE ForeignOpen
    <3>1. /\ foreign < MaxForeign /\ used < Limit /\ foreign' = foreign + 1 /\ used' = used + 1
          /\ robbed' = (robbed \/ apc # "loop") /\ UNCHANGED <<backlog, clients>>
      BY <2>2 DEF ForeignOpen, clientVars
    <3>2. used' \in 0 .. Limit /\ foreign' \in 0 .. MaxForeign /\ CountInv'
      BY ONLY <1>0, <2>0, <3>1
    <3>3. ClientInv' /\ SpareInv'
      BY <1>0, <3>1
    <3>4. robbed' \in BOOLEAN
      BY <3>1
    <3> QED BY <3>1, <3>2, <3>3, <3>4
  <2>3. CASE ForeignClose
    <3>1. /\ foreign > 0 /\ foreign' = foreign - 1 /\ used' = used - 1
          /\ UNCHANGED <<robbed, backlog, clients>>
      BY <2>3 DEF ForeignClose, clientVars
    <3>2. used' \in 0 .. Limit /\ foreign' \in 0 .. MaxForeign /\ CountInv'
      BY ONLY <1>0, <2>0, <3>1
    <3>3. ClientInv' /\ SpareInv'
      BY <1>0, <3>1
    <3> QED BY <3>1, <3>2, <3>3
  <2> QED BY <2>1, <2>2, <2>3
<1>3. TypeOK'
  BY <1>0, <1>2 DEF IInv, TypeOK
<1> QED BY <1>1, <1>2, <1>3 DEF IInv

\* A connection is freed when nobody refers to it: it is destroyed by then.
LEMMA FreeInv ==
  ASSUME IInv, NEW c \in Conns, FreeConnection(c)
  PROVE  IInv'
<1>0. /\ c \in open /\ open' = open \ {c} /\ used' = used - 1
      /\ UNCHANGED <<server, started_, listening, loops_, next_, grown, nextConnId_, connections_,
                  pendingFunctors_, state_, ioLoop, destroyed, backlog, clients, apc, idleFd_, foreign,
                  robbed, fault>>
  BY DEF FreeConnection, serverVars, connVars, clientVars, otherVars
<1>1. PoolInv' /\ RoundRobin' /\ StateInv' /\ QueueInv'
  BY <1>0, PoolFrame, ConnectionFrame
<1>2. Cardinality(open') = Cardinality(open) - 1
  BY <1>0, Numbers, FS_RemoveElement
<1>3. used' \in 0 .. Limit /\ ClientInv' /\ CountInv' /\ SpareInv'
  <2>1. foreign \in Nat
    BY Numbers
  <2>2. Cardinality(open') \in Nat
    <3>1. open' \subseteq Conns
      BY <1>0 DEF IInv, TypeOK
    <3> QED BY <3>1, ConnsFinite
  <2> QED BY <1>0, <1>2, <2>1, <2>2, Numbers DEF IInv, ClientInv, CountInv, SpareInv
<1>4. TypeOK'
  BY <1>0, <1>3 DEF IInv, TypeOK
<1>5. c \in destroyed
  <2>1. c \in Accepted
    BY <1>0 DEF IInv, ClientInv, Accepted
  <2>2. ioLoop[c] \in Loops /\ c \notin connections_
    BY DEF FreeConnection, Unreferenced, IInv, TypeOK
  <2>3. ~Has(pendingFunctors_, ioLoop[c], Bound("destroyed", c))
    BY <2>2 DEF FreeConnection, Unreferenced, Has, InSeq, Bound
  <2> QED BY <2>1, <2>2, <2>3 DEF IInv, QueueInv
<1>6. ClosedAfterDestroyed'
  BY <1>0, <1>5 DEF IInv, ClosedAfterDestroyed
<1> QED BY <1>1, <1>3, <1>4, <1>6 DEF IInv

\* The pool grows.
LEMMA StartPoolInv ==
  ASSUME IInv, NEW n \in 1 .. MaxThreads, StartPool(n)
  PROVE  IInv'
<1> DEFINE new == [i \in 1 .. n |-> Len(loops_) + i]
<1>0. /\ Len(loops_) + n <= MaxThreads /\ loops_' = loops_ \o new /\ grown' = nextConnId_
      /\ UNCHANGED <<server, started_, listening, next_, nextConnId_, connections_,
                  pendingFunctors_, state_, ioLoop, destroyed, backlog, clients, open, apc, idleFd_,
                  used, foreign, robbed, fault>>
  BY DEF StartPool, connVars, clientVars, fdVars, otherVars
<1>1. ClientInv' /\ CountInv' /\ SpareInv' /\ StateInv' /\ QueueInv'
  BY <1>0, DescriptorFrame, ConnectionFrame
<1>2. ClosedAfterDestroyed'
  <2>1. fault' => ~server'
    BY <1>0 DEF IInv, ClosedAfterDestroyed
  <2> QED BY <1>0, <2>1, ClosedFrame
<1>3. /\ loops_ \in Seq(1 .. MaxThreads) /\ Len(loops_) \in Nat /\ n \in Nat /\ n > 0
      /\ MaxThreads \in Nat
  BY ServerBounds DEF IInv, TypeOK
<1>4. new \in Seq(1 .. MaxThreads) /\ Len(new) = n /\ \A i \in 1 .. n : new[i] = Len(loops_) + i
  <2>1. \A i \in 1 .. n : Len(loops_) + i \in 1 .. MaxThreads
    BY <1>0, <1>3
  <2>2. new \in [1 .. n -> 1 .. MaxThreads]
    BY <2>1
  <2> QED BY <1>3, <2>2
<1> HIDE DEF new
<1>5. /\ loops_' \in Seq(1 .. MaxThreads) /\ Len(loops_') = Len(loops_) + n
      /\ \A i \in 1 .. Len(loops_) + n :
           loops_'[i] = IF i <= Len(loops_) THEN loops_[i] ELSE new[i - Len(loops_)]
  BY <1>0, <1>3, <1>4, ConcatProperties
<1>6. \A i \in 1 .. Len(loops_') : loops_'[i] = i
  <2> TAKE i \in 1 .. Len(loops_')
  <2>1. CASE i <= Len(loops_)
    <3>1. i \in 1 .. Len(loops_) /\ i \in 1 .. Len(loops_) + n
      BY <1>3, <1>5, <2>1
    <3>2. loops_[i] = i
      BY <3>1 DEF IInv, PoolInv
    <3> QED BY <1>5, <2>1, <3>1, <3>2
  <2>2. CASE ~(i <= Len(loops_))
    <3>1. i - Len(loops_) \in 1 .. n /\ i \in 1 .. Len(loops_) + n
      BY <1>3, <1>5, <2>2
    <3> QED BY <1>3, <1>4, <1>5, <2>2, <3>1
  <2> QED BY <2>1, <2>2
<1>7. PoolInv' /\ RoundRobin'
  <2>1. nextConnId_ \in Nat
    BY ServerBounds DEF IInv, TypeOK
  <2>2. grown' .. nextConnId_' - 1 = {}
    BY <1>0, <2>1
  <2> QED BY <1>0, <1>3, <1>5, <1>6, <2>1, <2>2 DEF PoolInv, RoundRobin
<1>8. next_' \in 0 .. Len(loops_') - 1 /\ loops_' # <<>>
  <2>1. Len(loops_') # 0 /\ Len(<<>>) = 0
    BY <1>3, <1>5
  <2>2. next_ = 0 \/ next_ \in 0 .. Len(loops_) - 1
    BY DEF IInv, TypeOK
  <2> QED BY <1>0, <1>3, <1>5, <2>1, <2>2
<1>9. TypeOK'
  BY <1>0, <1>5, <1>8 DEF IInv, TypeOK
<1> QED BY <1>1, <1>2, <1>7, <1>9 DEF IInv

\* A connection that was accepted.
LEMMA AcceptedFacts ==
  ASSUME IInv, NEW c \in Accepted
  PROVE  /\ c \in Conns /\ c \in 1 .. MaxClients /\ c # 0 /\ ioLoop[c] \in Loops
         /\ \A op \in {"established", "remove", "destroyed"} : Bound(op, c) \in Functor
<1>1. c \in 1 .. MaxClients /\ c # 0
  BY Numbers DEF Accepted
<1> QED BY <1>1 DEF IInv, TypeOK, Conns, Functor, Bound

\* What a functor of a live connection says of it.
LEMMA FunctorFacts ==
  ASSUME IInv, NEW l \in Loops, NEW f \in Functor, Has(pendingFunctors_, l, f)
  PROVE  FunctorOK(l, f) /\ (f.op = "listen" <=> f.c = 0)
         /\ (f.op # "listen" => f.c \in Accepted /\ f.c \in Conns)
BY ServerBounds DEF IInv, QueueInv, FunctorOK, Functor, Conns

\* start() lets the Acceptor listen now, or queues Acceptor::listen().
LEMMA StartInv ==
  ASSUME IInv, Start
  PROVE  IInv'
<1>0. /\ server /\ UNCHANGED <<server, loops_, next_, grown, nextConnId_, connections_, state_, ioLoop,
                     destroyed, backlog, clients, open, apc, idleFd_, used, foreign, robbed, fault>>
  BY DEF Start, clientVars, fdVars, otherVars
<1>1. ClientInv' /\ CountInv' /\ SpareInv' /\ PoolInv' /\ RoundRobin'
  BY <1>0, DescriptorFrame, PoolFrame
<1>2. ClosedAfterDestroyed'
  <2>1. fault' => ~server'
    BY <1>0 DEF IInv, ClosedAfterDestroyed
  <2> QED BY <1>0, <2>1, ClosedFrame
<1>3. started_' \in 0 .. MaxStarts
  BY ServerBounds DEF Start, IInv, TypeOK
<1>4. listening' \in BOOLEAN
  BY Zenon DEF Start, IInv, TypeOK
<1>5. Accepted' = Accepted /\ \A l \in Loops, f \in Functor : FunctorOK(l, f) => FunctorOK(l, f)'
  BY <1>0 DEF Accepted, FunctorOK
<1>6. StateInv'
  BY <1>0, <1>5 DEF IInv, StateInv
<1>7. pendingFunctors_' \in [Loops -> Seq(Functor)] /\ QueueInv'
  <2>1. CASE UNCHANGED pendingFunctors_
    BY <1>0, <1>5, <2>1 DEF IInv, TypeOK, QueueInv
  <2>2. CASE Queued(0, Bound("listen", 0))
    <3> DEFINE f == Bound("listen", 0)
    <3>1. 0 \in Loops /\ f \in Functor /\ f.op = "listen" /\ f.c = 0
      BY ServerBounds DEF Loops, Functor, Bound
    <3>2. /\ pendingFunctors_ \in Queues /\ Ordered(pendingFunctors_)
          /\ Appends(pendingFunctors_, pendingFunctors_', 0, f)
      BY <2>2 DEF IInv, TypeOK, QueueInv, Queued, Queues, Appends
    <3> HIDE DEF f
    <3>3. MayFollow(pendingFunctors_, 0, f)
      BY <3>1, FunctorFacts DEF MayFollow
    <3>4. /\ pendingFunctors_' \in Queues /\ Ordered(pendingFunctors_')
          /\ Gains(pendingFunctors_, pendingFunctors_', 0, f)
      BY <3>1, <3>2, <3>3, AppendQueue
    <3>5. FunctorOK(0, f)'
      BY <3>1 DEF FunctorOK
    <3> QED BY <1>0, <1>5, <3>4, <3>5, AcceptedFacts DEF IInv, QueueInv, Gains, Queues
  <2> QED BY <2>1, <2>2 DEF Start
<1>8. TypeOK'
  BY <1>0, <1>3, <1>4, <1>7 DEF IInv, TypeOK
<1> QED BY <1>1, <1>2, <1>6, <1>7, <1>8 DEF IInv

\* The next loop of the pool.
LEMMA NextLoopFacts ==
  ASSUME IInv
  PROVE  /\ NextLoop \in Loops
         /\ IF loops_ = <<>> THEN next_ = 0 /\ NextIndex = 0 /\ NextLoop = 0 /\ Len(loops_) = 0
            ELSE /\ Len(loops_) \in Nat \ {0} /\ next_ \in 0 .. Len(loops_) - 1
                 /\ NextLoop = next_ + 1
                 /\ NextIndex = IF next_ + 1 >= Len(loops_) THEN 0 ELSE next_ + 1
<1>1. CASE loops_ = <<>>
  BY <1>1, ServerBounds DEF IInv, TypeOK, NextLoop, NextIndex, Loops
<1>2. CASE loops_ # <<>>
  <2>1. /\ loops_ \in Seq(1 .. MaxThreads) /\ next_ \in 0 .. Len(loops_) - 1
        /\ Len(loops_) <= MaxThreads /\ \A i \in 1 .. Len(loops_) : loops_[i] = i
    BY <1>2 DEF IInv, TypeOK, PoolInv
  <2>2. Len(loops_) \in Nat \ {0}
    BY <1>2, <2>1
  <2>3. next_ + 1 \in 1 .. Len(loops_)
    BY <2>1, <2>2
  <2>4. NextLoop = next_ + 1
    BY <1>2, <2>1, <2>3 DEF NextLoop
  <2>5. NextIndex = IF next_ + 1 >= Len(loops_) THEN 0 ELSE next_ + 1
    BY <1>2 DEF NextIndex
  <2>6. NextLoop \in Loops
    BY <2>1, <2>2, <2>3, <2>4, ServerBounds DEF Loops
  <2> QED BY <1>2, <2>1, <2>2, <2>4, <2>5, <2>6
<1> QED BY <1>1, <1>2

\* newConnection() gives the new connection to the next loop.
LEMMA HandleReadInv ==
  ASSUME IInv, HandleRead
  PROVE  IInv'
<1>a. nextConnId_ \in Conns /\ NextLoop \in Loops
  <2>1. backlog > 0 /\ nextConnId_ + backlog <= clients + 1
    BY DEF IInv, ClientInv, HandleRead, Readable
  <2>2. nextConnId_ \in Conns
    BY <2>1, Numbers DEF Conns
  <2> QED BY <2>2, NextLoopFacts
<1>b. PICK c \in Conns, l \in Loops : c = nextConnId_ /\ l = NextLoop
  BY <1>a
<1>1. /\ apc = "loop" /\ listening /\ backlog > 0 /\ used < Limit /\ used' = used + 1
      /\ backlog' = backlog - 1 /\ nextConnId_' = c + 1 /\ open' = open \cup {c}
      /\ connections_' = connections_ \cup {c} /\ ioLoop' = [ioLoop EXCEPT ![c] = l]
      /\ next_' = NextIndex
      /\ IF l = 0 THEN /\ state_' = [state_ EXCEPT ![c] = "kConnected"]
                       /\ UNCHANGED pendingFunctors_
                  ELSE /\ state_' = [state_ EXCEPT ![c] = "kConnecting"]
                       /\ Appends(pendingFunctors_, pendingFunctors_', l, Bound("established", c))
      /\ UNCHANGED <<server, started_, listening, loops_, grown, destroyed, clients, apc, idleFd_,
                     foreign, robbed, fault>>
  BY <1>b DEF HandleRead, Readable, InLoop, Queued, Appends, otherVars
<1>2. /\ c \in 1 .. MaxClients /\ c \in Conns /\ c \notin Accepted /\ Accepted' = Accepted \cup {c}
      /\ c + 1 \in 1 .. MaxClients + 1 /\ c # 0
  BY <1>1, <1>b, Numbers DEF IInv, ClientInv, Accepted, Conns
<1>4. c \notin open
  BY <1>2, <1>b DEF IInv, ClientInv, Accepted
<1>5. Cardinality(open') = Cardinality(open) + 1
  BY <1>1, <1>4, Numbers, FS_AddElement
<1>6. used' \in 0 .. Limit /\ backlog' \in 0 .. MaxClients /\ CountInv' /\ ClientInv'
  <2>1. used' \in 0 .. Limit /\ backlog' \in 0 .. MaxClients
    BY <1>1, Numbers
  <2>2. CountInv'
    BY <1>1, <1>5, Numbers DEF IInv, CountInv
  <2>3. ClientInv'
    BY <1>1, <1>2, <1>b, Numbers DEF IInv, ClientInv, Accepted
  <2> QED BY <2>1, <2>2, <2>3
<1>7. SpareInv'
  BY <1>1 DEF IInv, SpareInv
<1>8. ioLoop' \in [Conns -> Loops] /\ ioLoop'[c] = l /\ \A d \in Conns : d # c => ioLoop'[d] = ioLoop[d]
  BY <1>1, <1>2 DEF IInv, TypeOK
<1>9. /\ state_' \in [Conns -> {"none", "kConnecting", "kConnected", "kDisconnected"}]
      /\ state_'[c] = IF l = 0 THEN "kConnected" ELSE "kConnecting"
      /\ \A d \in Conns : d # c => state_'[d] = state_[d]
  BY <1>1, <1>2 DEF IInv, TypeOK
<1>10. PoolInv' /\ RoundRobin'
  <2>1. CASE loops_ = <<>>
    <3>2. grown \in Nat /\ grown <= c /\ c \in Nat /\ nextConnId_' = c + 1 /\ grown' = grown
      BY <1>1, <1>2, <1>b DEF IInv, TypeOK, PoolInv
    <3>1. Len(loops_') = 0 /\ grown' <= nextConnId_' /\ MaxThreads \in Nat
      <4>1. Len(loops_') = 0
        BY <1>1, <2>1
      <4> QED BY <3>2, <4>1, ServerBounds
    <3>3. \A d \in grown' .. nextConnId_' - 1 : d \in Nat /\ ~(nextConnId_' - d <= 0)
      BY <3>2
    <3>4. \A d, e \in Nat : ~(d < e /\ e - d < 0)
      OBVIOUS
    <3>5. \A i \in 1 .. Len(loops_') : loops_'[i] = i
      BY <3>1
    <3>6. Len(loops_') <= MaxThreads
      BY <3>1, ServerBounds
    <3>7. PoolInv'
      BY <3>1, <3>3, <3>5, <3>6, Zenon DEF PoolInv
    <3>8. RoundRobin'
      BY <3>1, <3>3, <3>4, Zenon DEF RoundRobin
    <3> QED BY <3>7, <3>8
  <2>2. CASE loops_ # <<>>
    <3> DEFINE N == Len(loops_)
    <3>1. /\ N \in Nat \ {0} /\ next_ \in 0 .. N - 1 /\ l = next_ + 1
          /\ next_' = IF next_ + 1 >= N THEN 0 ELSE next_ + 1
          /\ Len(loops_') = N /\ N <= MaxThreads /\ \A i \in 1 .. N : loops_'[i] = i
          /\ c \in Nat /\ grown \in Nat /\ grown <= c /\ nextConnId_' = c + 1 /\ grown' = grown
      BY <1>1, <1>2, <1>b, <2>2, NextLoopFacts DEF IInv, TypeOK, PoolInv
    <3>2. \A d \in grown .. c - 1 :
            /\ d \in Nat /\ d < c /\ ioLoop'[d] = ioLoop[d]
            /\ c - d <= N =>
                 ioLoop[d] = 1 + (IF c - d <= next_ THEN next_ - (c - d) ELSE next_ - (c - d) + N)
      <4> TAKE d \in grown .. c - 1
      <4>1. d \in Accepted /\ d < c /\ d \in Nat
        BY <1>b, <3>1 DEF Accepted, IInv, TypeOK
      <4>2. d \in Conns /\ d # c
        BY <4>1, <3>1, AcceptedFacts
      <4> QED BY <1>8, <1>b, <4>1, <4>2 DEF IInv, PoolInv
    <3> HIDE DEF N
    <3>3. \A d \in grown .. c :
            c + 1 - d <= N =>
              ioLoop'[d] = 1 + (IF c + 1 - d <= next_' THEN next_' - (c + 1 - d)
                                ELSE next_' - (c + 1 - d) + N)
      <4> TAKE d \in grown .. c
      <4>1. CASE d = c
        BY <1>8, <3>1, <4>1
      <4>2. CASE d \in grown .. c - 1
        BY <3>1, <3>2, <4>2
      <4> QED BY <3>1, <4>1, <4>2
    <3>4. PoolInv'
      BY <3>1, <3>3 DEF PoolInv
    <3>5. \A d \in grown .. c - 1 : c - d < N => ioLoop'[d] # ioLoop'[c]
      <4> TAKE d \in grown .. c - 1
      <4>1. d \in Nat /\ d < c /\ ioLoop'[d] = ioLoop[d] /\ ioLoop'[c] = next_ + 1
        BY <1>8, <3>1, <3>2
      <4>2. CASE c - d <= next_
        BY <3>1, <3>2, <4>1, <4>2
      <4>3. CASE ~(c - d <= next_)
        BY <3>1, <3>2, <4>1, <4>3
      <4> QED BY <4>2, <4>3
    <3>6. \A d, e \in grown .. c - 1 : d < e /\ e - d < N => ioLoop'[d] # ioLoop'[e]
      <4>1. \A d, e \in grown .. c - 1 : d < e /\ e - d < N => ioLoop[d] # ioLoop[e]
        BY <1>b DEF IInv, RoundRobin, N
      <4> QED BY <3>2, <4>1
    <3>7. \A d \in grown .. c : d = c \/ d \in grown .. c - 1
      BY <3>1
    <3>8. \A d \in grown .. c : d \in Nat /\ ~(c < d)
      BY <3>1
    <3>9. \A d, e \in grown .. c : d < e /\ e - d < N => ioLoop'[d] # ioLoop'[e]
      BY <3>1, <3>5, <3>6, <3>7, <3>8
    <3>10. grown' .. nextConnId_' - 1 = grown .. c
      BY <3>1
    <3> QED BY <3>1, <3>4, <3>9, <3>10 DEF RoundRobin
  <2> QED BY <2>1, <2>2
<1>11. StateInv'
  <2>1. server
    BY <1>1 DEF IInv, StateInv
  <2>2. \A d \in Conns \ Accepted' : state_'[d] = "none"
    BY <1>2, <1>9 DEF IInv, StateInv
  <2>3. \A d \in Accepted : d \in Conns /\ d # c /\ state_'[d] = state_[d]
    BY <1>2, <1>9, AcceptedFacts
  <2>4. state_'[c] \in {"kConnected", "kConnecting"}
    BY <1>9
  <2>5. \A d \in Accepted' : state_'[d] # "none"
    BY <1>2, <2>3, <2>4 DEF IInv, StateInv
  <2>6. /\ connections_' \subseteq Accepted' /\ connections_' \cap destroyed' = {}
        /\ destroyed' \subseteq Accepted'
    BY <1>1, <1>2 DEF IInv, StateInv
  <2>7. \A d \in destroyed' : state_'[d] = "kDisconnected"
    BY <1>1, <2>3 DEF IInv, StateInv
  <2>8. \A d \in Accepted' : server' /\ state_'[d] # "kDisconnected" => d \in connections_'
    BY <1>1, <1>2, <2>1, <2>3 DEF IInv, StateInv
  <2> QED BY <1>1, <2>1, <2>2, <2>5, <2>6, <2>7, <2>8 DEF StateInv
<1>12. \A m \in Loops, f \in Functor : Has(pendingFunctors_, m, f) => FunctorOK(m, f)'
  <2> SUFFICES ASSUME NEW m \in Loops, NEW f \in Functor, Has(pendingFunctors_, m, f)
               PROVE  FunctorOK(m, f)'
    OBVIOUS
  <2>1. FunctorOK(m, f) /\ (f.op # "listen" => f.c \in Accepted /\ f.c \in Conns)
    BY FunctorFacts
  <2>2. f.op # "listen" => f.c # c /\ f.c \in Accepted' /\ ioLoop'[f.c] = ioLoop[f.c]
                           /\ state_'[f.c] = state_[f.c]
    BY <1>2, <1>8, <1>9, <2>1
  <2> QED BY <1>1, <2>1, <2>2 DEF FunctorOK
<1>13. pendingFunctors_' \in Queues /\ QueueInv'
  <2>0. pendingFunctors_ \in Queues /\ Ordered(pendingFunctors_)
    BY DEF IInv, TypeOK, Queues, QueueInv
  <2>1. \A d \in Accepted :
          /\ d \in Conns /\ d # c /\ ioLoop'[d] = ioLoop[d] /\ state_'[d] = state_[d]
          /\ ioLoop[d] \in Loops
          /\ Bound("established", d) \in Functor /\ Bound("destroyed", d) \in Functor
          /\ state_[d] = "kConnecting" => Has(pendingFunctors_, ioLoop[d], Bound("established", d))
          /\ \/ d \in connections_ \/ d \in destroyed
             \/ Has(pendingFunctors_, ioLoop[d], Bound("destroyed", d))
    BY <1>2, <1>8, <1>9, AcceptedFacts DEF IInv, QueueInv
  <2>2. CASE l = 0
    <3>1. pendingFunctors_' = pendingFunctors_ /\ state_'[c] # "kConnecting"
      BY <1>1, <1>9, <2>2
    <3> QED BY <1>1, <1>2, <1>12, <2>0, <2>1, <3>1 DEF QueueInv
  <2>3. CASE l # 0
    <3> DEFINE f == Bound("established", c)
    <3>1. f \in Functor /\ f.op = "established" /\ f.c = c
      BY <1>2 DEF Functor, Bound
    <3> HIDE DEF f
    <3>2. Appends(pendingFunctors_, pendingFunctors_', l, f)
      BY <1>1, <2>3 DEF f
    <3>3. MayFollow(pendingFunctors_, l, f)
      BY <1>2, <3>1, FunctorFacts DEF MayFollow
    <3>4. /\ pendingFunctors_' \in Queues /\ Ordered(pendingFunctors_')
          /\ Gains(pendingFunctors_, pendingFunctors_', l, f)
      BY <2>0, <3>1, <3>2, <3>3, AppendQueue
    <3>5. FunctorOK(l, f)'
      <4>1. f.c \in Accepted' /\ ioLoop'[f.c] = l /\ state_'[f.c] = "kConnecting"
        BY <1>2, <1>8, <1>9, <2>3, <3>1
      <4> QED BY <2>3, <3>1, <4>1 DEF FunctorOK
    <3>6. \A m \in Loops, g \in Functor : Has(pendingFunctors_', m, g) => FunctorOK(m, g)'
      BY <1>12, <3>4, <3>5 DEF Gains
    <3>7. \A d \in Accepted : state_'[d] = "kConnecting" =>
            Has(pendingFunctors_', ioLoop'[d], Bound("established", d))
      BY <2>1, <3>4 DEF Gains
    <3>8. Has(pendingFunctors_', ioLoop'[c], Bound("established", c))
      BY <1>8, <3>1, <3>4 DEF Gains, f
    <3>9. \A d \in Accepted : \/ d \in connections_' \/ d \in destroyed'
                              \/ Has(pendingFunctors_', ioLoop'[d], Bound("destroyed", d))
      BY <1>1, <2>1, <3>4 DEF Gains
    <3>10. c \in connections_'
      BY <1>1
    <3> QED BY <1>2, <3>4, <3>6, <3>7, <3>8, <3>9, <3>10 DEF QueueInv
  <2> QED BY <2>2, <2>3
<1>15. IF loops_' = <<>> THEN next_' = 0 ELSE next_' \in 0 .. Len(loops_') - 1
  BY <1>1, NextLoopFacts
<1>16. TypeOK'
  BY <1>1, <1>2, <1>6, <1>8, <1>9, <1>13, <1>15 DEF IInv, TypeOK, Queues
<1>17. ClosedAfterDestroyed'
  <2>1. 1 .. nextConnId_' - 1 = Accepted \cup {c}
    BY <1>1, <1>2, <1>b DEF Accepted
  <2> QED BY <1>1, <2>1 DEF IInv, ClosedAfterDestroyed, Accepted
<1> QED BY <1>6, <1>7, <1>10, <1>11, <1>13, <1>16, <1>17 DEF IInv
\* handleClose() takes the connection to the base loop, or out of the map.
LEMMA HandleCloseInv ==
  ASSUME IInv, NEW c \in Conns, HandleClose(c)
  PROVE  IInv'
<1>0. /\ state_[c] = "kConnected" /\ state_' = [state_ EXCEPT ![c] = "kDisconnected"]
      /\ UNCHANGED <<server, started_, listening, loops_, next_, grown, nextConnId_, ioLoop, destroyed,
                     backlog, clients, open, apc, idleFd_, used, foreign, robbed>>
  BY DEF HandleClose, serverVars, clientVars, fdVars, otherVars
<1>1. ClientInv' /\ CountInv' /\ SpareInv' /\ PoolInv' /\ RoundRobin'
  BY <1>0, DescriptorFrame, PoolFrame
<1>2. ClosedAfterDestroyed'
  <2>1. fault' => ~server'
    BY <1>0 DEF IInv, ClosedAfterDestroyed, HandleClose
  <2> QED BY <1>0, <2>1, ClosedFrame
<1>3. /\ c \in Accepted /\ c \notin destroyed /\ (server => c \in connections_)
      /\ Accepted' = Accepted
  BY <1>0 DEF IInv, StateInv, Accepted
<1>4. /\ state_' \in [Conns -> {"none", "kConnecting", "kConnected", "kDisconnected"}]
      /\ state_'[c] = "kDisconnected" /\ \A d \in Conns : d # c => state_'[d] = state_[d]
  BY <1>0 DEF IInv, TypeOK
<1>5. /\ connections_' \subseteq connections_ /\ \A d \in Conns : d # c /\ d \in connections_ => d \in connections_'
  BY DEF HandleClose, RemoveConnectionInLoop
<1>6. StateInv'
  <2>1. \A d \in Accepted : d \in Conns
    BY AcceptedFacts
  <2> QED BY <1>0, <1>3, <1>4, <1>5, <2>1 DEF IInv, StateInv
<1>7. \A l \in Loops, f \in Functor :
        Has(pendingFunctors_, l, f) => (server => f.c # c) /\ FunctorOK(l, f)'
  <2> SUFFICES ASSUME NEW l \in Loops, NEW f \in Functor, Has(pendingFunctors_, l, f)
               PROVE  (server => f.c # c) /\ FunctorOK(l, f)'
    OBVIOUS
  <2>1. FunctorOK(l, f) /\ (f.op = "listen" <=> f.c = 0) /\ (f.op # "listen" => f.c \in Conns)
    BY FunctorFacts
  <2>2. f.op \in {"listen", "established", "remove", "destroyed"}
    BY DEF Functor
  <2>3. c # 0
    BY <1>3, AcceptedFacts
  <2>4. CASE f.c = c
    <3>1. f.op = "destroyed" /\ c \notin connections_
      BY <1>0, <2>1, <2>2, <2>3, <2>4 DEF FunctorOK
    <3> QED BY <1>0, <1>3, <1>5, <2>1, <2>4, <3>1 DEF FunctorOK
  <2>5. CASE f.c # c
    BY <1>0, <1>3, <1>4, <1>5, <2>1, <2>5 DEF FunctorOK
  <2> QED BY <2>4, <2>5
<1>8. pendingFunctors_ \in Queues /\ Ordered(pendingFunctors_)
  BY DEF IInv, TypeOK, Queues, QueueInv
<1>9. \A d \in Accepted :
        /\ d \in Conns /\ ioLoop[d] \in Loops /\ Bound("established", d) \in Functor
        /\ Bound("destroyed", d) \in Functor /\ Bound("remove", d) \in Functor
        /\ state_'[d] = "kConnecting" => Has(pendingFunctors_, ioLoop[d], Bound("established", d))
        /\ \/ d \in connections_ \/ d \in destroyed
           \/ Has(pendingFunctors_, ioLoop[d], Bound("destroyed", d))
  <2>1. \A d \in Accepted : state_'[d] = "kConnecting" => state_[d] = "kConnecting"
    BY <1>4, AcceptedFacts
  <2> QED BY <2>1, AcceptedFacts DEF IInv, QueueInv
<1>10. pendingFunctors_' \in Queues /\ QueueInv'
  <2>1. CASE UNCHANGED <<connections_, pendingFunctors_>>
    BY <1>0, <1>3, <1>7, <1>8, <1>9, <2>1 DEF QueueInv
  <2>2. ASSUME NEW l \in Loops, NEW f \in Functor, server, f.c = c,
               Appends(pendingFunctors_, pendingFunctors_', l, f), FunctorOK(l, f)',
               c \in connections_' \/ (l = ioLoop[c] /\ f = Bound("destroyed", c))
        PROVE  pendingFunctors_' \in Queues /\ QueueInv'
    <3>1. MayFollow(pendingFunctors_, l, f)
      BY <1>7, <2>2 DEF MayFollow
    <3>2. /\ pendingFunctors_' \in Queues /\ Ordered(pendingFunctors_')
          /\ Gains(pendingFunctors_, pendingFunctors_', l, f)
      BY <1>8, <2>2, <3>1, AppendQueue
    <3>3. \A m \in Loops, g \in Functor : Has(pendingFunctors_', m, g) => FunctorOK(m, g)'
      BY <1>7, <2>2, <3>2 DEF Gains
    <3>4. \A d \in Accepted : state_'[d] = "kConnecting" =>
            Has(pendingFunctors_', ioLoop'[d], Bound("established", d))
      BY <1>0, <1>9, <3>2 DEF Gains
    <3>5. \A d \in Accepted : \/ d \in connections_' \/ d \in destroyed'
                              \/ Has(pendingFunctors_', ioLoop'[d], Bound("destroyed", d))
      BY <1>0, <1>5, <1>9, <2>2, <3>2 DEF Gains
    <3> QED BY <1>3, <3>2, <3>3, <3>4, <3>5 DEF QueueInv
  <2>3. CASE server /\ ioLoop[c] = 0 /\ RemoveConnectionInLoop(c, pendingFunctors_)
    <3> DEFINE f == Bound("destroyed", c)
    <3>1. f \in Functor /\ f.op = "destroyed" /\ f.c = c /\ 0 \in Loops
      BY <1>3, <1>9, <2>3 DEF Bound
    <3>2. c \notin connections_' /\ Appends(pendingFunctors_, pendingFunctors_', 0, f)
      BY <2>3 DEF RemoveConnectionInLoop, Appends
    <3>3. f = Bound("destroyed", c)
      OBVIOUS
    <3> HIDE DEF f
    <3>4. FunctorOK(0, f)'
      BY <1>0, <1>3, <2>3, <3>1, <3>2 DEF FunctorOK
    <3> QED BY <2>2, <2>3, <3>1, <3>2, <3>3, <3>4
  <2>4. CASE server /\ ioLoop[c] # 0 /\ Queued(0, Bound("remove", c)) /\ UNCHANGED connections_
    <3> DEFINE f == Bound("remove", c)
    <3>0. 0 \in Loops
      BY ServerBounds DEF Loops
    <3>1. f \in Functor /\ f.op = "remove" /\ f.c = c /\ 0 \in Loops
      BY <1>3, <1>9, <3>0 DEF Bound
    <3>2. Appends(pendingFunctors_, pendingFunctors_', 0, f)
      BY <2>4 DEF Queued, Appends
    <3> HIDE DEF f
    <3>3. c \in connections_'
      BY <1>3, <2>4
    <3>4. FunctorOK(0, f)'
      BY <1>0, <1>3, <1>4, <2>4, <3>1, <3>3 DEF FunctorOK
    <3> QED BY <2>2, <2>4, <3>1, <3>2, <3>3, <3>4
  <2> QED BY <2>1, <2>3, <2>4 DEF HandleClose
<1>11. fault' \in BOOLEAN
  BY Zenon DEF HandleClose, IInv, TypeOK
<1>12. connections_' \subseteq Conns
  BY <1>5 DEF IInv, TypeOK
<1>13. TypeOK'
  BY <1>0, <1>4, <1>10, <1>11, <1>12 DEF IInv, TypeOK, Queues
<1> QED BY <1>1, <1>2, <1>6, <1>10, <1>13 DEF IInv
\* doPendingFunctors() runs the first functor of a queue.
LEMMA RunFunctorInv ==
  ASSUME IInv, NEW l \in Loops, RunFunctor(l)
  PROVE  IInv'
<1>0. /\ pendingFunctors_[l] # <<>>
      /\ UNCHANGED <<server, started_, loops_, next_, grown, nextConnId_, ioLoop,
                     backlog, clients, open, apc, idleFd_, used, foreign, robbed>>
  BY DEF RunFunctor, clientVars, fdVars, otherVars
<1>1. pendingFunctors_ \in Queues /\ Ordered(pendingFunctors_)
  BY DEF IInv, TypeOK, Queues, QueueInv
<1>2. PICK f \in Functor, r \in Queues :
        /\ f = Head(pendingFunctors_[l]) /\ r = [pendingFunctors_ EXCEPT ![l] = Tail(@)]
        /\ Ordered(r) /\ Has(pendingFunctors_, l, f) /\ Loses(pendingFunctors_, r, l, f)
  <2> DEFINE q2 == [pendingFunctors_ EXCEPT ![l] = Tail(@)]
  <2>1. Drops(pendingFunctors_, q2, l)
    BY DEF Drops
  <2>2. q2 = [pendingFunctors_ EXCEPT ![l] = Tail(@)]
    OBVIOUS
  <2> HIDE DEF q2
  <2>3. /\ q2 \in Queues /\ Ordered(q2) /\ Head(pendingFunctors_[l]) \in Functor
        /\ Has(pendingFunctors_, l, Head(pendingFunctors_[l]))
        /\ Loses(pendingFunctors_, q2, l, Head(pendingFunctors_[l]))
    BY <1>0, <1>1, <2>1, TailQueue
  <2> QED BY <2>2, <2>3
<1>3. /\ FunctorOK(l, f) /\ (f.op # "listen" => f.c \in Accepted /\ f.c \in Conns)
      /\ f.op \in {"listen", "established", "remove", "destroyed"}
  BY <1>2, FunctorFacts DEF Functor
<1>4. /\ ClientInv' /\ CountInv' /\ SpareInv' /\ PoolInv' /\ RoundRobin'
      /\ Accepted' = Accepted
  BY <1>0, DescriptorFrame, PoolFrame DEF Accepted
<1>5. \/ /\ ~server /\ fault' = TRUE
         /\ UNCHANGED <<pendingFunctors_, listening, connections_, state_, destroyed>>
      \/ /\ f.op = "listen" /\ server /\ listening' = TRUE /\ pendingFunctors_' = r
         /\ UNCHANGED <<connections_, state_, destroyed, fault>>
      \/ /\ f.op = "remove" /\ server /\ RemoveConnectionInLoop(f.c, r)
         /\ UNCHANGED <<listening, state_, destroyed, fault>>
      \/ /\ f.op = "established" /\ state_' = [state_ EXCEPT ![f.c] = "kConnected"]
         /\ pendingFunctors_' = r
         /\ UNCHANGED <<listening, connections_, destroyed, fault>>
      \/ /\ f.op = "destroyed" /\ ConnectDestroyed({f.c}) /\ pendingFunctors_' = r
         /\ UNCHANGED <<listening, connections_, fault>>
  BY <1>2 DEF RunFunctor
<1>6. fault' => ~server'
  BY <1>0, <1>5 DEF IInv, ClosedAfterDestroyed
<1>7. fault' \in BOOLEAN /\ listening' \in BOOLEAN
  BY <1>5, Zenon DEF IInv, TypeOK
<1>8. connections_' \subseteq connections_ /\ connections_' \subseteq Conns
  BY <1>5 DEF IInv, TypeOK, RemoveConnectionInLoop
<1>9. ASSUME NEW m \in Loops, NEW g \in Functor, Has(r, m, g)
      PROVE  /\ FunctorOK(m, g) /\ (g.op # "listen" => g.c \in Accepted /\ g.c \in Conns)
             /\ g.op \in {"listen", "established", "remove", "destroyed"}
             /\ m = l /\ g.c = f.c /\ f.op # "listen" => f.op = "established" /\ g.op = "destroyed"
  <2>1. /\ Has(pendingFunctors_, m, g)
        /\ m = l /\ g.c = f.c /\ f.op # "listen" => f.op = "established" /\ g.op = "destroyed"
    BY <1>2, <1>9 DEF Loses
  <2>2. FunctorOK(m, g) /\ (g.op # "listen" => g.c \in Accepted /\ g.c \in Conns)
    BY <2>1, FunctorFacts
  <2> QED BY <2>1, <2>2 DEF Functor
<1>10. ASSUME NEW m \in Loops, NEW g \in Functor, Has(pendingFunctors_, m, g)
       PROVE  Has(r, m, g) \/ (m = l /\ g = f)
  BY <1>2, <1>10 DEF Loses
<1>11. \A d \in Accepted :
         /\ d \in Conns /\ ioLoop[d] \in Loops /\ Bound("established", d) \in Functor
         /\ Bound("destroyed", d) \in Functor
         /\ Bound("established", d).op = "established" /\ Bound("established", d).c = d
         /\ Bound("destroyed", d).op = "destroyed" /\ Bound("destroyed", d).c = d
         /\ state_[d] = "kConnecting" => Has(pendingFunctors_, ioLoop[d], Bound("established", d))
         /\ \/ d \in connections_ \/ d \in destroyed
            \/ Has(pendingFunctors_, ioLoop[d], Bound("destroyed", d))
  BY AcceptedFacts DEF IInv, QueueInv, Bound
<1>12. ASSUME pendingFunctors_' = r, connections_' = connections_, destroyed \subseteq destroyed',
              state_' \in [Conns -> {"none", "kConnecting", "kConnected", "kDisconnected"}],
              destroyed' \subseteq Conns,
              \A d \in Accepted : state_'[d] = "kConnecting" =>
                state_[d] = "kConnecting" /\ f # Bound("established", d),
              \A d \in Accepted : f = Bound("destroyed", d) => d \in destroyed',
              \A m \in Loops, g \in Functor : Has(r, m, g) => FunctorOK(m, g)',
              StateInv'
       PROVE  IInv'
  <2>1. \A d \in Accepted : state_'[d] = "kConnecting" =>
          Has(pendingFunctors_', ioLoop'[d], Bound("established", d))
    BY <1>0, <1>10, <1>11, <1>12
  <2>2. \A d \in Accepted : \/ d \in connections_' \/ d \in destroyed'
                            \/ Has(pendingFunctors_', ioLoop'[d], Bound("destroyed", d))
    BY <1>0, <1>10, <1>11, <1>12
  <2>3. QueueInv'
    BY <1>2, <1>4, <1>12, <2>1, <2>2 DEF QueueInv
  <2>4. TypeOK'
    BY <1>0, <1>2, <1>7, <1>8, <1>12 DEF IInv, TypeOK, Queues
  <2>5. ClosedAfterDestroyed'
    BY <1>0, <1>6, <1>12, ClosedFrame
  <2> QED BY <1>4, <1>12, <2>3, <2>4, <2>5 DEF IInv
<1>13. CASE /\ ~server /\ fault' = TRUE
            /\ UNCHANGED <<pendingFunctors_, listening, connections_, state_, destroyed>>
  <2>1. StateInv' /\ QueueInv' /\ ClosedAfterDestroyed'
    BY <1>0, <1>6, <1>13, ConnectionFrame, ClosedFrame
  <2>2. TypeOK'
    BY <1>0, <1>7, <1>13 DEF IInv, TypeOK
  <2> QED BY <1>4, <2>1, <2>2 DEF IInv
<1>14. CASE /\ f.op = "listen" /\ server /\ listening' = TRUE /\ pendingFunctors_' = r
            /\ UNCHANGED <<connections_, state_, destroyed, fault>>
  <2>1. StateInv'
    BY <1>0, <1>4, <1>14 DEF IInv, StateInv
  <2>2. \A m \in Loops, g \in Functor : Has(r, m, g) => FunctorOK(m, g)'
    BY <1>0, <1>4, <1>9, <1>14 DEF FunctorOK
  <2>3. \A d \in Accepted : f # Bound("established", d) /\ f # Bound("destroyed", d)
    BY <1>14 DEF Bound
  <2>4. /\ state_' \in [Conns -> {"none", "kConnecting", "kConnected", "kDisconnected"}]
        /\ destroyed' \subseteq Conns
    BY <1>14 DEF IInv, TypeOK
  <2> QED BY <1>12, <1>14, <2>1, <2>2, <2>3, <2>4
<1>15. CASE /\ f.op = "remove" /\ server /\ RemoveConnectionInLoop(f.c, r)
            /\ UNCHANGED <<listening, state_, destroyed, fault>>
  <2>1. PICK c \in Accepted, k \in Loops : c = f.c /\ c \in Conns /\ k = ioLoop[c]
    BY <1>3, <1>11, <1>15
  <2> DEFINE h == Bound("destroyed", c)
  <2>2. /\ l = 0 /\ k # 0 /\ state_[c] = "kDisconnected" /\ c \in connections_ /\ c \notin destroyed
        /\ connections_' = connections_ \ {c} /\ Appends(r, pendingFunctors_', k, h)
        /\ h \in Functor /\ h.op = "destroyed" /\ h.c = c
    BY <1>3, <1>11, <1>15, <2>1 DEF FunctorOK, RemoveConnectionInLoop, Appends, IInv, StateInv
  <2>3. h = Bound("destroyed", c)
    OBVIOUS
  <2> HIDE DEF h
  <2>4. \A m \in Loops, g \in Functor :
          Has(r, m, g) /\ g.op # "listen" => g.c # c
    <3> SUFFICES ASSUME NEW m \in Loops, NEW g \in Functor, Has(r, m, g), g.op # "listen", g.c = c
                 PROVE  FALSE
      OBVIOUS
    <3>1. g.op = "remove" /\ m = 0
      BY <1>9, <2>2 DEF FunctorOK
    <3> QED BY <1>9, <1>15, <2>1, <2>2, <3>1
  <2>5. MayFollow(r, k, h)
    BY <2>2, <2>4 DEF MayFollow
  <2>6. pendingFunctors_' \in Queues /\ Ordered(pendingFunctors_') /\ Gains(r, pendingFunctors_', k, h)
    BY <1>2, <2>2, <2>5, AppendQueue
  <2>7. \A m \in Loops, g \in Functor : Has(r, m, g) => FunctorOK(m, g)'
    <3> SUFFICES ASSUME NEW m \in Loops, NEW g \in Functor, Has(r, m, g)
                 PROVE  FunctorOK(m, g)'
      OBVIOUS
    <3>1. FunctorOK(m, g) /\ (g.op # "listen" => g.c # c)
      BY <1>9, <2>4
    <3> QED BY <1>0, <1>4, <1>15, <2>2, <3>1 DEF FunctorOK
  <2>8. FunctorOK(k, h)'
    BY <1>0, <1>4, <1>15, <2>1, <2>2 DEF FunctorOK
  <2>9. \A m \in Loops, g \in Functor : Has(pendingFunctors_', m, g) => FunctorOK(m, g)'
    BY <2>6, <2>7, <2>8 DEF Gains
  <2>10. \A d \in Accepted : f # Bound("established", d) /\ f # Bound("destroyed", d)
    BY <1>15 DEF Bound
  <2>11. \A d \in Accepted : state_'[d] = "kConnecting" =>
           Has(pendingFunctors_', ioLoop'[d], Bound("established", d))
    BY <1>0, <1>10, <1>11, <1>15, <2>6, <2>10 DEF Gains
  <2>12. \A d \in Accepted : \/ d \in connections_' \/ d \in destroyed'
                             \/ Has(pendingFunctors_', ioLoop'[d], Bound("destroyed", d))
    <3> SUFFICES ASSUME NEW d \in Accepted
                 PROVE  \/ d \in connections_' \/ d \in destroyed'
                        \/ Has(pendingFunctors_', ioLoop'[d], Bound("destroyed", d))
      OBVIOUS
    <3>1. CASE d = c
      BY <1>0, <2>1, <2>2, <2>3, <2>6, <3>1 DEF Gains
    <3>2. CASE d # c
      BY <1>0, <1>10, <1>11, <1>15, <2>2, <2>6, <2>10, <3>2 DEF Gains
    <3> QED BY <3>1, <3>2
  <2>13. QueueInv'
    BY <1>4, <2>6, <2>9, <2>11, <2>12 DEF QueueInv
  <2>14. StateInv'
    BY <1>0, <1>4, <1>15, <2>2 DEF IInv, StateInv
  <2>15. TypeOK'
    BY <1>0, <1>7, <1>8, <1>15, <2>6 DEF IInv, TypeOK, Queues
  <2>16. ClosedAfterDestroyed'
    BY <1>0, <1>6, <1>15, ClosedFrame
  <2> QED BY <1>4, <2>13, <2>14, <2>15, <2>16 DEF IInv
<1>16. CASE /\ f.op = "established" /\ state_' = [state_ EXCEPT ![f.c] = "kConnected"]
            /\ pendingFunctors_' = r
            /\ UNCHANGED <<listening, connections_, destroyed, fault>>
  <2>1. PICK c \in Accepted : c = f.c /\ c \in Conns
    BY <1>3, <1>16
  <2>2. /\ ioLoop[c] = l /\ state_[c] = "kConnecting" /\ c \notin destroyed
    BY <1>3, <1>16, <2>1 DEF FunctorOK, IInv, StateInv
  <2>3. /\ state_' \in [Conns -> {"none", "kConnecting", "kConnected", "kDisconnected"}]
        /\ state_'[c] = "kConnected" /\ \A d \in Conns : d # c => state_'[d] = state_[d]
        /\ destroyed' \subseteq Conns
    BY <1>16, <2>1 DEF IInv, TypeOK
  <2>4. StateInv'
    BY <1>0, <1>4, <1>11, <1>16, <2>2, <2>3 DEF IInv, StateInv
  <2>5. \A m \in Loops, g \in Functor : Has(r, m, g) => FunctorOK(m, g)'
    <3> SUFFICES ASSUME NEW m \in Loops, NEW g \in Functor, Has(r, m, g)
                 PROVE  FunctorOK(m, g)'
      OBVIOUS
    <3>1. FunctorOK(m, g) /\ (g.op # "listen" => g.c \in Conns)
      BY <1>9
    <3>2. CASE g.op # "listen" /\ g.c = c
      <4>1. g.op = "destroyed"
        BY <1>9, <1>16, <2>1, <2>2, <3>2 DEF FunctorOK
      <4> QED BY <1>0, <1>4, <1>16, <3>1, <4>1 DEF FunctorOK
    <3>3. CASE g.op # "listen" => g.c # c
      BY <1>0, <1>4, <1>16, <2>3, <3>1, <3>3 DEF FunctorOK
    <3> QED BY <3>2, <3>3
  <2>6. \A d \in Accepted : state_'[d] = "kConnecting" =>
          state_[d] = "kConnecting" /\ f # Bound("established", d)
    BY <1>11, <2>1, <2>3
  <2>7. \A d \in Accepted : f # Bound("destroyed", d)
    BY <1>16 DEF Bound
  <2> QED BY <1>12, <1>16, <2>3, <2>4, <2>5, <2>6, <2>7
<1>17. CASE /\ f.op = "destroyed" /\ ConnectDestroyed({f.c}) /\ pendingFunctors_' = r
            /\ UNCHANGED <<listening, connections_, fault>>
  <2>1. PICK c \in Accepted : c = f.c /\ c \in Conns
    BY <1>3, <1>17
  <2>2. /\ ioLoop[c] = l /\ c \notin connections_ /\ destroyed' = destroyed \cup {c}
    BY <1>3, <1>17, <2>1 DEF FunctorOK, ConnectDestroyed
  <2>3. /\ state_' \in [Conns -> {"none", "kConnecting", "kConnected", "kDisconnected"}]
        /\ state_'[c] = "kDisconnected" /\ \A d \in Conns : d # c => state_'[d] = state_[d]
        /\ destroyed' \subseteq Conns
    BY <1>17, <2>1 DEF IInv, TypeOK, ConnectDestroyed
  <2>4. StateInv'
    <3>1. \A d \in Accepted : d \in Conns
      BY <1>11
    <3> QED BY <1>0, <1>4, <1>17, <2>2, <2>3, <3>1 DEF IInv, StateInv
  <2>5. \A m \in Loops, g \in Functor : Has(r, m, g) => FunctorOK(m, g)'
    <3> SUFFICES ASSUME NEW m \in Loops, NEW g \in Functor, Has(r, m, g)
                 PROVE  FunctorOK(m, g)'
      OBVIOUS
    <3>1. FunctorOK(m, g) /\ (g.op # "listen" => g.c \in Conns)
      BY <1>9
    <3>2. CASE g.op # "listen" /\ g.c = c
      <4>1. g.op = "remove"
        BY <1>9, <1>17, <2>1, <2>2, <3>2 DEF FunctorOK
      <4> QED BY <1>0, <1>4, <1>17, <2>1, <2>3, <3>1, <3>2, <4>1 DEF FunctorOK
    <3>3. CASE g.op # "listen" => g.c # c
      BY <1>0, <1>4, <1>17, <2>2, <2>3, <3>1, <3>3 DEF FunctorOK
    <3> QED BY <3>2, <3>3
  <2>6. \A d \in Accepted : state_'[d] = "kConnecting" =>
          state_[d] = "kConnecting" /\ f # Bound("established", d)
    BY <1>11, <2>1, <2>3
  <2>7. \A d \in Accepted : f = Bound("destroyed", d) => d \in destroyed'
    BY <1>11, <2>1, <2>2
  <2>8. connections_' = connections_ /\ destroyed \subseteq destroyed' /\ pendingFunctors_' = r
    BY <1>17, <2>2
  <2> QED BY <1>12, <2>3, <2>4, <2>5, <2>6, <2>7, <2>8
<1> QED BY <1>5, <1>13, <1>14, <1>15, <1>16, <1>17
\* ~TcpServer() destroys the connections of its own loop and queues
\* connectDestroyed() for the others.
LEMMA DestroyServerInv ==
  ASSUME IInv, DestroyServer
  PROVE  IInv'
<1> DEFINE Own == {c \in connections_ : ioLoop[c] = 0}
           Of(k) == {c \in connections_ : ioLoop[c] = k /\ k # 0}
           S == [k \in Loops |-> Of(k)]
<1>0. /\ apc = "loop" /\ server /\ server' = FALSE /\ listening' = FALSE /\ backlog' = 0
      /\ connections_' = {} /\ ConnectDestroyed(Own)
      /\ UNCHANGED <<started_, loops_, next_, grown, nextConnId_, ioLoop, clients, open, apc, idleFd_,
                     used, foreign, robbed, fault>>
  BY ServerBounds DEF DestroyServer, DestroyAcceptor, InLoop, fdVars, otherVars
<1>1. PICK orders : /\ Iterates(orders, S)
                    /\ QueuesDestroyed(pendingFunctors_, pendingFunctors_', orders)
  <2>1. PICK orders : /\ \A k \in Loops : orders[k] \in Orders(Of(k))
                      /\ QueuesDestroyed(pendingFunctors_, pendingFunctors_', orders)
    BY Zenon DEF DestroyServer, QueuesDestroyed
  <2>2. \A k \in Loops : S[k] = Of(k)
    OBVIOUS
  <2> HIDE DEF Of, S
  <2> QED BY <2>1, <2>2 DEF Iterates
<1>2. pendingFunctors_ \in Queues /\ Ordered(pendingFunctors_) /\ S \in [Loops -> SUBSET Conns]
  BY DEF IInv, TypeOK, Queues, QueueInv
<1>3. \A d \in Accepted :
         /\ d \in Conns /\ ioLoop[d] \in Loops /\ Bound("established", d) \in Functor
         /\ Bound("destroyed", d) \in Functor
         /\ Bound("destroyed", d).op = "destroyed" /\ Bound("destroyed", d).c = d
         /\ state_[d] = "kConnecting" => Has(pendingFunctors_, ioLoop[d], Bound("established", d))
         /\ \/ d \in connections_ \/ d \in destroyed
            \/ Has(pendingFunctors_, ioLoop[d], Bound("destroyed", d))
  BY AcceptedFacts DEF IInv, QueueInv, Bound
<1>4. \A k \in Loops : \A c \in S[k] : c \in connections_ /\ ioLoop[c] = k /\ k # 0
  OBVIOUS
<1>5. \A c \in connections_ : c \in Own \/ c \in S[ioLoop[c]]
  BY <1>3 DEF IInv, StateInv
<1>6. \A c \in Own : c \in connections_ /\ ioLoop[c] = 0
  OBVIOUS
<1> HIDE DEF Own, S
<1>7. MayEnd(pendingFunctors_, S)
  <2> SUFFICES ASSUME NEW k \in Loops, NEW g \in Functor, Has(pendingFunctors_, k, g),
                      g.op # "listen", g.c \in S[k]
               PROVE  g.op = "established"
    BY DEF MayEnd
  <2>1. FunctorOK(k, g) /\ g.op \in {"established", "remove", "destroyed"}
    BY FunctorFacts DEF Functor
  <2> QED BY <1>4, <2>1 DEF FunctorOK
<1>8. /\ pendingFunctors_' \in Queues /\ Ordered(pendingFunctors_')
      /\ \A m \in Loops, g \in Functor :
           Has(pendingFunctors_', m, g)
             <=> Has(pendingFunctors_, m, g) \/ \E c \in S[m] : g = Bound("destroyed", c)
  <2>1. /\ pendingFunctors_' \in Queues /\ Ordered(pendingFunctors_')
        /\ GainsDestroyed(pendingFunctors_, pendingFunctors_', S)
    BY <1>1, <1>2, <1>7, ConcatQueue
  <2> QED BY <2>1 DEF GainsDestroyed
<1>9. Accepted' = Accepted
  BY <1>0 DEF Accepted
<1>10. /\ state_' \in [Conns -> {"none", "kConnecting", "kConnected", "kDisconnected"}]
       /\ destroyed' = destroyed \cup Own /\ destroyed' \subseteq Conns
       /\ \A d \in Conns : state_'[d] = IF d \in Own THEN "kDisconnected" ELSE state_[d]
  BY <1>0, <1>6 DEF IInv, TypeOK, ConnectDestroyed
<1>11. \A m \in Loops, g \in Functor : Has(pendingFunctors_', m, g) => FunctorOK(m, g)'
  <2> SUFFICES ASSUME NEW m \in Loops, NEW g \in Functor, Has(pendingFunctors_', m, g)
               PROVE  FunctorOK(m, g)'
    OBVIOUS
  <2>1. CASE Has(pendingFunctors_, m, g)
    <3>1. FunctorOK(m, g) /\ (g.op # "listen" => g.c \in Accepted /\ g.c \in Conns)
      BY <2>1, FunctorFacts
    <3>2. g.op = "established" => state_'[g.c] = "kConnecting"
      BY <1>6, <1>10, <3>1 DEF FunctorOK
    <3>3. g.op = "remove" => state_'[g.c] = "kDisconnected"
      BY <1>10, <3>1 DEF FunctorOK
    <3>4. g.op = "destroyed" => g.c \notin destroyed'
      BY <1>6, <1>10, <3>1 DEF FunctorOK
    <3> QED BY <1>0, <1>9, <3>1, <3>2, <3>3, <3>4 DEF FunctorOK
  <2>2. CASE \E c \in S[m] : g = Bound("destroyed", c)
    <3>1. PICK c \in S[m] : g = Bound("destroyed", c)
      BY <2>2
    <3>2. c \in connections_ /\ ioLoop[c] = m /\ m # 0 /\ c \in Accepted /\ c \notin destroyed
      BY <1>4 DEF IInv, StateInv
    <3>3. g.op = "destroyed" /\ g.c = c
      BY <1>3, <3>1, <3>2
    <3>4. c \notin destroyed'
      BY <1>6, <1>10, <3>2
    <3> QED BY <1>0, <1>9, <3>2, <3>3, <3>4 DEF FunctorOK
  <2> QED BY <1>8, <2>1, <2>2
<1>12. \A d \in Accepted : state_'[d] = "kConnecting" =>
         Has(pendingFunctors_', ioLoop'[d], Bound("established", d))
  BY <1>0, <1>3, <1>8, <1>10
<1>13. \A d \in Accepted : \/ d \in connections_' \/ d \in destroyed'
                           \/ Has(pendingFunctors_', ioLoop'[d], Bound("destroyed", d))
  BY <1>0, <1>3, <1>5, <1>8, <1>10
<1>14. QueueInv'
  BY <1>8, <1>9, <1>11, <1>12, <1>13 DEF QueueInv
<1>15. StateInv'
  <2>1. Own \subseteq Accepted
    BY <1>6 DEF IInv, StateInv
  <2> QED BY <1>0, <1>3, <1>9, <1>10, <2>1 DEF IInv, StateInv
<1>16. PoolInv' /\ RoundRobin'
  BY <1>0, PoolFrame
<1>17. ClosedAfterDestroyed'
  BY <1>0, <1>10, ClosedFrame
<1>18. ClientInv'
  BY <1>0, Numbers DEF IInv, ClientInv
<1>19. CountInv' /\ SpareInv'
  BY <1>0 DEF IInv, CountInv, SpareInv
<1>20. server' \in BOOLEAN /\ listening' \in BOOLEAN
  BY <1>0, Zenon
<1>21. TypeOK'
  BY <1>0, <1>8, <1>10, <1>20, ServerBounds DEF IInv, TypeOK, Queues
<1> QED BY <1>14, <1>15, <1>16, <1>17, <1>18, <1>19, <1>21 DEF IInv

-----------------------------------------------------------------------------
(***************************************************************************)
(* The theorems.                                                           *)
(***************************************************************************)

\* Every step preserves the invariant.
LEMMA NextInv == IInv /\ [Next]_vars => IInv'
<1> SUFFICES ASSUME IInv, [Next]_vars PROVE IInv'
  OBVIOUS
<1>1. CASE UNCHANGED vars
  <2>1. UNCHANGED <<server, started_, listening, loops_, next_, grown, nextConnId_, connections_,
                    pendingFunctors_, state_, ioLoop, destroyed, backlog, clients, open, apc,
                    idleFd_, used, foreign, robbed, fault>>
    BY <1>1 DEF vars, serverVars, connVars, clientVars, fdVars, otherVars
  <2>2. fault' => ~server'
    BY <2>1 DEF IInv, ClosedAfterDestroyed
  <2>3. TypeOK'
    BY <2>1 DEF IInv, TypeOK
  <2> QED BY <2>1, <2>2, <2>3, DescriptorFrame, PoolFrame, ConnectionFrame, ClosedFrame DEF IInv
<1>2. CASE Start
  BY <1>2, StartInv
<1>3. CASE DestroyServer
  BY <1>3, DestroyServerInv
<1>4. CASE AcceptorStep
  BY <1>4, HandleReadInv, EmfileInv DEF AcceptorStep
<1>5. CASE \E n \in 1 .. MaxThreads : StartPool(n)
  BY <1>5, StartPoolInv
<1>6. CASE ClientConnects \/ ForeignOpen \/ ForeignClose
  BY <1>6, OutsideInv
<1>7. CASE \E c \in Conns : HandleClose(c) \/ FreeConnection(c)
  BY <1>7, HandleCloseInv, FreeInv
<1>8. CASE \E l \in Loops : RunFunctor(l)
  BY <1>8, RunFunctorInv
<1> QED BY <1>1, <1>2, <1>3, <1>4, <1>5, <1>6, <1>7, <1>8 DEF Next

\* The invariant holds in every behaviour.
LEMMA Inductive == Spec => []IInv
BY InitInv, NextInv, PTL DEF Spec

\* No descriptor leaks and none is closed twice, whichever call of handleRead()
\* fails; back in its loop the Acceptor has idleFd_ again.
THEOREM ServerDescriptorsAccounted == Spec => []DescriptorsAccounted
<1>1. IInv => DescriptorsAccounted
  BY DEF IInv, CountInv, SpareInv, DescriptorsAccounted
<1> QED BY <1>1, Inductive, PTL

\* getNextLoop() spreads the connections evenly over the loops.
THEOREM ServerRoundRobin == Spec => []RoundRobin
<1>1. IInv => RoundRobin
  BY DEF IInv
<1> QED BY <1>1, Inductive, PTL

\* A socket is closed only after connectDestroyed(); the dead server is used
\* only after ~TcpServer().
THEOREM ServerClosedAfterDestroyed == Spec => []ClosedAfterDestroyed
<1>1. IInv => ClosedAfterDestroyed
  BY DEF IInv
<1> QED BY <1>1, Inductive, PTL
-----------------------------------------------------------------------------
(***************************************************************************)
(* The refinement: connections live as ConnectionLife says.                *)
(***************************************************************************)

\* Phase, case by case.
LEMMA PhaseFacts ==
  ASSUME TypeOK, NEW c \in Conns
  PROVE  Phase[c] = IF c \in destroyed THEN "gone"
                    ELSE IF state_[c] = "none" THEN "none"
                    ELSE IF state_[c] = "kConnecting" THEN "connecting"
                    ELSE IF state_[c] = "kConnected" THEN "up" ELSE "down"
BY DEF Phase, PhaseOf, TypeOK

\* The same after a step.
LEMMA NextPhaseFacts ==
  ASSUME TypeOK', NEW c \in Conns
  PROVE  Phase'[c] = IF c \in destroyed' THEN "gone"
                     ELSE IF state_'[c] = "none" THEN "none"
                     ELSE IF state_'[c] = "kConnecting" THEN "connecting"
                     ELSE IF state_'[c] = "kConnected" THEN "up" ELSE "down"
BY DEF Phase, PhaseOf, TypeOK

\* A step that leaves all but one connection where they are.
LEMMA PhaseMoves ==
  ASSUME NEW c \in Conns,
         \A d \in Conns : d # c => state_'[d] = state_[d] /\ (d \in destroyed' <=> d \in destroyed)
  PROVE  Phase' = [Phase EXCEPT ![c] = Phase'[c]]
<1>1. \A d \in Conns : d # c => Phase'[d] = Phase[d]
  BY DEF Phase
<1>2. /\ Phase' = [d \in Conns |-> Phase'[d]]
      /\ Phase = [d \in Conns |-> Phase[d]]
  BY DEF Phase
<1> HIDE DEF Phase
<1> QED BY <1>1, <1>2

\* Steps that no connection takes part in.
LEMMA LifeStutters ==
  ASSUME UNCHANGED <<connections_, state_, destroyed, server>>
  PROVE  UNCHANGED Life!vars
BY DEF Life!vars, Phase

\* A step that moves one connection from a phase to another.
LEMMA LifeMoves ==
  ASSUME TypeOK, TypeOK', NEW c \in Conns, NEW from, Phase[c] \in from, NEW to, Phase'[c] = to,
         \A d \in Conns : d # c => state_'[d] = state_[d] /\ (d \in destroyed' <=> d \in destroyed)
  PROVE  Life!Moves(c, from, to)
BY PhaseMoves DEF Life!Moves

\* A new server's connections have no life yet.
LEMMA LifeInit == Init => Life!Init
<1> SUFFICES ASSUME Init PROVE Life!Init
  OBVIOUS
<1>1. /\ connections_ = {} /\ destroyed = {} /\ server = TRUE
      /\ \A c \in Conns : state_[c] = "none"
  BY DEF Init
<1>2. TypeOK
  BY InitInv DEF IInv
<1>3. \A c \in Conns : Phase[c] = "none"
  BY <1>1, <1>2, PhaseFacts
<1>4. Phase \in [Conns -> {"none", "connecting", "up"}]
  BY <1>3 DEF Phase
<1> QED BY <1>1, <1>3, <1>4 DEF Life!Init

\* newConnection() accepts a connection.
LEMMA HandleReadLife ==
  ASSUME IInv, IInv', HandleRead
  PROVE  Life!Next
<1>1. nextConnId_ \in Conns /\ nextConnId_ \notin Accepted
  <2>1. backlog > 0 /\ nextConnId_ + backlog <= clients + 1
    BY DEF IInv, ClientInv, HandleRead, Readable
  <2> QED BY <2>1, Numbers DEF Conns, Accepted
<1>2. PICK c \in Conns : c = nextConnId_
  BY <1>1
<1>3. TypeOK /\ TypeOK' /\ c \notin destroyed /\ state_[c] = "none"
  BY <1>1, <1>2 DEF IInv, StateInv
<1>4. /\ connections_' = connections_ \cup {c} /\ destroyed' = destroyed /\ server' = server
      /\ state_' = [state_ EXCEPT ![c] = "kConnected"] \/ state_' = [state_ EXCEPT ![c] = "kConnecting"]
  BY <1>2 DEF HandleRead
<1>5. /\ state_'[c] = "kConnected" \/ state_'[c] = "kConnecting"
      /\ \A d \in Conns : d # c => state_'[d] = state_[d] /\ (d \in destroyed' <=> d \in destroyed)
  BY <1>3, <1>4 DEF TypeOK
<1>6. Phase[c] = "none" /\ (Phase'[c] = "connecting" \/ Phase'[c] = "up")
  BY <1>3, <1>4, <1>5, PhaseFacts, NextPhaseFacts
<1>7. Life!Moves(c, {"none"}, "connecting") \/ Life!Moves(c, {"none"}, "up")
  BY <1>3, <1>5, <1>6, LifeMoves
<1>8. server
  BY DEF HandleRead, Readable, IInv, StateInv
<1> QED BY <1>4, <1>7, <1>8 DEF Life!Accept, Life!Next

\* handleClose() closes it.
LEMMA HandleCloseLife ==
  ASSUME IInv, IInv', NEW c \in Conns, HandleClose(c)
  PROVE  Life!Next
<1>1. /\ state_[c] = "kConnected" /\ state_' = [state_ EXCEPT ![c] = "kDisconnected"]
      /\ destroyed' = destroyed /\ connections_' \in {connections_, connections_ \ {c}}
      /\ server' = server
  BY DEF HandleClose, RemoveConnectionInLoop, serverVars
<1>2. TypeOK /\ TypeOK' /\ c \notin destroyed
  BY <1>1 DEF IInv, StateInv
<1>3. /\ state_'[c] = "kDisconnected"
      /\ \A d \in Conns : d # c => state_'[d] = state_[d] /\ (d \in destroyed' <=> d \in destroyed)
  BY <1>1, <1>2 DEF TypeOK
<1>4. Phase[c] = "up" /\ Phase'[c] = "down"
  BY <1>1, <1>2, <1>3, PhaseFacts, NextPhaseFacts
<1>5. Life!Moves(c, {"up"}, "down")
  BY <1>2, <1>3, <1>4, LifeMoves
<1> QED BY <1>1, <1>5 DEF Life!Close, Life!Next

\* The functors establish, forget and destroy a connection.
LEMMA RunFunctorLife ==
  ASSUME IInv, IInv', NEW l \in Loops, RunFunctor(l)
  PROVE  Life!Next \/ UNCHANGED Life!vars
<1>0. pendingFunctors_[l] # <<>> /\ TypeOK /\ TypeOK'
  BY DEF RunFunctor, IInv
<1>1. PICK f \in Functor, r \in Queues :
        /\ f = Head(pendingFunctors_[l]) /\ r = [pendingFunctors_ EXCEPT ![l] = Tail(@)]
        /\ Has(pendingFunctors_, l, f) /\ Loses(pendingFunctors_, r, l, f)
  <2> DEFINE q2 == [pendingFunctors_ EXCEPT ![l] = Tail(@)]
  <2>1. Drops(pendingFunctors_, q2, l)
    BY DEF Drops
  <2>2. q2 = [pendingFunctors_ EXCEPT ![l] = Tail(@)]
    OBVIOUS
  <2> HIDE DEF q2
  <2>3. pendingFunctors_ \in Queues /\ Ordered(pendingFunctors_)
    BY DEF IInv, TypeOK, Queues, QueueInv
  <2>4. /\ q2 \in Queues /\ Head(pendingFunctors_[l]) \in Functor
        /\ Has(pendingFunctors_, l, Head(pendingFunctors_[l]))
        /\ Loses(pendingFunctors_, q2, l, Head(pendingFunctors_[l]))
    BY <1>0, <2>1, <2>3, TailQueue
  <2> QED BY <2>2, <2>4
<1>2. FunctorOK(l, f) /\ (f.op # "listen" => f.c \in Accepted /\ f.c \in Conns)
  BY <1>1, FunctorFacts
<1>7. server' = server
  BY DEF RunFunctor
<1>3. CASE UNCHANGED <<connections_, state_, destroyed>>
  BY <1>3, <1>7, LifeStutters
<1>4. CASE /\ f.op = "remove" /\ server /\ RemoveConnectionInLoop(f.c, r)
           /\ UNCHANGED <<state_, destroyed>>
  <2>1. PICK c \in Conns : c = f.c /\ c \in connections_ /\ state_[c] = "kDisconnected"
    BY <1>2, <1>4 DEF FunctorOK
  <2>2. c \notin destroyed /\ connections_' = connections_ \ {c}
    BY <1>4, <2>1 DEF IInv, StateInv, RemoveConnectionInLoop
  <2>3. Phase[c] = "down"
    BY <1>0, <2>1, <2>2, PhaseFacts
  <2>4. UNCHANGED Phase
    BY <1>4 DEF Phase
  <2> QED BY <1>4, <1>7, <2>1, <2>2, <2>3, <2>4 DEF Life!Forget, Life!Next
<1>5. CASE /\ f.op = "established" /\ state_' = [state_ EXCEPT ![f.c] = "kConnected"]
           /\ UNCHANGED <<connections_, destroyed>>
  <2>1. PICK c \in Conns : c = f.c /\ state_[c] = "kConnecting"
    BY <1>2, <1>5 DEF FunctorOK
  <2>2. c \notin destroyed
    BY <2>1 DEF IInv, StateInv
  <2>3. /\ state_'[c] = "kConnected"
        /\ \A d \in Conns : d # c => state_'[d] = state_[d] /\ (d \in destroyed' <=> d \in destroyed)
    BY <1>0, <1>5, <2>1 DEF TypeOK
  <2>4. Phase[c] = "connecting" /\ Phase'[c] = "up"
    BY <1>0, <1>5, <2>1, <2>2, <2>3, PhaseFacts, NextPhaseFacts
  <2>5. Life!Moves(c, {"connecting"}, "up")
    BY <1>0, <2>3, <2>4, LifeMoves
  <2> QED BY <1>5, <1>7, <2>5 DEF Life!Establish, Life!Next
<1>6. CASE f.op = "destroyed" /\ ConnectDestroyed({f.c}) /\ UNCHANGED connections_
  <2>1. PICK c \in Conns : c = f.c /\ c \in Accepted /\ ioLoop[c] = l /\ c \notin connections_
                           /\ c \notin destroyed
    BY <1>2, <1>6 DEF FunctorOK
  <2>2. state_[c] # "none" /\ state_[c] # "kConnecting"
    <3>1. state_[c] # "none"
      BY <2>1 DEF IInv, StateInv
    <3>2. ASSUME state_[c] = "kConnecting" PROVE FALSE
      <4> DEFINE g == Bound("established", c)
      <4>1. g \in Functor /\ g.op = "established" /\ g.c = c
        BY <2>1, AcceptedFacts DEF Bound
      <4>2. Has(pendingFunctors_, l, g)
        BY <2>1, <3>2 DEF IInv, QueueInv
      <4> HIDE DEF g
      <4>3. Has(r, l, g)
        BY <1>1, <1>6, <4>1, <4>2 DEF Loses
      <4> QED BY <1>1, <1>6, <2>1, <4>1, <4>3 DEF Loses
    <3> QED BY <3>1, <3>2
  <2>3. /\ c \in destroyed'
        /\ \A d \in Conns : d # c => state_'[d] = state_[d] /\ (d \in destroyed' <=> d \in destroyed)
    BY <1>6, <2>1 DEF ConnectDestroyed
  <2>4. Phase[c] \in {"up", "down"} /\ Phase'[c] = "gone"
    BY <1>0, <2>1, <2>2, <2>3, PhaseFacts, NextPhaseFacts
  <2>5. Life!Moves(c, {"up", "down"}, "gone")
    BY <1>0, <2>3, <2>4, LifeMoves
  <2> QED BY <1>6, <1>7, <2>1, <2>5 DEF Life!Destroy, Life!Next
<1> QED BY <1>1, <1>3, <1>4, <1>5, <1>6 DEF RunFunctor

\* ~TcpServer() ends all.
LEMMA DestroyServerLife ==
  ASSUME IInv, IInv', DestroyServer
  PROVE  Life!Next
<1> DEFINE Own == {c \in connections_ : ioLoop[c] = 0}
<1>1. /\ connections_' = {} /\ ConnectDestroyed(Own) /\ TypeOK /\ TypeOK'
      /\ server /\ server' = FALSE
  BY DEF DestroyServer, IInv
<1>2. \A c \in Own : c \in connections_ /\ ioLoop[c] = 0
  OBVIOUS
<1> HIDE DEF Own
<1>3. \A c \in Own : Phase[c] \in {"up", "down"}
  <2> TAKE c \in Own
  <2>1. /\ c \in connections_ /\ ioLoop[c] = 0 /\ c \in Accepted /\ c \notin destroyed
        /\ state_[c] # "none"
    BY <1>2 DEF IInv, StateInv
  <2>2. ASSUME state_[c] = "kConnecting" PROVE FALSE
    <3>1. /\ 0 \in Loops /\ Bound("established", c) \in Functor
          /\ Bound("established", c).op = "established" /\ Bound("established", c).c = c
      BY <2>1, AcceptedFacts DEF Bound
    <3>2. Has(pendingFunctors_, 0, Bound("established", c))
      BY <2>1, <2>2 DEF IInv, QueueInv
    <3> QED BY <2>1, <3>1, <3>2, FunctorFacts DEF FunctorOK
  <2> QED BY <1>1, <2>1, <2>2, AcceptedFacts, PhaseFacts
<1>4. Phase' = [c \in Conns |-> IF c \in Own THEN "gone" ELSE Phase[c]]
  BY <1>1 DEF ConnectDestroyed, Phase
<1>5. Own \in SUBSET connections_
  BY <1>2
<1> QED BY <1>1, <1>3, <1>4, <1>5 DEF Life!EndServer, Life!Next

\* Every step of the server is a step of a connection's life, or none.
LEMMA LifeNext == IInv /\ IInv' /\ [Next]_vars => [Life!Next]_(Life!vars)
<1> SUFFICES ASSUME IInv, IInv', [Next]_vars PROVE Life!Next \/ UNCHANGED Life!vars
  OBVIOUS
<1>1. CASE UNCHANGED <<connections_, state_, destroyed, server>>
  BY <1>1, LifeStutters
<1>2. CASE HandleRead
  BY <1>2, HandleReadLife
<1>3. CASE DestroyServer
  BY <1>3, DestroyServerLife
<1>4. CASE \E c \in Conns : HandleClose(c)
  BY <1>4, HandleCloseLife
<1>5. CASE \E l \in Loops : RunFunctor(l)
  BY <1>5, RunFunctorLife
<1>6. CASE UNCHANGED vars
  BY <1>1, <1>6 DEF vars, connVars, serverVars
<1>7. CASE Start \/ ClientConnects \/ ForeignOpen \/ ForeignClose
           \/ (\E n \in 1 .. MaxThreads : StartPool(n)) \/ (\E c \in Conns : FreeConnection(c))
  BY <1>1, <1>7 DEF Start, ClientConnects, ForeignOpen, ForeignClose, StartPool, FreeConnection,
                     connVars, serverVars
<1>8. CASE HandleReadEmfile \/ CloseIdle \/ AcceptIdle \/ CloseNew \/ OpenIdle
  BY <1>1, <1>8 DEF HandleReadEmfile, CloseIdle, AcceptIdle, CloseNew, OpenIdle, EmfileStep, connVars,
                     serverVars
<1> QED BY <1>2, <1>3, <1>4, <1>5, <1>6, <1>7, <1>8 DEF Next, AcceptorStep

\* Every connection, whichever loop it lives in, is established, goes down at
\* most once, is forgotten by the server, and only then destroyed.
THEOREM ServerConnectionsLive == Spec => ConnectionsLive
<1>1. IInv /\ IInv' /\ [Next]_vars => [Life!Next]_(Life!vars)
  BY LifeNext
<1> QED BY <1>1, LifeInit, Inductive, PTL DEF Spec, ConnectionsLive, Life!Spec
=============================================================================
