--------------------------- MODULE EventLoopProofs ---------------------------
(***************************************************************************)
(* Proofs about EventLoop, for any number of threads and functors.         *)
(***************************************************************************)
EXTENDS EventLoop, SequenceTheorems, TLAPS

-----------------------------------------------------------------------------
(***************************************************************************)
(* The inductive invariant, in three parts that build on each other.       *)
(***************************************************************************)

\* A thread in emplace_back has a functor to push.
ArgInv == \A t \in Threads : call[t] = "emplace" => arg[t] \in Functors

TypeInv == TypeOK /\ ArgInv

\* The flag says where the owner is, and the owner only calls from user code.
ControlInv ==
  /\ callingPendingFunctors_ <=> lpc \in {"swap", "run", "functor"}
  /\ call[Owner] # "idle" => InUserCode
  /\ call[Owner] # "quit"

\* The eventfd is, or is about to be, readable.
Woken ==
  \/ wakeupFd_
  \/ WakeupOnItsWay
  \/ call[Owner] = "notify" /\ callingPendingFunctors_

\* From the swap to the next handleRead(), pending work implies a wakeup.
WakeInv ==
  /\ lpc \in {"user", "while", "poll", "run", "functor"}
       => Elements(pendingFunctors_) \subseteq early \/ Woken
  /\ lpc = "poll" /\ quit_ => Woken

\* doPendingFunctors()'s local vector exists only while it is being run.
LocalInv == lpc \notin {"run", "functor"} => functors = <<>>

\* Before the first overlap no emplace_back is torn.
TornInv == ~raced => \A t \in Threads : ~torn[t]

FifoInv == LocalInv /\ TornInv /\ FifoExactlyOnce
-----------------------------------------------------------------------------
\* Whatever a torn emplace_back leaves is a queue of functors.
LEMMA TornPushedType ==
  ASSUME pendingFunctors_ \in Seq(Functors), NEW f \in Functors
  PROVE  TornPushed(f) \subseteq Seq(Functors)
<1>1. ASSUME NEW n \in {Len(pendingFunctors_)} \ {0}
      PROVE  SubSeq(pendingFunctors_, 1, n - 1) \o <<f>> \in Seq(Functors)
  <2>1. n \in Nat /\ n = Len(pendingFunctors_) /\ n # 0
    BY LenProperties
  <2>2. SubSeq(pendingFunctors_, 1, n - 1) \in Seq(Functors)
    BY <2>1, SubSeqProperties
  <2>3. <<f>> \in Seq(Functors)
    OBVIOUS
  <2> QED
    BY <2>2, <2>3, ConcatProperties
<1>2. Pushed(f) \in Seq(Functors)
  BY AppendProperties DEF Pushed
<1> QED
  BY <1>1, <1>2 DEF TornPushed

\* The initial state is well typed.
LEMMA TypeInit == Init => TypeInv
<1> SUFFICES ASSUME Init PROVE TypeInv
  OBVIOUS
<1>1. torn \in [Threads -> BOOLEAN]
  BY Zenon DEF Init
<1>2. 0 \in 0 .. MaxFunctors
  BY MaxFunctorsAssumption
<1>3. arg \in [Threads -> 0 .. MaxFunctors]
  BY <1>2 DEF Init
<1>6. call \in [Threads -> {"idle", "emplace", "notify", "quit"}]
  BY DEF Init
<1>7. quit_ \in BOOLEAN /\ callingPendingFunctors_ \in BOOLEAN /\ wakeupFd_ \in BOOLEAN
      /\ crashed \in BOOLEAN /\ raced \in BOOLEAN
  BY Zenon DEF Init
<1>8. <<>> \in Seq(Functors)
  BY EmptySeq
<1>4. TypeOK
  BY <1>1, <1>2, <1>3, <1>6, <1>7, <1>8 DEF Init, TypeOK, LoopPoints
<1>5. ArgInv
  BY DEF Init, ArgInv
<1> QED
  BY <1>4, <1>5 DEF TypeInv

\* Every step keeps the types.
LEMMA TypeNext == TypeInv /\ [Next]_vars => TypeInv'
<1> SUFFICES ASSUME TypeInv, [Next]_vars PROVE TypeInv'
  OBVIOUS
<1> USE MaxFunctorsAssumption DEF TypeInv
<1> TypeOK /\ ArgInv
  OBVIOUS
<1>1. ASSUME NEW t \in Threads, QueueInLoop(t) PROVE TypeInv'
  <2>1. made + 1 \in Functors /\ made' \in 0 .. MaxFunctors
    BY <1>1 DEF QueueInLoop, TypeOK, Functors
  <2>2. torn' \in [Threads -> BOOLEAN] /\ raced' \in BOOLEAN
    BY <1>1 DEF QueueInLoop, Overlap, TypeOK
  <2>3. TypeOK'
    BY <1>1, <2>1, <2>2 DEF QueueInLoop, TypeOK, Functors, shared, queue, batch
  <2>4. ArgInv'
    BY <1>1, <2>1 DEF QueueInLoop, TypeOK, ArgInv
  <2> QED
    BY <2>3, <2>4
<1>2. ASSUME NEW t \in Threads, EmplaceBack(t) PROVE TypeInv'
  <2>1. arg[t] \in Functors
    BY <1>2 DEF EmplaceBack, ArgInv
  <2>2. pendingFunctors_' \in Seq(Functors)
    <3>1. pendingFunctors_ \in Seq(Functors)
      BY DEF TypeOK
    <3>2. TornPushed(arg[t]) \subseteq Seq(Functors)
      BY <2>1, <3>1, TornPushedType
    <3>3. Pushed(arg[t]) \in TornPushed(arg[t]) /\ pendingFunctors_ \in TornPushed(arg[t])
      BY DEF TornPushed
    <3>4. pendingFunctors_' \in TornPushed(arg[t])
      BY <1>2, <3>3 DEF EmplaceBack
    <3> QED
      BY <3>2, <3>4
  <2>3. emplaced' \in Seq(Functors)
    BY <1>2, <2>1, AppendProperties DEF EmplaceBack, TypeOK
  <2>6. early' \subseteq Functors
    BY <1>2, <2>1, Zenon DEF EmplaceBack, TypeOK
  <2>7. crashed' \in BOOLEAN
    BY <1>2 DEF EmplaceBack, TypeOK
  <2>4. TypeOK'
    BY <1>2, <2>2, <2>3, <2>6, <2>7 DEF EmplaceBack, TypeOK, shared, batch
  <2>5. ArgInv'
    BY <1>2 DEF EmplaceBack, TypeOK, ArgInv
  <2> QED
    BY <2>4, <2>5
<1>3. ASSUME NEW t \in Threads, Notify(t) \/ Quit(t) \/ QuitWakeup(t) PROVE TypeInv'
  BY <1>3 DEF Notify, Quit, QuitWakeup, NeedsWakeup, TypeOK, ArgInv, queue, batch
<1>4. CASE EnterLoop \/ ExitLoop \/ ComputeTimeout \/ Poll \/ HandleRead
           \/ HandleEvent \/ EventsHandled \/ RunTimerReturns
  BY <1>4, ZenonT(60) DEF EnterLoop, ExitLoop, ComputeTimeout, Poll, HandleRead, HandleEvent,
       EventsHandled, RunTimerReturns, TypeOK, ArgInv, LoopPoints, shared,
       queue, callers, batch
<1>5. CASE SwapFunctors
  <2>1. torn' \in [Threads -> BOOLEAN] /\ raced' \in BOOLEAN
    BY <1>5 DEF SwapFunctors, Overlap, TypeOK
  <2>2. pendingFunctors_' \in Seq(Functors) /\ functors' \in Seq(Functors)
    BY <1>5 DEF SwapFunctors, TypeOK
  <2> QED
    BY <1>5, <2>1, <2>2 DEF SwapFunctors, TypeOK, ArgInv, LoopPoints, shared, batch
<1>6. CASE CallFunctor
  <2>1. ran' \in Seq(Functors) /\ functors' \in Seq(Functors)
    BY <1>6, HeadTailProperties, AppendProperties DEF CallFunctor, TypeOK
  <2> QED
    BY <1>6, <2>1 DEF CallFunctor, TypeOK, ArgInv, LoopPoints, shared, queue,
         callers, batch
<1>7. CASE DoPendingFunctors \/ FunctorReturns \/ FunctorsDone
  BY <1>7 DEF DoPendingFunctors, FunctorReturns, FunctorsDone, TypeOK, ArgInv,
       LoopPoints, shared, queue, callers, batch
<1>8. CASE UNCHANGED vars
  BY <1>8 DEF vars, TypeOK, ArgInv, shared, queue, callers, batch
<1> QED
  BY <1>1, <1>2, <1>3, <1>4, <1>5, <1>6, <1>7, <1>8 DEF Next, LoopStep, FinishCall

\* Type correctness: every variable of the loop keeps its type, whatever the
\* threads do and however their accesses overlap.
THEOREM TypeCorrect == Spec => []TypeOK
<1>1. Spec => []TypeInv
  BY TypeInit, TypeNext, PTL DEF Spec
<1> QED
  BY <1>1, PTL DEF TypeInv

-----------------------------------------------------------------------------
(***************************************************************************)
(* Wakeups.                                                                *)
(***************************************************************************)
\* A torn emplace_back adds no functor but the one it was called with.
LEMMA ElementsOfTornPushed ==
  ASSUME pendingFunctors_ \in Seq(Functors), NEW f \in Functors,
         NEW s \in TornPushed(f)
  PROVE  Elements(s) \subseteq Elements(pendingFunctors_) \cup {f}
<1> DEFINE p == pendingFunctors_
<1>1. CASE s = Pushed(f)
  BY <1>1, AppendProperties DEF Pushed, Elements
<1>2. CASE s = p
  BY <1>2
<1>3. CASE \E n \in {Len(p)} \ {0} : s = SubSeq(p, 1, n - 1) \o <<f>>
  <2> DEFINE n == Len(p)
             q == SubSeq(p, 1, n - 1)
  <2>1. n \in Nat /\ n # 0 /\ s = q \o <<f>>
    BY <1>3, LenProperties
  <2>2. \A i \in 1 .. (n - 1) : p[i] \in Functors
    BY <2>1, ElementOfSeq
  <2>3. q \in Seq(Functors) /\ Len(q) = n - 1 /\ \A i \in 1 .. (n - 1) : q[i] = p[i]
    BY <2>1, <2>2, SubSeqProperties
  <2>4. <<f>> \in Seq(Functors) /\ Len(<<f>>) = 1 /\ <<f>>[1] = f
    OBVIOUS
  <2> HIDE DEF q
  <2>5. Len(s) = n /\ \A i \in 1 .. n : s[i] = IF i <= n - 1 THEN p[i] ELSE f
    BY <2>1, <2>3, <2>4, ConcatProperties
  <2> QED
    BY <2>1, <2>5 DEF Elements
<1> QED
  BY <1>1, <1>2, <1>3 DEF TornPushed

\* The result of an emplace_back, torn or not, as the wakeup proof uses it.
LEMMA EmplacedType ==
  ASSUME TypeInv, NEW t \in Threads, EmplaceBack(t)
  PROVE  /\ arg[t] \in Functors
         /\ Elements(pendingFunctors_') \subseteq Elements(pendingFunctors_) \cup {arg[t]}
<1>1. arg[t] \in Functors /\ pendingFunctors_ \in Seq(Functors)
  BY DEF EmplaceBack, ArgInv, TypeInv, TypeOK
<1>2. pendingFunctors_' \in TornPushed(arg[t])
  BY DEF EmplaceBack, TornPushed
<1> QED
  BY <1>1, <1>2, ElementsOfTornPushed

\* The initial state satisfies the control invariant.
LEMMA ControlInit == Init => ControlInv
BY DEF Init, ControlInv, Threads

\* Every step keeps the control invariant.
LEMMA ControlNext == TypeInv /\ ControlInv /\ [Next]_vars => ControlInv'
<1> SUFFICES ASSUME TypeInv, ControlInv, [Next]_vars PROVE ControlInv'
  OBVIOUS
<1> Owner \in Threads /\ call \in [Threads -> {"idle", "emplace", "notify", "quit"}]
  BY DEF TypeInv, TypeOK, Threads
<1>1. ASSUME NEW t \in Threads, QueueInLoop(t) \/ Quit(t) PROVE ControlInv'
  BY <1>1 DEF QueueInLoop, Quit, MayCall, ControlInv, InUserCode, shared, batch
<1>2. ASSUME NEW t \in Threads, FinishCall(t) PROVE ControlInv'
  BY <1>2 DEF FinishCall, EmplaceBack, Notify, QuitWakeup, ControlInv, InUserCode,
       shared, batch
<1>3. CASE EnterLoop \/ ExitLoop \/ ComputeTimeout \/ Poll \/ HandleRead
           \/ HandleEvent \/ EventsHandled \/ RunTimerReturns
  BY <1>3 DEF EnterLoop, ExitLoop, ComputeTimeout, Poll, HandleRead, HandleEvent,
       EventsHandled, RunTimerReturns, OwnerAt, ControlInv, shared, callers
<1>4. CASE DoPendingFunctors \/ SwapFunctors \/ CallFunctor \/ FunctorReturns
           \/ FunctorsDone
  BY <1>4 DEF DoPendingFunctors, SwapFunctors, CallFunctor, FunctorReturns,
       FunctorsDone, OwnerAt, ControlInv, shared, callers
<1>5. CASE UNCHANGED vars
  BY <1>5 DEF vars, ControlInv, InUserCode, shared, callers, batch
<1> QED
  BY <1>1, <1>2, <1>3, <1>4, <1>5 DEF Next, LoopStep

\* The initial state satisfies the wakeup invariant.
LEMMA WakeInit == Init => WakeInv
BY DEF Init, WakeInv, Elements

\* Every step keeps the wakeup invariant: one case per action.
LEMMA WakeNext == TypeInv /\ ControlInv /\ WakeInv /\ [Next]_vars => WakeInv'
<1> SUFFICES ASSUME TypeInv, ControlInv, WakeInv, [Next]_vars PROVE WakeInv'
  OBVIOUS
<1> Owner \in Threads /\ call \in [Threads -> {"idle", "emplace", "notify", "quit"}]
  BY DEF TypeInv, TypeOK, Threads
<1> Threads = Others \cup {Owner} /\ Owner \notin Others
  BY OwnerAssumption DEF Threads
<1>1. ASSUME NEW t \in Threads, QueueInLoop(t) PROVE WakeInv'
  <2>1. UNCHANGED <<lpc, quit_, pendingFunctors_, early, wakeupFd_, callingPendingFunctors_>>
    BY <1>1 DEF QueueInLoop, shared, queue
  <2>2. Woken => Woken'
    BY <1>1, <2>1 DEF QueueInLoop, MayCall, Woken, WakeupOnItsWay
  <2> QED
    BY <2>1, <2>2 DEF WakeInv, Elements
<1>2. ASSUME NEW t \in Threads, EmplaceBack(t) PROVE WakeInv'
  <2>1. UNCHANGED <<lpc, quit_, wakeupFd_, callingPendingFunctors_>>
    BY <1>2 DEF EmplaceBack, shared
  <2>2. Woken => Woken'
    BY <1>2, <2>1 DEF EmplaceBack, Woken, WakeupOnItsWay
  <2>3. CASE t \in Others
    <3>1. Woken'
      BY <1>2, <2>3 DEF EmplaceBack, Woken, WakeupOnItsWay
    <3> QED
      BY <3>1 DEF WakeInv
  <2>4. CASE t = Owner /\ lpc = "user"
    <3>1. Elements(pendingFunctors_') \subseteq Elements(pendingFunctors_) \cup {arg[t]}
      BY <1>2, EmplacedType
    <3>2. early' = early \cup {arg[t]}
      BY <1>2, <2>4 DEF EmplaceBack
    <3>3. Elements(pendingFunctors_)' = Elements(pendingFunctors_')
      BY DEF Elements
    <3> QED
      BY <2>1, <2>2, <2>4, <3>1, <3>2, <3>3 DEF WakeInv
  <2>5. CASE t = Owner /\ lpc # "user"
    <3>1. lpc \in {"events", "timers", "functor"}
      BY <1>2, <2>5 DEF EmplaceBack, ControlInv, InUserCode
    <3>2. lpc = "functor" => Woken'
      BY <1>2, <2>1, <2>5 DEF EmplaceBack, ControlInv, Woken
    <3> QED
      BY <2>1, <3>1, <3>2 DEF WakeInv
  <2> QED
    BY <2>3, <2>4, <2>5
<1>3. ASSUME NEW t \in Threads, Notify(t) PROVE WakeInv'
  <2>1. UNCHANGED <<lpc, quit_, pendingFunctors_, early, callingPendingFunctors_>>
    BY <1>3 DEF Notify, queue
  <2>2. Woken => Woken'
    BY <1>3, <2>1 DEF Notify, NeedsWakeup, Woken, WakeupOnItsWay
  <2> QED
    BY <2>1, <2>2 DEF WakeInv, Elements
<1>4. ASSUME NEW t \in Threads, Quit(t) PROVE WakeInv'
  <2>1. UNCHANGED <<lpc, pendingFunctors_, early, wakeupFd_, callingPendingFunctors_>>
    BY <1>4 DEF Quit, queue
  <2>2. Woken => Woken'
    BY <1>4, <2>1 DEF Quit, MayCall, Woken, WakeupOnItsWay
  <2>3. lpc = "poll" => Woken'
    BY <1>4 DEF Quit, MayCall, InUserCode, Woken, WakeupOnItsWay
  <2> QED
    BY <2>1, <2>2, <2>3 DEF WakeInv, Elements
<1>5. ASSUME NEW t \in Threads, QuitWakeup(t) PROVE WakeInv'
  <2>1. Woken'
    BY <1>5 DEF QuitWakeup, Woken
  <2> QED
    BY <2>1 DEF WakeInv
<1>6. CASE EnterLoop \/ ExitLoop \/ ComputeTimeout
  <2>1. UNCHANGED <<pendingFunctors_, early, wakeupFd_, callingPendingFunctors_, call>>
    BY <1>6 DEF EnterLoop, ExitLoop, ComputeTimeout, queue, shared, callers
  <2>2. Woken => Woken'
    BY <2>1 DEF Woken, WakeupOnItsWay
  <2>3. lpc \in {"user", "while"} /\ (lpc' = "poll" => ~quit_')
    BY <1>6 DEF EnterLoop, ExitLoop, ComputeTimeout, OwnerAt, shared
  <2> QED
    BY <2>1, <2>2, <2>3 DEF WakeInv, Elements
<1>7. CASE Poll \/ HandleRead \/ HandleEvent \/ EventsHandled \/ RunTimerReturns
           \/ DoPendingFunctors
  <2>1. lpc' \in {"events", "timers", "pending", "swap"}
    BY <1>7 DEF Poll, HandleRead, HandleEvent, EventsHandled, RunTimerReturns,
         DoPendingFunctors, OwnerAt
  <2> QED
    BY <2>1 DEF WakeInv
<1>8. CASE SwapFunctors
  <2>1. pendingFunctors_' = <<>> /\ lpc' = "run"
    BY <1>8 DEF SwapFunctors
  <2> QED
    BY <2>1 DEF WakeInv, Elements
<1>9. CASE CallFunctor \/ FunctorReturns \/ FunctorsDone
  <2>1. /\ UNCHANGED <<pendingFunctors_, early, wakeupFd_, call, quit_>>
        /\ lpc \in {"run", "functor"} /\ lpc' # "poll" /\ call[Owner] = "idle"
    BY <1>9 DEF CallFunctor, FunctorReturns, FunctorsDone, OwnerAt, queue, shared, callers
  <2>2. Woken => Woken'
    BY <2>1 DEF Woken, WakeupOnItsWay
  <2> QED
    BY <2>1, <2>2 DEF WakeInv, Elements
<1>10. CASE UNCHANGED vars
  BY <1>10 DEF vars, WakeInv, Woken, WakeupOnItsWay, Elements, shared, queue, callers
<1> QED
  BY <1>1, <1>2, <1>3, <1>4, <1>5, <1>6, <1>7, <1>8, <1>9, <1>10
     DEF Next, LoopStep, FinishCall

\* No lost wakeup: for any number of threads, the loop never waits in poll()
\* with a positive timeout on a quit() or on a functor that another thread,
\* or the owner inside a callback, has queued.
THEOREM NoLostWakeup == Spec => []NeverSleepsOnWork
<1>1. Init => TypeInv /\ ControlInv /\ WakeInv
  BY TypeInit, ControlInit, WakeInit
<1>2. TypeInv /\ ControlInv /\ WakeInv /\ [Next]_vars => (TypeInv /\ ControlInv /\ WakeInv)'
  BY TypeNext, ControlNext, WakeNext
<1>3. ControlInv /\ WakeInv => NeverSleepsOnWork
  BY DEF ControlInv, InUserCode, WakeInv, Woken, NeverSleepsOnWork
<1> QED
  BY <1>1, <1>2, <1>3, PTL DEF Spec

-----------------------------------------------------------------------------
(***************************************************************************)
(* Order.                                                                  *)
(***************************************************************************)
\* The initial state satisfies the order invariant.
LEMMA FifoInit == Init => FifoInv
BY DEF Init, FifoInv, LocalInv, TornInv, FifoExactlyOnce, Threads

\* Appending to the last of three sequences appends to their concatenation.
LEMMA ConcatAppend ==
  ASSUME NEW S, NEW r \in Seq(S), NEW s \in Seq(S), NEW e \in S
  PROVE  r \o Append(s, e) = Append(r \o s, e)
<1>1. Append(s, e) = s \o <<e>> /\ <<e>> \in Seq(S) /\ r \o s \in Seq(S)
  BY AppendIsConcat, ConcatProperties
<1>2. Append(r \o s, e) = (r \o s) \o <<e>>
  BY <1>1, AppendIsConcat
<1> QED
  BY <1>1, <1>2, ConcatAssociative

\* Moving the head of the second sequence to the end of the first changes
\* nothing in the concatenation.
LEMMA MoveHead ==
  ASSUME NEW S, NEW r \in Seq(S), NEW s \in Seq(S), s # <<>>
  PROVE  Append(r, Head(s)) \o Tail(s) = r \o s
<1>1. Head(s) \in S /\ Tail(s) \in Seq(S) /\ <<Head(s)>> \in Seq(S)
  BY HeadTailProperties
<1>2. s = <<Head(s)>> \o Tail(s)
  BY <1>1
<1>3. Append(r, Head(s)) = r \o <<Head(s)>>
  BY <1>1, AppendIsConcat
<1> QED
  BY <1>1, <1>2, <1>3, ConcatAssociative

\* Every step keeps the order invariant: only emplace_back, the swap and the
\* call of a functor move functors.
LEMMA FifoNext == TypeInv /\ ControlInv /\ FifoInv /\ [Next]_vars => FifoInv'
<1> SUFFICES ASSUME TypeInv, ControlInv, FifoInv, [Next]_vars PROVE FifoInv'
  OBVIOUS
<1> Owner \in Threads
  BY DEF Threads
<1> DEFINE content == <<pendingFunctors_, functors, ran, emplaced>>
<1>1. ASSUME NEW t \in Threads, QueueInLoop(t) PROVE FifoInv'
  <2>1. UNCHANGED <<content, lpc>>
    BY <1>1 DEF QueueInLoop, queue
  <2>2. raced => raced'
    BY <1>1 DEF QueueInLoop, Overlap
  <2>3. TornInv'
    BY <1>1 DEF QueueInLoop, Overlap, FifoInv, TornInv
  <2> QED
    BY <2>1, <2>2, <2>3 DEF FifoInv, LocalInv, FifoExactlyOnce
<1>2. ASSUME NEW t \in Threads, EmplaceBack(t) PROVE FifoInv'
  <2>1. UNCHANGED <<functors, ran, raced, lpc>> /\ emplaced' = Append(emplaced, arg[t])
    BY <1>2 DEF EmplaceBack
  <2>2. TornInv'
    BY <1>2 DEF EmplaceBack, FifoInv, TornInv, TypeInv, TypeOK
  <2>3. ASSUME ~raced PROVE pendingFunctors_' = Append(pendingFunctors_, arg[t])
    BY <1>2, <2>3 DEF EmplaceBack, Pushed, FifoInv, TornInv
  <2>4. /\ ran \o functors \in Seq(Functors) /\ pendingFunctors_ \in Seq(Functors)
        /\ arg[t] \in Functors
    BY <1>2, ConcatProperties DEF EmplaceBack, TypeInv, TypeOK, ArgInv
  <2>5. (ran \o functors) \o Append(pendingFunctors_, arg[t])
          = Append((ran \o functors) \o pendingFunctors_, arg[t])
    BY <2>4, ConcatAppend
  <2>6. FifoExactlyOnce'
    BY <2>1, <2>3, <2>5 DEF FifoInv, FifoExactlyOnce
  <2> QED
    BY <2>1, <2>2, <2>6 DEF FifoInv, LocalInv
<1>3. ASSUME NEW t \in Threads, Notify(t) \/ Quit(t) \/ QuitWakeup(t) PROVE FifoInv'
  BY <1>3 DEF Notify, Quit, QuitWakeup, FifoInv, LocalInv, TornInv, FifoExactlyOnce, queue
<1>4. CASE EnterLoop \/ ExitLoop \/ ComputeTimeout \/ Poll \/ HandleRead
           \/ HandleEvent \/ EventsHandled \/ RunTimerReturns \/ DoPendingFunctors
           \/ FunctorReturns
  BY <1>4 DEF EnterLoop, ExitLoop, ComputeTimeout, Poll, HandleRead, HandleEvent,
       EventsHandled, RunTimerReturns, DoPendingFunctors, FunctorReturns, OwnerAt,
       FifoInv, LocalInv, TornInv, FifoExactlyOnce, queue, callers
<1>5. CASE SwapFunctors
  <2>1. /\ functors = <<>> /\ functors' = pendingFunctors_ /\ pendingFunctors_' = <<>>
        /\ UNCHANGED <<ran, emplaced>> /\ lpc' = "run"
    BY <1>5 DEF SwapFunctors, OwnerAt, FifoInv, LocalInv
  <2>2. TornInv' /\ (raced => raced')
    BY <1>5 DEF SwapFunctors, Overlap, FifoInv, TornInv
  <2>3. /\ ran \in Seq(Functors) /\ pendingFunctors_ \in Seq(Functors)
        /\ ran \o pendingFunctors_ \in Seq(Functors)
    BY ConcatProperties DEF TypeInv, TypeOK
  <2>4. (ran \o <<>>) \o pendingFunctors_ = (ran \o pendingFunctors_) \o <<>>
    BY <2>3, ConcatEmptySeq
  <2>5. FifoExactlyOnce'
    BY <2>1, <2>2, <2>4 DEF FifoInv, FifoExactlyOnce
  <2> QED
    BY <2>1, <2>2, <2>5 DEF FifoInv, LocalInv
<1>6. CASE CallFunctor
  <2>1. /\ functors # <<>> /\ functors' = Tail(functors)
        /\ ran' = Append(ran, Head(functors)) /\ lpc' = "functor"
        /\ UNCHANGED <<pendingFunctors_, emplaced, raced, torn>>
    BY <1>6 DEF CallFunctor, queue, callers
  <2>2. ran' \o functors' = ran \o functors
    BY <2>1, MoveHead DEF TypeInv, TypeOK
  <2>3. FifoExactlyOnce'
    BY <2>1, <2>2 DEF FifoInv, FifoExactlyOnce
  <2> QED
    BY <2>1, <2>3 DEF FifoInv, LocalInv, TornInv
<1>7. CASE FunctorsDone
  BY <1>7 DEF FunctorsDone, FifoInv, LocalInv, TornInv, FifoExactlyOnce, queue, callers
<1>8. CASE UNCHANGED vars
  BY <1>8 DEF vars, FifoInv, LocalInv, TornInv, FifoExactlyOnce, queue, callers
<1> QED
  BY <1>1, <1>2, <1>3, <1>4, <1>5, <1>6, <1>7, <1>8 DEF Next, LoopStep, FinishCall

\* Functors run in queueing order, each exactly once, for any number of
\* threads, as long as no two accesses to pendingFunctors_ overlap.
THEOREM Fifo == Spec => []FifoExactlyOnce
<1>1. Init => TypeInv /\ ControlInv /\ FifoInv
  BY TypeInit, ControlInit, FifoInit
<1>2. TypeInv /\ ControlInv /\ FifoInv /\ [Next]_vars => (TypeInv /\ ControlInv /\ FifoInv)'
  BY TypeNext, ControlNext, FifoNext
<1> QED
  BY <1>1, <1>2, PTL DEF Spec, FifoInv
=============================================================================
