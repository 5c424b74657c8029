-------------------------- MODULE TimerQueueProofs --------------------------
(***************************************************************************)
(* Proofs about TimerQueue, for any number of timers, requests and ticks:  *)
(* its two indexes agree, every Timer object has one owner, a cancel that  *)
(* took hold is final, and no timer is triggered early or, without an      *)
(* interval, twice.                                                        *)
(***************************************************************************)
EXTENDS TimerQueue, TLAPS, WellFoundedInduction

\* timers_ is determined by the armed timers and their Timer objects.
MirrorInv == timers_ = {<<heap[id].when, id>> : id \in activeTimers_}

\* Every id in use has been given out, so that a new timer's id is fresh; and
\* a timer is added by one request only.
FreshInv ==
  /\ alive \subseteq 1 .. atomic_ /\ fired \subseteq 1 .. atomic_ /\ cancelled \subseteq 1 .. atomic_
  /\ \A i, j \in DOMAIN requests :
       requests[i].op = "add" /\ requests[j].op = "add" /\ requests[i].id = requests[j].id => i = j

\* A cancel that took hold found its timer armed, or in the batch: then
\* cancelTimers_ remembers it, as callingTimesFunctor_ says that a batch runs.
CancelInv ==
  /\ cancelled \cap (activeTimers_ \cup QueuedAdds) = {}
  /\ cancelled \cap expired \subseteq cancelTimers_

BatchInv ==
  /\ callingTimesFunctor_ <=> lpc \in {"trigger", "callback"}
  /\ lpc \notin {"trigger", "callback"} => expired = {}

\* The batch is due at the time that was sampled before poll(), and what has
\* fired and does not repeat is not to be triggered again.
TimeInv ==
  /\ now <= clock
  /\ \A id \in expired : heap[id].when <= now
  /\ \A id \in fired : heap[id].interval = 0 => id \notin activeTimers_ \cup QueuedAdds \cup due

IInv ==
  /\ TypeOK /\ MirrorInv /\ TimersOwnedOnce
  /\ FreshInv /\ CancelInv /\ BatchInv /\ TimeInv

-----------------------------------------------------------------------------
\* A nonempty set of naturals has a smallest element.
LEMMA SmallestExists ==
  ASSUME NEW S, S \subseteq Nat, S # {}
  PROVE  \E x \in S : \A y \in S : x <= y
<1> DEFINE R == OpToRel(<, Nat)
<1>1. IsWellFoundedOn(R, Nat)
  BY NatLessThanWellFounded
<1>2. PICK x \in S : \A y \in S : ~(<<y, x>> \in R)
  <2> HIDE DEF R
  <2> QED BY <1>1, WFMin
<1>3. \A y \in S : x <= y
  <2> SUFFICES ASSUME NEW y \in S, y < x PROVE FALSE
    OBVIOUS
  <2>1. <<y, x>> \in {ss \in Nat \X Nat : ss[1] < ss[2]}
    OBVIOUS
  <2>2. <<y, x>> \in R
    BY <2>1 DEF OpToRel
  <2> QED BY <1>2, <2>2
<1> QED BY <1>3


\* The time loop() reads off timers_ is a point in time, or 0.
LEMMA NearestType ==
  ASSUME TypeOK
  PROVE  NearestExpiration \in Nat
<1>1. CASE timers_ = {}
  BY <1>1 DEF NearestExpiration
<1>2. CASE timers_ # {}
  <2> DEFINE S == {e[1] : e \in timers_}
  <2>1. \A e \in timers_ : e[1] \in Nat
    BY MaxTimeAssumption DEF TypeOK, Times
  <2>2. \E x \in S : \A y \in S : x <= y
    <3>1. S \subseteq Nat /\ S # {}
      BY <1>2, <2>1
    <3> HIDE DEF S
    <3> QED BY <3>1, SmallestExists
  <2>3. \E e \in timers_ : \A f \in timers_ : e[1] <= f[1]
    BY <2>2
  <2> QED BY <1>2, <2>1, <2>3 DEF NearestExpiration
<1> QED BY <1>1, <1>2

-----------------------------------------------------------------------------
\* What a new request adds to the timers that wait to be added.
LEMMA AppendRequest ==
  ASSUME TypeOK, FreshInv, NEW r \in Request, requests' = Append(requests, r),
         r.op = "add" => r.id \notin QueuedAdds
  PROVE  /\ requests' \in Seq(Request) /\ Len(requests') = Len(requests) + 1
         /\ QueuedAdds' = QueuedAdds \cup (IF r.op = "add" THEN {r.id} ELSE {})
         /\ \A i, j \in DOMAIN requests' :
              requests'[i].op = "add" /\ requests'[j].op = "add"
                /\ requests'[i].id = requests'[j].id => i = j
<1>1. /\ requests \in Seq(Request) /\ Len(requests) \in Nat
      /\ requests' \in Seq(Request) /\ Len(requests') = Len(requests) + 1
      /\ DOMAIN requests = 1 .. Len(requests) /\ DOMAIN requests' = 1 .. Len(requests) + 1
      /\ \A i \in 1 .. Len(requests) : requests'[i] = requests[i]
      /\ requests'[Len(requests) + 1] = r
  BY DEF TypeOK
<1>2. \A i \in DOMAIN requests : requests[i].op = "add" => requests[i].id \in QueuedAdds
  BY DEF QueuedAdds
<1>3. QueuedAdds' = QueuedAdds \cup (IF r.op = "add" THEN {r.id} ELSE {})
  BY <1>1 DEF QueuedAdds
<1>4. \A i, j \in DOMAIN requests' :
        requests'[i].op = "add" /\ requests'[j].op = "add"
          /\ requests'[i].id = requests'[j].id => i = j
  BY <1>1, <1>2 DEF FreshInv
<1> QED BY <1>1, <1>3, <1>4

\* What running the first request takes from them.
LEMMA TailRequest ==
  ASSUME TypeOK, FreshInv, left > 0, requests' = Tail(requests)
  PROVE  /\ Head(requests) \in Request
         /\ requests' \in Seq(Request) /\ Len(requests') = Len(requests) - 1
         /\ Head(requests).op = "add" => Head(requests).id \in QueuedAdds
         /\ QueuedAdds' = QueuedAdds \ (IF Head(requests).op = "add" THEN {Head(requests).id} ELSE {})
         /\ \A i, j \in DOMAIN requests' :
              requests'[i].op = "add" /\ requests'[j].op = "add"
                /\ requests'[i].id = requests'[j].id => i = j
<1>1. requests \in Seq(Request) /\ requests # <<>>
  BY DEF TypeOK
<1>2. /\ Len(requests) \in Nat /\ Len(requests) > 0
      /\ Head(requests) = requests[1] /\ requests[1] \in Request
      /\ requests' \in Seq(Request) /\ Len(requests') = Len(requests) - 1
      /\ DOMAIN requests = 1 .. Len(requests) /\ DOMAIN requests' = 1 .. Len(requests) - 1
      /\ \A i \in 1 .. Len(requests) - 1 : requests'[i] = requests[i + 1]
  BY <1>1
<1>3. Head(requests).op = "add" => Head(requests).id \in QueuedAdds
  BY <1>2 DEF QueuedAdds
<1>4. QueuedAdds' = QueuedAdds \ (IF Head(requests).op = "add" THEN {Head(requests).id} ELSE {})
  <2>1. ASSUME NEW x \in QueuedAdds'
        PROVE  x \in QueuedAdds /\ (Head(requests).op = "add" => x # Head(requests).id)
    <3>1. PICK i \in 1 .. Len(requests) - 1 : requests'[i].op = "add" /\ x = requests'[i].id
      BY <1>2 DEF QueuedAdds
    <3>2. /\ i + 1 \in DOMAIN requests /\ 1 \in DOMAIN requests /\ i + 1 # 1
          /\ requests[i + 1].op = "add" /\ x = requests[i + 1].id
      BY <1>2, <3>1
    <3>3. x \in QueuedAdds
      BY <3>2 DEF QueuedAdds
    <3> QED BY <1>2, <3>2, <3>3 DEF FreshInv
  <2>2. ASSUME NEW x \in QueuedAdds, ~(Head(requests).op = "add" /\ x = Head(requests).id)
        PROVE  x \in QueuedAdds'
    <3>1. PICK i \in 1 .. Len(requests) : requests[i].op = "add" /\ x = requests[i].id
      BY <1>2 DEF QueuedAdds
    <3>2. i - 1 \in 1 .. Len(requests) - 1 /\ requests'[i - 1] = requests[i]
      BY <1>2, <2>2, <3>1
    <3> QED BY <1>2, <3>1, <3>2 DEF QueuedAdds
  <2> QED BY <2>1, <2>2
<1>5. ASSUME NEW i \in DOMAIN requests', NEW j \in DOMAIN requests',
             requests'[i].op = "add" /\ requests'[j].op = "add" /\ requests'[i].id = requests'[j].id
      PROVE  i = j
  <2>1. /\ i + 1 \in DOMAIN requests /\ j + 1 \in DOMAIN requests /\ i \in Nat /\ j \in Nat
        /\ requests'[i] = requests[i + 1] /\ requests'[j] = requests[j + 1]
    BY <1>2
  <2>2. i + 1 = j + 1
    BY <1>5, <2>1 DEF FreshInv
  <2> QED BY <2>1, <2>2
<1> QED BY <1>2, <1>3, <1>4, <1>5

-----------------------------------------------------------------------------
\* The invariant contains the properties of the runs.
LEMMA IInvImplies == IInv => IndexesAgree /\ TimersOwnedOnce /\ CancelledNeverRearmed
<1> SUFFICES ASSUME IInv PROVE IndexesAgree /\ TimersOwnedOnce /\ CancelledNeverRearmed
  OBVIOUS
<1>1. Armed = activeTimers_
  <2>1. timers_ = {<<heap[id].when, id>> : id \in activeTimers_}
    BY DEF IInv, MirrorInv
  <2>2. \A id \in activeTimers_ : <<heap[id].when, id>> \in timers_ /\ <<heap[id].when, id>>[2] = id
    BY <2>1
  <2>3. \A e \in timers_ : e[2] \in activeTimers_
    BY <2>1
  <2> QED BY <2>2, <2>3, Zenon DEF Armed
<1>2. \A e \in timers_ : e[1] = heap[e[2]].when
  BY DEF IInv, MirrorInv
<1> QED BY <1>1, <1>2 DEF IInv, IndexesAgree, CancelInv, CancelledNeverRearmed

\* A loop that has just been entered satisfies it.
LEMMA InitInv == Init => IInv
<1> SUFFICES ASSUME Init PROVE IInv
  OBVIOUS
<1>1. QueuedAdds = {}
  BY DEF Init, QueuedAdds
<1>2. [when |-> 0, interval |-> 0, low |-> FALSE] \in Timer
  BY MaxTimeAssumption DEF Timer, Times
<1>3. TypeOK
  <2>1. callingTimesFunctor_ \in BOOLEAN /\ aborted \in BOOLEAN
    BY Zenon DEF Init
  <2>2. clock \in 1 .. MaxTime /\ now \in 0 .. MaxTime /\ atomic_ \in 0 .. MaxTimers
    BY MaxTimeAssumption, MaxTimersAssumption DEF Init
  <2>3. requests \in Seq(Request) /\ left \in 0 .. Len(requests)
    BY DEF Init
  <2>4. heap \in [Ids -> Timer]
    BY <1>2 DEF Init
  <2>5. timeoutMs \in Nat /\ deadline \in Nat
    BY DEF Init
  <2> QED BY <2>1, <2>2, <2>3, <2>4, <2>5, Zenon DEF Init, TypeOK
<1>4. MirrorInv /\ TimersOwnedOnce /\ FreshInv
  BY <1>1 DEF Init, MirrorInv, TimersOwnedOnce, FreshInv
<1>5. BatchInv
  <2>1. ~callingTimesFunctor_ /\ lpc \notin {"trigger", "callback"}
    BY DEF Init
  <2> QED BY <2>1 DEF Init, BatchInv
<1>6. CancelInv /\ TimeInv
  BY <1>1 DEF Init, CancelInv, TimeInv
<1> QED BY <1>3, <1>4, <1>5, <1>6 DEF IInv

\* Steps that leave the queue alone: the clock, the owner's position and the
\* sampled time may change, the last only while no batch is running.
LEMMA QuietStep ==
  ASSUME IInv, TypeOK', BatchInv', now' <= clock',
         now' = now \/ expired = {},
         UNCHANGED <<timers_, activeTimers_, cancelTimers_, heap, alive, atomic_, expired, due,
                     requests, fired, cancelled>>
  PROVE  IInv'
<1>1. QueuedAdds' = QueuedAdds
  BY DEF QueuedAdds
<1>2. MirrorInv' /\ TimersOwnedOnce' /\ FreshInv'
  BY <1>1 DEF IInv, MirrorInv, TimersOwnedOnce, FreshInv
<1>3. CancelInv' /\ TimeInv'
  BY <1>1 DEF IInv, CancelInv, TimeInv
<1> QED BY <1>2, <1>3 DEF IInv

\* The top of loop() and poll().
LEMMA LoopStepInv ==
  ASSUME IInv, ComputeTimeout \/ PollDue \/ PollEvent \/ CallbackReturns \/ PendingDone
  PROVE  IInv'
<1>1. /\ UNCHANGED <<clock, timers_, activeTimers_, cancelTimers_, heap, alive, atomic_,
                     callingTimesFunctor_, expired, due, requests, left, aborted, fired, cancelled>>
  BY DEF ComputeTimeout, PollDue, PollEvent, PollReturns, CallbackReturns, PendingDone,
         queue, timerVars, runVars, queueVars, history
<1>2. CASE ComputeTimeout
  <2>0. lpc = "while" /\ lpc' = "poll"
    BY <1>2 DEF ComputeTimeout, OwnerAt
  <2>1. now' \in {clock, now}
    BY <1>2 DEF ComputeTimeout, SampledNow
  <2>2. clock \in 1 .. MaxTime /\ now \in 0 .. MaxTime /\ now <= clock
    BY DEF IInv, TypeOK, TimeInv
  <2>3. now' \in 0 .. MaxTime /\ now' <= clock'
    BY <1>1, <2>1, <2>2, MaxTimeAssumption
  <2>4. timeoutMs' \in Nat
    <3>1. NearestExpiration \in Nat
      BY NearestType DEF IInv
    <3>2. timeoutMs' = IF NearestExpiration <= clock THEN 0
                       ELSE (NearestExpiration - clock) \div TicksPerMs
      BY <1>2 DEF ComputeTimeout
    <3> HIDE DEF NearestExpiration
    <3>3. clock \in Nat
      BY <2>2
    <3> QED BY <3>1, <3>2, <3>3, TicksPerMsAssumption
  <2>5. deadline' \in Nat
    BY <1>2, <2>2, <2>4, TicksPerMsAssumption DEF ComputeTimeout
  <2>6. TypeOK'
    BY <1>1, <2>0, <2>3, <2>4, <2>5 DEF IInv, TypeOK
  <2>7. BatchInv' /\ expired = {}
    BY <1>1, <2>0 DEF IInv, BatchInv
  <2> QED BY <1>1, <2>3, <2>6, <2>7, QuietStep
<1>3. CASE PollDue \/ PollEvent \/ CallbackReturns \/ PendingDone
  <2>1. /\ UNCHANGED <<now, timeoutMs, deadline>>
        /\ lpc' \in {"events", "trigger", "while"}
        /\ lpc \in {"trigger", "callback"} <=> lpc' \in {"trigger", "callback"}
    BY <1>3 DEF PollDue, PollEvent, PollReturns, CallbackReturns, PendingDone, OwnerAt, pollVars
  <2>2. TypeOK'
    BY <1>1, <2>1 DEF IInv, TypeOK
  <2>3. BatchInv'
    BY <1>1, <2>1 DEF IInv, BatchInv
  <2>4. now' <= clock' /\ now' = now
    BY <1>1, <2>1 DEF IInv, TimeInv
  <2> QED BY <1>1, <2>2, <2>3, <2>4, QuietStep
<1> QED BY <1>2, <1>3

\* Time passes; an assertion fails; there is nothing to run.
LEMMA OtherQuietInv ==
  ASSUME IInv, Tick \/ RunTimerAborts \/ RunTimerEmpty
  PROVE  IInv'
<1>1. /\ UNCHANGED <<now, timeoutMs, deadline, timers_, activeTimers_, cancelTimers_, heap, alive,
                     atomic_, callingTimesFunctor_, expired, due, requests, fired, cancelled>>
  BY DEF Tick, RunTimerAborts, RunTimerEmpty,
         queue, timerVars, runVars, queueVars, history, pollVars
<1>2. clock' \in 1 .. MaxTime /\ clock' >= clock
  BY MaxTimeAssumption DEF Tick, RunTimerAborts, RunTimerEmpty, IInv, TypeOK
<1>3. left' \in 0 .. Len(requests')
  BY <1>1 DEF Tick, RunTimerAborts, RunTimerEmpty, queue, queueVars, IInv, TypeOK
<1>4. /\ lpc' \in {"while", "poll", "events", "trigger", "callback", "pending"}
      /\ lpc \in {"trigger", "callback"} <=> lpc' \in {"trigger", "callback"}
  BY DEF Tick, RunTimerAborts, RunTimerEmpty, OwnerAt, IInv, TypeOK
<1>5. aborted' \in BOOLEAN
  BY DEF Tick, RunTimerAborts, RunTimerEmpty, queue, IInv, TypeOK
<1>6. TypeOK'
  BY <1>1, <1>2, <1>3, <1>4, <1>5 DEF IInv, TypeOK
<1>7. BatchInv'
  BY <1>1, <1>4 DEF IInv, BatchInv
<1>8. now' <= clock'
  BY <1>1, <1>2 DEF IInv, TypeOK, TimeInv
<1> QED BY <1>1, <1>6, <1>7, <1>8, QuietStep

-----------------------------------------------------------------------------
\* A new Timer object has a fresh id and times in range.
LEMMA NewTimerFacts ==
  ASSUME IInv, NEW when \in 0 .. MaxTime, NEW repeat \in BOOLEAN, NEW low \in LowAddresses,
         NewTimer(when, repeat, low)
  PROVE  LET id == atomic_ + 1
         IN /\ id \in Ids
            /\ id \notin alive \cup fired \cup cancelled
            /\ atomic_' = id /\ alive' = alive \cup {id}
            /\ heap' \in [Ids -> Timer] /\ heap'[id].when = when
            /\ \A i \in Ids \ {id} : heap'[i] = heap[i]
<1> DEFINE id == atomic_ + 1
           delay == IF repeat /\ when > clock THEN when - clock ELSE 0
<1>1. atomic_ \in 0 .. MaxTimers /\ atomic_ < MaxTimers /\ atomic_' = id
  BY DEF NewTimer, IInv, TypeOK
<1>2. id \in Ids /\ id \in 1 .. MaxTimers /\ id \notin 1 .. atomic_
  BY <1>1, MaxTimersAssumption DEF Ids
<1>3. id \notin alive \cup fired \cup cancelled
  BY <1>2 DEF IInv, FreshInv
<1>4. delay \in 0 .. MaxTime
  BY MaxTimeAssumption DEF IInv, TypeOK
<1>5. [when |-> when, interval |-> delay, low |-> low] \in Timer
  BY <1>4, MaxTimeAssumption, LowAddressesAssumption DEF Timer, Times
<1>6. heap' = [heap EXCEPT ![id] = [when |-> when, interval |-> delay, low |-> low]]
  BY <1>1 DEF NewTimer
<1>7. heap \in [Ids -> Timer]
  BY DEF IInv, TypeOK
<1>8. heap' \in [Ids -> Timer] /\ heap'[id].when = when /\ \A i \in Ids \ {id} : heap'[i] = heap[i]
  BY <1>2, <1>5, <1>6, <1>7
<1>9. alive' = alive \cup {id}
  BY <1>1 DEF NewTimer
<1> QED BY <1>1, <1>2, <1>3, <1>8, <1>9

\* The owner's addTimer() arms the new timer.
LEMMA OwnerAddInv ==
  ASSUME IInv, NEW when \in 0 .. MaxTime, NEW repeat \in BOOLEAN, NEW low \in LowAddresses,
         OwnerAddTimer(when, repeat, low)
  PROVE  IInv'
<1> DEFINE id == atomic_ + 1
<1>1. /\ id \in Ids
      /\ id \notin alive \cup fired \cup cancelled
      /\ atomic_' = id /\ alive' = alive \cup {id}
      /\ heap' \in [Ids -> Timer] /\ heap'[id].when = when
      /\ \A i \in Ids \ {id} : heap'[i] = heap[i]
  BY NewTimerFacts DEF OwnerAddTimer
<1>2. /\ timers_' = timers_ \cup {<<when, id>>}
      /\ activeTimers_' = activeTimers_ \cup {id}
      /\ UNCHANGED <<clock, lpc, now, timeoutMs, deadline, cancelTimers_, callingTimesFunctor_,
                     expired, due, requests, left, aborted, fired, cancelled>>
  BY <1>1 DEF OwnerAddTimer, Insert, pollVars, runVars, queueVars, history
<1> HIDE DEF id
<1>3. QueuedAdds' = QueuedAdds
  BY <1>2 DEF QueuedAdds
<1>4. id \notin activeTimers_ /\ id \notin expired /\ id \notin QueuedAdds
  BY <1>1 DEF IInv, TimersOwnedOnce
<1>5. when \in Times
  BY MaxTimeAssumption DEF Times
<1>6. id \in 0 .. MaxTimers /\ 1 .. atomic_ \subseteq 1 .. id /\ id \in 1 .. id
  BY <1>1 DEF Ids, id, IInv, TypeOK
<1>7. TypeOK'
  BY <1>1, <1>2, <1>5, <1>6 DEF IInv, TypeOK
<1>8. MirrorInv'
  BY <1>1, <1>2, <1>4 DEF IInv, TypeOK, MirrorInv
<1>9. TimersOwnedOnce' /\ FreshInv'
  BY <1>1, <1>2, <1>3, <1>4, <1>6 DEF IInv, TimersOwnedOnce, FreshInv
<1>10. CancelInv' /\ BatchInv'
  BY <1>1, <1>2, <1>3, <1>4 DEF IInv, CancelInv, BatchInv
<1>11. TimeInv'
  BY <1>1, <1>2, <1>3, <1>4 DEF IInv, TypeOK, TimeInv
<1> QED BY <1>7, <1>8, <1>9, <1>10, <1>11 DEF IInv

\* Another thread's addTimer() queues a request for the new timer.
LEMMA ForeignAddInv ==
  ASSUME IInv, NEW when \in 0 .. MaxTime, NEW repeat \in BOOLEAN, NEW low \in LowAddresses,
         ForeignAddTimer(when, repeat, low)
  PROVE  IInv'
<1> DEFINE id == atomic_ + 1
           r == [op |-> "add", id |-> id]
<1>1. /\ id \in Ids
      /\ id \notin alive \cup fired \cup cancelled
      /\ atomic_' = id /\ alive' = alive \cup {id}
      /\ heap' \in [Ids -> Timer]
      /\ \A i \in Ids \ {id} : heap'[i] = heap[i]
  BY NewTimerFacts DEF ForeignAddTimer
<1>2. /\ requests' = Append(requests, r)
      /\ UNCHANGED <<clock, lpc, now, timeoutMs, deadline, timers_, activeTimers_, cancelTimers_,
                     callingTimesFunctor_, expired, due, left, aborted, fired, cancelled>>
  BY DEF ForeignAddTimer, pollVars, runVars, history
<1>3. r \in Request /\ r.op = "add" /\ r.id = id
  BY <1>1 DEF Request
<1> HIDE DEF id, r
<1>4. id \notin activeTimers_ /\ id \notin expired /\ id \notin QueuedAdds
  BY <1>1 DEF IInv, TimersOwnedOnce
<1>5. /\ requests' \in Seq(Request) /\ Len(requests') = Len(requests) + 1
      /\ QueuedAdds' = QueuedAdds \cup {id}
      /\ \A i, j \in DOMAIN requests' :
              requests'[i].op = "add" /\ requests'[j].op = "add"
                /\ requests'[i].id = requests'[j].id => i = j
  BY <1>2, <1>3, <1>4, AppendRequest DEF IInv
<1>6. id \in 0 .. MaxTimers /\ 1 .. atomic_ \subseteq 1 .. id /\ id \in 1 .. id
  BY <1>1 DEF Ids, id, IInv, TypeOK
<1>7. left' \in 0 .. Len(requests')
  BY <1>2, <1>5 DEF IInv, TypeOK
<1>8. TypeOK'
  BY <1>1, <1>2, <1>5, <1>6, <1>7 DEF IInv, TypeOK
<1>9. MirrorInv'
  BY <1>1, <1>2, <1>4 DEF IInv, TypeOK, MirrorInv
<1>10. TimersOwnedOnce' /\ FreshInv'
  BY <1>1, <1>2, <1>4, <1>5, <1>6 DEF IInv, TimersOwnedOnce, FreshInv
<1>11. CancelInv' /\ BatchInv'
  BY <1>1, <1>2, <1>5 DEF IInv, CancelInv, BatchInv
<1>12. TimeInv'
  BY <1>1, <1>2, <1>4, <1>5 DEF IInv, TypeOK, TimeInv
<1> QED BY <1>8, <1>9, <1>10, <1>11, <1>12 DEF IInv

\* Another thread's cancelTimer() queues a request that adds nothing.
LEMMA ForeignCancelInv ==
  ASSUME IInv, NEW id \in Ids, ForeignCancelTimer(id)
  PROVE  IInv'
<1> DEFINE r == [op |-> "cancel", id |-> id]
<1>1. /\ requests' = Append(requests, r)
      /\ UNCHANGED <<clock, lpc, now, timeoutMs, deadline, timers_, activeTimers_, cancelTimers_,
                     heap, alive, atomic_, callingTimesFunctor_, expired, due, left, aborted,
                     fired, cancelled>>
  BY DEF ForeignCancelTimer, pollVars, timerVars, runVars, history
<1>2. r \in Request /\ r.op # "add"
  BY DEF Request
<1> HIDE DEF r
<1>3. /\ requests' \in Seq(Request) /\ Len(requests') = Len(requests) + 1
      /\ QueuedAdds' = QueuedAdds
      /\ \A i, j \in DOMAIN requests' :
              requests'[i].op = "add" /\ requests'[j].op = "add"
                /\ requests'[i].id = requests'[j].id => i = j
  BY <1>1, <1>2, AppendRequest DEF IInv
<1>4. left' \in 0 .. Len(requests')
  BY <1>1, <1>3 DEF IInv, TypeOK
<1>5. TypeOK'
  BY <1>1, <1>3, <1>4 DEF IInv, TypeOK
<1>6. MirrorInv' /\ TimersOwnedOnce' /\ FreshInv'
  BY <1>1, <1>3 DEF IInv, MirrorInv, TimersOwnedOnce, FreshInv
<1>7. CancelInv' /\ BatchInv' /\ TimeInv'
  BY <1>1, <1>3 DEF IInv, CancelInv, BatchInv, TimeInv
<1> QED BY <1>5, <1>6, <1>7 DEF IInv

\* cancelTimerInLoop(), wherever it is called, when what else happens takes no
\* timer from the queue of requests.
LEMMA CancelInLoopInv ==
  ASSUME IInv, NEW id \in Ids, CancelTimerInLoop(id),
         QueuedAdds' = QueuedAdds,
         \A i, j \in DOMAIN requests' :
            requests'[i].op = "add" /\ requests'[j].op = "add"
              /\ requests'[i].id = requests'[j].id => i = j,
         requests' \in Seq(Request), left' \in 0 .. Len(requests'),
         UNCHANGED <<clock, lpc, now, timeoutMs, deadline, callingTimesFunctor_, expired, due,
                     aborted, fired>>
  PROVE  IInv'
<1>0. UNCHANGED <<heap, atomic_>>
  BY DEF CancelTimerInLoop
<1>1. CASE CancelArmed(id)
  <2>1. /\ id \in activeTimers_ /\ alive' = alive \ {id} /\ activeTimers_' = activeTimers_ \ {id}
        /\ timers_' = timers_ \ {<<heap[id].when, id>>}
        /\ cancelled' = cancelled \cup {id} /\ cancelTimers_' = cancelTimers_
    BY <1>1 DEF CancelArmed, Deleted
  <2>2. id \in alive /\ id \notin QueuedAdds /\ id \notin expired
    BY <2>1 DEF IInv, TimersOwnedOnce
  <2>3. TypeOK'
    BY <1>0, <2>1 DEF IInv, TypeOK
  <2>4. MirrorInv'
    BY <1>0, <2>1 DEF IInv, MirrorInv
  <2>5. TimersOwnedOnce' /\ FreshInv'
    BY <1>0, <2>1, <2>2 DEF IInv, TimersOwnedOnce, FreshInv
  <2>6. CancelInv' /\ BatchInv' /\ TimeInv'
    BY <1>0, <2>1, <2>2 DEF IInv, CancelInv, BatchInv, TimeInv
  <2> QED BY <2>3, <2>4, <2>5, <2>6 DEF IInv
<1>2. CASE CancelNotArmed(id)
  <2>1. /\ id \notin activeTimers_
        /\ cancelTimers_' = Remembered(id)
        /\ cancelled' = IF id \in expired THEN cancelled \cup {id} ELSE cancelled
        /\ UNCHANGED <<timers_, activeTimers_, alive>>
    BY <1>2 DEF CancelNotArmed
  <2>2. id \in expired => id \in alive /\ id \notin QueuedAdds /\ callingTimesFunctor_
    BY DEF IInv, TimersOwnedOnce, BatchInv
  <2>3. /\ cancelTimers_' \subseteq Ids /\ cancelTimers_ \subseteq cancelTimers_'
        /\ id \in expired => id \in cancelTimers_'
    BY <2>1, <2>2 DEF Remembered, IInv, TypeOK
  <2>4. TypeOK'
    BY <1>0, <2>1, <2>3 DEF IInv, TypeOK
  <2>5. MirrorInv' /\ TimersOwnedOnce'
    BY <1>0, <2>1 DEF IInv, MirrorInv, TimersOwnedOnce
  <2>6. FreshInv'
    BY <1>0, <2>1, <2>2 DEF IInv, FreshInv
  <2>7. CancelInv' /\ BatchInv' /\ TimeInv'
    BY <1>0, <2>1, <2>2, <2>3 DEF IInv, CancelInv, BatchInv, TimeInv
  <2> QED BY <2>4, <2>5, <2>6, <2>7 DEF IInv
<1> QED BY <1>1, <1>2 DEF CancelTimerInLoop

\* The owner's cancelTimer().
LEMMA OwnerCancelInv ==
  ASSUME IInv, NEW id \in Ids, OwnerCancelTimer(id)
  PROVE  IInv'
<1>1. /\ CancelTimerInLoop(id)
      /\ UNCHANGED <<clock, lpc, now, timeoutMs, deadline, callingTimesFunctor_, expired, due,
                     requests, left, aborted, fired>>
  BY DEF OwnerCancelTimer, pollVars, runVars, queueVars
<1>2. QueuedAdds' = QueuedAdds
  BY <1>1 DEF QueuedAdds
<1>3. /\ \A i, j \in DOMAIN requests' :
            requests'[i].op = "add" /\ requests'[j].op = "add"
              /\ requests'[i].id = requests'[j].id => i = j
      /\ requests' \in Seq(Request) /\ left' \in 0 .. Len(requests')
  BY <1>1 DEF IInv, TypeOK, FreshInv
<1> QED BY <1>1, <1>2, <1>3, CancelInLoopInv

\* doPendingFunctors() runs a request: it arms the timer that waited for it, or
\* cancels.
LEMMA RunRequestInv ==
  ASSUME IInv, RunRequest
  PROVE  IInv'
<1> DEFINE r == Head(requests)
<1>1. /\ lpc = "pending" /\ left > 0
      /\ requests' = Tail(requests) /\ left' = left - 1
      /\ UNCHANGED <<clock, lpc, now, timeoutMs, deadline, callingTimesFunctor_, expired, due,
                     aborted, fired>>
  BY DEF RunRequest, OwnerAt, pollVars, runVars
<1>2. /\ r \in Request
      /\ requests' \in Seq(Request) /\ Len(requests') = Len(requests) - 1
      /\ r.op = "add" => r.id \in QueuedAdds
      /\ QueuedAdds' = QueuedAdds \ (IF r.op = "add" THEN {r.id} ELSE {})
      /\ \A i, j \in DOMAIN requests' :
              requests'[i].op = "add" /\ requests'[j].op = "add"
                /\ requests'[i].id = requests'[j].id => i = j
  BY <1>1, TailRequest DEF IInv
<1>3. \/ /\ r.op = "add" /\ Insert({r.id}, heap)
         /\ UNCHANGED <<cancelTimers_, heap, alive, atomic_, cancelled>>
      \/ r.op = "cancel" /\ CancelTimerInLoop(r.id)
  BY DEF RunRequest
<1> HIDE DEF r
<1>4. r.id \in Ids
  BY <1>2 DEF Request
<1>5. left' \in 0 .. Len(requests')
  BY <1>1, <1>2 DEF IInv, TypeOK
<1>6. CASE r.op = "cancel"
  <2>1. QueuedAdds' = QueuedAdds /\ CancelTimerInLoop(r.id)
    BY <1>2, <1>3, <1>6
  <2> QED BY <1>1, <1>2, <1>4, <1>5, <2>1, CancelInLoopInv
<1>7. CASE r.op = "add"
  <2>1. /\ timers_' = timers_ \cup {<<heap[r.id].when, r.id>>}
        /\ activeTimers_' = activeTimers_ \cup {r.id}
        /\ UNCHANGED <<cancelTimers_, heap, alive, atomic_, cancelled>>
    BY <1>3, <1>7 DEF Insert
  <2>2. r.id \in QueuedAdds /\ QueuedAdds' = QueuedAdds \ {r.id}
    BY <1>2, <1>7
  <2>3. <<heap[r.id].when, r.id>> \in Times \X Ids
    BY <1>4 DEF IInv, TypeOK, Timer
  <2>4. TypeOK'
    BY <1>1, <1>2, <1>4, <1>5, <2>1, <2>3 DEF IInv, TypeOK
  <2>5. MirrorInv'
    BY <2>1 DEF IInv, MirrorInv
  <2>6. TimersOwnedOnce'
    BY <1>1, <2>1, <2>2 DEF IInv, TimersOwnedOnce
  <2>7. FreshInv'
    BY <1>1, <1>2, <2>1 DEF IInv, FreshInv
  <2>8. CancelInv' /\ BatchInv'
    BY <1>1, <2>1, <2>2 DEF IInv, CancelInv, BatchInv
  <2>9. TimeInv'
    BY <1>1, <2>1, <2>2 DEF IInv, TimeInv
  <2> QED BY <2>4, <2>5, <2>6, <2>7, <2>8, <2>9 DEF IInv
<1> QED BY <1>2, <1>6, <1>7 DEF Request

\* getExpiredTimers() moves the timers that are due from the indexes to the
\* batch.
LEMMA RunTimerInv ==
  ASSUME IInv, RunTimer
  PROVE  IInv'
<1> DEFINE batch == {e \in timers_ : Expired(e)}
           ids == {id \in activeTimers_ : Expired(<<heap[id].when, id>>)}
<1>1. /\ lpc = "events" /\ lpc' = "trigger" /\ callingTimesFunctor_' = TRUE /\ cancelTimers_' = {}
      /\ timers_' = timers_ \ batch /\ expired' = {e[2] : e \in batch}
      /\ activeTimers_' = activeTimers_ \ expired' /\ due' = expired'
      /\ UNCHANGED <<clock, now, timeoutMs, deadline, heap, alive, atomic_, requests, left,
                     aborted, fired, cancelled>>
  BY DEF RunTimer, OwnerAt, GetExpiredTimers, Disarmed, pollVars, queueVars, history
<1>2. expired = {}
  BY <1>1 DEF IInv, BatchInv
<1>3. timers_ = {<<heap[id].when, id>> : id \in activeTimers_}
  BY DEF IInv, MirrorInv
<1>4. batch = {<<heap[id].when, id>> : id \in ids}
  BY <1>3
<1> HIDE DEF batch
<1>5. expired' = ids
  <2> HIDE DEF ids
  <2>1. \A id \in ids : <<heap[id].when, id>> \in batch /\ <<heap[id].when, id>>[2] = id
    BY <1>4
  <2>2. \A e \in batch : e[2] \in ids
    BY <1>4
  <2> QED BY <1>1, <2>1, <2>2, Zenon
<1>6. ids \subseteq activeTimers_ /\ \A id \in ids : heap[id].when <= now
  <2>1. \A id \in activeTimers_ : heap[id].when \in Nat
    BY MaxTimeAssumption DEF IInv, TypeOK, Timer, Times
  <2>2. now \in Nat
    BY MaxTimeAssumption DEF IInv, TypeOK
  <2> QED BY <2>1, <2>2 DEF Expired
<1>7. timers_' = {<<heap[id].when, id>> : id \in activeTimers_ \ ids}
  BY <1>1, <1>3, <1>4
<1> HIDE DEF ids
<1>8. QueuedAdds' = QueuedAdds
  BY <1>1 DEF QueuedAdds
<1>9. ids \subseteq Ids
  BY <1>6 DEF IInv, TypeOK
<1>10. callingTimesFunctor_' \in BOOLEAN
  BY <1>1, Zenon
<1>11. timers_' \subseteq Times \X Ids
  BY <1>1 DEF IInv, TypeOK
<1>12. TypeOK'
  BY <1>1, <1>5, <1>9, <1>10, <1>11 DEF IInv, TypeOK
<1>13. MirrorInv'
  BY <1>1, <1>5, <1>7 DEF MirrorInv
<1>14. TimersOwnedOnce' /\ FreshInv'
  BY <1>1, <1>2, <1>5, <1>6, <1>8 DEF IInv, TimersOwnedOnce, FreshInv
<1>15. CancelInv'
  BY <1>1, <1>5, <1>6, <1>8 DEF IInv, CancelInv
<1>16. BatchInv'
  BY <1>1 DEF BatchInv
<1>17. TimeInv'
  BY <1>1, <1>5, <1>6, <1>8 DEF IInv, TimeInv
<1> QED BY <1>12, <1>13, <1>14, <1>15, <1>16, <1>17 DEF IInv

\* A timer of the batch is triggered.
LEMMA TriggerInv ==
  ASSUME IInv, NEW id \in Ids, Trigger(id)
  PROVE  IInv'
<1>1. /\ lpc = "trigger" /\ lpc' = "callback" /\ id \in due
      /\ due' = due \ {id} /\ fired' = fired \cup {id}
      /\ UNCHANGED <<clock, now, timeoutMs, deadline, timers_, activeTimers_, cancelTimers_, heap,
                     alive, atomic_, callingTimesFunctor_, expired, requests, left, aborted,
                     cancelled>>
  BY DEF Trigger, OwnerAt, pollVars, timerVars, queueVars
<1>2. QueuedAdds' = QueuedAdds
  BY <1>1 DEF QueuedAdds
<1>3. id \in expired /\ id \in alive /\ id \notin activeTimers_ /\ id \notin QueuedAdds
  BY <1>1 DEF IInv, TypeOK, TimersOwnedOnce
<1>4. TypeOK'
  BY <1>1 DEF IInv, TypeOK
<1>5. MirrorInv' /\ TimersOwnedOnce'
  BY <1>1, <1>2 DEF IInv, MirrorInv, TimersOwnedOnce
<1>6. FreshInv'
  BY <1>1, <1>3 DEF IInv, FreshInv
<1>7. CancelInv' /\ BatchInv'
  BY <1>1, <1>2 DEF IInv, CancelInv, BatchInv
<1>8. TimeInv'
  BY <1>1, <1>2, <1>3 DEF IInv, TimeInv
<1> QED BY <1>4, <1>5, <1>6, <1>7, <1>8 DEF IInv

\* The end of runTimer() gives each timer of the batch back to the indexes, or
\* deletes it.
LEMMA FinishInv ==
  ASSUME IInv, FinishRunTimer
  PROVE  IInv'
<1> DEFINE again == {id \in expired : Restarts(id)}
<1>1. /\ lpc = "trigger" /\ lpc' = "pending" /\ due = {} /\ callingTimesFunctor_' = FALSE
      /\ heap' = [id \in Ids |-> IF id \in again
                    THEN [heap[id] EXCEPT !.when = now + heap[id].interval] ELSE heap[id]]
      /\ timers_' = timers_ \cup {<<heap'[id].when, id>> : id \in again}
      /\ activeTimers_' = activeTimers_ \cup again
      /\ alive' = alive \ (expired \ again)
      /\ expired' = {} /\ left' = Len(requests)
      /\ UNCHANGED <<clock, now, timeoutMs, deadline, cancelTimers_, atomic_, due, requests,
                     aborted, fired, cancelled>>
  BY DEF FinishRunTimer, OwnerAt, Insert, pollVars, history
<1>2. again \subseteq expired /\ \A id \in again : heap[id].interval > 0 /\ id \notin cancelTimers_
  BY DEF Restarts
<1> HIDE DEF again
<1>3. /\ expired \subseteq Ids /\ again \subseteq Ids /\ now \in 0 .. MaxTime
      /\ \A id \in Ids : heap[id] \in Timer
  BY <1>2 DEF IInv, TypeOK
<1>4. \A id \in Ids : /\ heap'[id] \in Timer
                      /\ heap'[id].interval = heap[id].interval
                      /\ id \notin again => heap'[id] = heap[id]
  <2>1. \A id \in Ids : heap[id].interval \in 0 .. MaxTime
    BY <1>3 DEF Timer
  <2>2. \A id \in Ids : now + heap[id].interval \in Times
    BY <1>3, <2>1, MaxTimeAssumption DEF Times
  <2> QED BY <1>1, <1>3, <2>2 DEF Timer
<1>5. heap' \in [Ids -> Timer]
  BY <1>1, <1>4
<1>6. \A id \in Ids : heap'[id].when \in Times
  BY <1>4 DEF Timer
<1>7. QueuedAdds' = QueuedAdds
  BY <1>1 DEF QueuedAdds
<1>8. again \cap activeTimers_ = {} /\ again \cap QueuedAdds = {} /\ again \subseteq alive
  BY <1>2 DEF IInv, TimersOwnedOnce
<1>9. callingTimesFunctor_' \in BOOLEAN
  BY <1>1, Zenon
<1>10. left' \in 0 .. Len(requests')
  BY <1>1 DEF IInv, TypeOK
<1>11. TypeOK'
  <2>1. timers_' \subseteq Times \X Ids
    <3>1. \A id \in again : <<heap'[id].when, id>> \in Times \X Ids
      BY <1>3, <1>6
    <3>2. timers_ \subseteq Times \X Ids
      BY DEF IInv, TypeOK
    <3>3. timers_' = timers_ \cup {<<heap'[id].when, id>> : id \in again}
      BY <1>1
    <3> QED BY <3>1, <3>2, <3>3
  <2> QED BY <1>1, <1>3, <1>5, <1>9, <1>10, <2>1 DEF IInv, TypeOK
<1>12. MirrorInv'
  <2>1. \A id \in activeTimers_ : heap'[id] = heap[id]
    BY <1>4, <1>8 DEF IInv, TypeOK
  <2> QED BY <1>1, <2>1 DEF IInv, MirrorInv
<1>13. TimersOwnedOnce'
  BY <1>1, <1>2, <1>7, <1>8 DEF IInv, TimersOwnedOnce
<1>14. FreshInv'
  BY <1>1 DEF IInv, FreshInv
<1>15. CancelInv'
  BY <1>1, <1>2, <1>7 DEF IInv, CancelInv
<1>16. BatchInv'
  BY <1>1 DEF BatchInv
<1>17. TimeInv'
  <2>1. \A id \in fired : heap'[id].interval = 0 => id \notin again
    BY <1>2, <1>3, <1>4
  <2>2. \A id \in fired : heap'[id].interval = heap[id].interval
    BY <1>4 DEF IInv, TypeOK
  <2> QED BY <1>1, <1>7, <2>1, <2>2 DEF IInv, TimeInv
<1> QED BY <1>11, <1>12, <1>13, <1>14, <1>15, <1>16, <1>17 DEF IInv

-----------------------------------------------------------------------------
\* Every step keeps the invariant.
LEMMA NextInv == IInv /\ [Next]_vars => IInv'
<1> SUFFICES ASSUME IInv, [Next]_vars PROVE IInv'
  OBVIOUS
<1>1. CASE LoopStep
  BY <1>1, LoopStepInv, OtherQuietInv, RunTimerInv, TriggerInv, FinishInv, RunRequestInv
     DEF LoopStep
<1>2. CASE PollEvent \/ Tick
  BY <1>2, LoopStepInv, OtherQuietInv
<1>3. CASE Calls
  BY <1>3, OwnerAddInv, ForeignAddInv, OwnerCancelInv, ForeignCancelInv DEF Calls
<1>4. CASE UNCHANGED vars
  <2>1. UNCHANGED <<clock, lpc, now, timeoutMs, deadline, timers_, activeTimers_, cancelTimers_,
                    heap, alive, atomic_, callingTimesFunctor_, expired, due, requests, left,
                    aborted, fired, cancelled>>
    BY <1>4 DEF vars, queue, timerVars, runVars, pollVars, queueVars, history
  <2>2. TypeOK' /\ BatchInv' /\ now' <= clock'
    BY <2>1 DEF IInv, TypeOK, BatchInv, TimeInv
  <2> QED BY <2>1, <2>2, QuietStep
<1> QED BY <1>1, <1>2, <1>3, <1>4 DEF Next

\* Every reachable state satisfies the invariant.
LEMMA Inductive == Spec => []IInv
BY InitInv, NextInv, PTL DEF Spec

\* timers_ and activeTimers_ hold the same timers, under their expirations.
THEOREM TimerQueueIndexesAgree == Spec => []IndexesAgree
BY Inductive, IInvImplies, PTL

\* Every Timer object that has not been deleted has exactly one owner.
THEOREM TimerQueueTimersOwnedOnce == Spec => []TimersOwnedOnce
BY Inductive, IInvImplies, PTL

\* A cancel that found its timer, armed or in the running batch, is final.
THEOREM TimerQueueCancelledNeverRearmed == Spec => []CancelledNeverRearmed
BY Inductive, IInvImplies, PTL

\* runTimer() triggers no timer before its time and none without an interval
\* twice.
THEOREM TimerQueueTriggeredWhenDue == Spec => TriggeredWhenDue
<1>1. IInv /\ [Next]_vars =>
        [\A id \in Ids : Trigger(id) =>
           /\ heap[id].when <= clock
           /\ heap[id].interval = 0 => id \notin fired]_vars
  <2> SUFFICES ASSUME IInv, NEW id \in Ids, Trigger(id)
               PROVE  heap[id].when <= clock /\ (heap[id].interval = 0 => id \notin fired)
    OBVIOUS
  <2>1. id \in due /\ id \in expired
    BY DEF Trigger, IInv, TypeOK
  <2>2. heap[id].when \in Nat /\ now \in Nat /\ clock \in Nat
    BY MaxTimeAssumption DEF IInv, TypeOK, Timer, Times
  <2>3. heap[id].when <= now /\ now <= clock
    BY <2>1 DEF IInv, TimeInv
  <2>4. heap[id].interval = 0 => id \notin fired
    BY <2>1 DEF IInv, TimeInv
  <2> QED BY <2>2, <2>3, <2>4
<1> QED BY <1>1, Inductive, PTL DEF Spec, TriggeredWhenDue
=============================================================================
