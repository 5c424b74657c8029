----------------------------- MODULE TimerQueue -----------------------------
(***************************************************************************)
(* TimerQueue.cpp and the part of EventLoop::loop() that drives it.        *)
(*                                                                         *)
(* The owner's position lpc in an iteration of loop():                     *)
(*   "while"     at the top, before timeoutMs is computed                  *)
(*   "poll"      in poller_->poll(timeoutMs)                               *)
(*   "events"    in handleEvent() of the active channels (user code)       *)
(*   "trigger"   in runTimer(), between two callbacks                      *)
(*   "callback"  in a timer's callback (user code)                         *)
(*   "pending"   in doPendingFunctors() (user code too)                    *)
(* The owner's addTimer() and cancelTimer() take effect on the spot; other *)
(* threads' become requests in the loop's queue, which is FIFO (module     *)
(* EventLoop shows when that holds).                                       *)
(*                                                                         *)
(* Time is counted in ticks of a microsecond scale, TicksPerMs to the      *)
(* millisecond, and does not step back. A Timer object is named by its id; *)
(* "low" says that its address is below INT_MAX, the address in the pivot  *)
(* of getExpiredTimers(). atomic_ is never initialised: ids are counted    *)
(* from whatever it held, which is 0 here.                                 *)
(***************************************************************************)
EXTENDS Integers, Sequences, FiniteSets

CONSTANTS
  MaxTimers,     \* bound on the number of addTimer() calls
  MaxTime,       \* bound on the clock
  MaxRequests,   \* bound on the requests of other threads in the queue
  TicksPerMs,
  LowAddresses   \* can a Timer lie below INT_MAX / at or above it?

ASSUME MaxTimersAssumption == MaxTimers \in Nat
ASSUME MaxTimeAssumption == MaxTime \in Nat \ {0}
ASSUME MaxRequestsAssumption == MaxRequests \in Nat
ASSUME TicksPerMsAssumption == TicksPerMs \in Nat \ {0}
ASSUME LowAddressesAssumption == LowAddresses \subseteq BOOLEAN

VARIABLES
  clock,                 \* Timestamp::now()
  lpc,
  now,                   \* loop()'s local variable: sampled before poll()
  timeoutMs,
  deadline,              \* when poll()'s timeout is over
  timers_,               \* set of <<when, timer>>
  activeTimers_,         \* domain of the map from ids to timers
  cancelTimers_,
  callingTimesFunctor_,
  expired,               \* runTimer()'s batch
  due,                   \* those of the batch still to be triggered
  heap,                  \* the Timer objects, by id
  alive,                 \* those not deleted
  atomic_,               \* the last id given out
  requests,              \* queued addTimerInLoop() / cancelTimerInLoop() calls
  left,                  \* how many of them this doPendingFunctors() still runs
  aborted,               \* an assertion has failed
  fired, cancelled       \* history: ids that fired / whose cancel took hold

timerVars == <<timers_, activeTimers_, cancelTimers_, heap, alive, atomic_>>
runVars == <<callingTimesFunctor_, expired, due>>
pollVars == <<now, timeoutMs, deadline>>
queueVars == <<requests, left>>
history == <<fired, cancelled>>
queue == <<timerVars, runVars, queueVars, aborted, history>>
vars == <<clock, lpc, pollVars, queue>>

Ids == 1 .. MaxTimers
Times == 0 .. (2 * MaxTime)
Timer == [when : Times, interval : 0 .. MaxTime, low : BOOLEAN]
Request == [op : {"add", "cancel"}, id : Ids]

TypeOK ==
  /\ clock \in 1 .. MaxTime
  /\ lpc \in {"while", "poll", "events", "trigger", "callback", "pending"}
  /\ now \in 0 .. MaxTime /\ timeoutMs \in Nat /\ deadline \in Nat
  /\ timers_ \subseteq Times \X Ids
  /\ activeTimers_ \subseteq Ids /\ cancelTimers_ \subseteq Ids
  /\ callingTimesFunctor_ \in BOOLEAN
  /\ expired \subseteq Ids /\ due \subseteq expired
  /\ heap \in [Ids -> Timer]
  /\ alive \subseteq Ids /\ atomic_ \in 0 .. MaxTimers
  /\ requests \in Seq(Request) /\ left \in 0 .. Len(requests)
  /\ aborted \in BOOLEAN
  /\ fired \subseteq Ids /\ cancelled \subseteq Ids

\* A loop that has just been entered; the timers its owner adds before loop()
\* may as well be added by the first event callback.
Init ==
  /\ clock = 1 /\ lpc = "while"
  /\ now = 0 /\ timeoutMs = 0 /\ deadline = 0
  /\ timers_ = {} /\ activeTimers_ = {} /\ cancelTimers_ = {}
  /\ callingTimesFunctor_ = FALSE /\ expired = {} /\ due = {}
  /\ heap = [id \in Ids |-> [when |-> 0, interval |-> 0, low |-> FALSE]]
  /\ alive = {} /\ atomic_ = 0
  /\ requests = <<>> /\ left = 0
  /\ aborted = FALSE /\ fired = {} /\ cancelled = {}

-----------------------------------------------------------------------------
(***************************************************************************)
(* addTimer() and cancelTimer().                                           *)
(***************************************************************************)
InUserCode == lpc \in {"events", "callback", "pending"}

\* TimerQueue::addTimer(Timer*) for the timers of a set.
Insert(new, h) ==
  /\ timers_' = timers_ \cup {<<h[id].when, id>> : id \in new}
  /\ activeTimers_' = activeTimers_ \cup new

\* A new Timer. EventLoop::addTimer() is called with a point in time, past or
\* future, or with a delay, which is then also the interval when it repeats:
\* Timer::repeat() is interval > 0.
NewTimer(when, repeat, low) ==
  LET delay == IF repeat /\ when > clock THEN when - clock ELSE 0
  IN /\ atomic_ < MaxTimers
     /\ atomic_' = atomic_ + 1
     /\ heap' = [heap EXCEPT ![atomic_'] = [when |-> when, interval |-> delay, low |-> low]]
     /\ alive' = alive \cup {atomic_'}

\* addTimer() called by the owner: runInLoop() calls addTimerInLoop().
OwnerAddTimer(when, repeat, low) ==
  /\ ~aborted /\ InUserCode
  /\ NewTimer(when, repeat, low)
  /\ Insert({atomic_ + 1}, heap')
  /\ UNCHANGED <<clock, lpc, pollVars, cancelTimers_, runVars, queueVars, aborted, history>>

\* addTimer() called by another thread.
ForeignAddTimer(when, repeat, low) ==
  /\ ~aborted
  /\ Len(requests) < MaxRequests
  /\ NewTimer(when, repeat, low)
  /\ requests' = Append(requests, [op |-> "add", id |-> atomic_ + 1])
  /\ UNCHANGED <<clock, lpc, pollVars, timers_, activeTimers_, cancelTimers_, runVars, left,
                 aborted, history>>

\* Mutant of Deleted: the timer is not deleted.
DeletedNever(id) == alive

Deleted(id) == alive \ {id}

\* cancelTimerInLoop() when the timer is armed: it is deleted at once.
CancelArmed(id) ==
  /\ id \in activeTimers_
  /\ alive' = Deleted(id)
  /\ activeTimers_' = activeTimers_ \ {id}
  /\ timers_' = timers_ \ {<<heap[id].when, id>>}
  /\ cancelled' = cancelled \cup {id}
  /\ UNCHANGED cancelTimers_

\* Mutant of Remembered: a cancel during the batch is not remembered.
RememberedNever(id) == cancelTimers_

Remembered(id) == IF callingTimesFunctor_ THEN cancelTimers_ \cup {id} ELSE cancelTimers_

\* cancelTimerInLoop() otherwise: remembered while a batch is running.
CancelNotArmed(id) ==
  /\ id \notin activeTimers_
  /\ cancelTimers_' = Remembered(id)
  /\ cancelled' = IF id \in expired THEN cancelled \cup {id} ELSE cancelled
  /\ UNCHANGED <<timers_, activeTimers_, alive>>

CancelTimerInLoop(id) ==
  /\ CancelArmed(id) \/ CancelNotArmed(id)
  /\ UNCHANGED <<heap, atomic_>>

OwnerCancelTimer(id) ==
  /\ ~aborted /\ InUserCode
  /\ id <= atomic_
  /\ CancelTimerInLoop(id)
  /\ UNCHANGED <<clock, lpc, pollVars, runVars, queueVars, aborted, fired>>

ForeignCancelTimer(id) ==
  /\ ~aborted
  /\ id <= atomic_
  /\ Len(requests) < MaxRequests
  /\ requests' = Append(requests, [op |-> "cancel", id |-> id])
  /\ UNCHANGED <<clock, lpc, pollVars, timerVars, runVars, left, aborted, history>>

-----------------------------------------------------------------------------
(***************************************************************************)
(* loop().                                                                 *)
(***************************************************************************)
OwnerAt(point) == ~aborted /\ lpc = point

\* getNearestExpiration(): first element of timers_, or 0, which is not valid.
NearestExpiration ==
  IF timers_ = {} THEN 0
  ELSE (CHOOSE e \in timers_ : \A f \in timers_ : e[1] <= f[1])[1]

\* Mutant of SampledNow: does not sample now when a timer is due.
SampledNowStale(next) == IF next > clock THEN clock ELSE now

\* now = Timestamp::now(), if there is a timer that has a valid time.
SampledNow(next) == IF next > 0 THEN clock ELSE now

\* The top of loop(), up to the call of poll(). Without a timer, or with one
\* that has no valid time, now keeps its old value and the timeout is 0.
ComputeTimeout ==
  /\ OwnerAt("while")
  /\ LET next == NearestExpiration
     IN /\ now' = SampledNow(next)
        /\ timeoutMs' = IF next <= clock THEN 0 ELSE (next - clock) \div TicksPerMs
  /\ deadline' = clock + timeoutMs' * TicksPerMs
  /\ lpc' = "poll"
  /\ UNCHANGED <<clock, queue>>

PollReturns ==
  /\ OwnerAt("poll")
  /\ lpc' = "events"
  /\ UNCHANGED <<clock, pollVars, queue>>

\* poll() must return at its timeout and when a request wakes it.
PollDue == (clock >= deadline \/ requests # <<>>) /\ PollReturns

\* poll() may return earlier, for a channel's event.
PollEvent == clock < deadline /\ requests = <<>> /\ PollReturns

\* Mutant of Expired: counts a timer as expired one tick too soon.
ExpiredSoon(e) == e[1] <= now + 1

\* Entries before the pivot (now, INT_MAX) in the order of timers_.
Expired(e) == e[1] < now \/ (e[1] = now /\ heap[e[2]].low)

\* runTimer() with nothing in timers_.
RunTimerEmpty ==
  /\ OwnerAt("events")
  /\ timers_ = {}
  /\ lpc' = "pending"
  /\ left' = Len(requests)
  /\ UNCHANGED <<clock, pollVars, timerVars, runVars, requests, aborted, history>>

\* Mutant of Disarmed: leaves the batch in activeTimers_.
DisarmedNone(ids) == activeTimers_

Disarmed(ids) == activeTimers_ \ ids

GetExpiredTimers ==
  LET batch == {e \in timers_ : Expired(e)}
  IN /\ timers_' = timers_ \ batch
     /\ expired' = {e[2] : e \in batch}
     /\ activeTimers_' = Disarmed(expired')

\* assert(end == timers_.end() || now < end->first)
LowerBoundAssertion == \A e \in timers_ : ~Expired(e) => now < e[1]

\* runTimer() up to the first callback.
RunTimer ==
  /\ OwnerAt("events")
  /\ timers_ # {}
  /\ LowerBoundAssertion
  /\ callingTimesFunctor_' = TRUE
  /\ cancelTimers_' = {}
  /\ GetExpiredTimers
  /\ due' = expired'
  /\ lpc' = "trigger"
  /\ UNCHANGED <<clock, pollVars, heap, alive, atomic_, queueVars, aborted, history>>

RunTimerAborts ==
  /\ OwnerAt("events")
  /\ timers_ # {}
  /\ ~LowerBoundAssertion
  /\ aborted' = TRUE
  /\ UNCHANGED <<clock, lpc, pollVars, timerVars, runVars, queueVars, history>>

\* it->second->trigger(), in the order of timers_.
Trigger(id) ==
  /\ OwnerAt("trigger")
  /\ id \in due
  /\ \A other \in due : heap[id].when <= heap[other].when
  /\ due' = due \ {id}
  /\ fired' = fired \cup {id}
  /\ lpc' = "callback"
  /\ UNCHANGED <<clock, pollVars, timerVars, callingTimesFunctor_, expired, queueVars, aborted,
                 cancelled>>

CallbackReturns ==
  /\ OwnerAt("callback")
  /\ lpc' = "trigger"
  /\ UNCHANGED <<clock, pollVars, queue>>

\* timer->repeat() && cancelTimers_.find(timer->id()) == cancelTimers_.end()
Restarts(id) == heap[id].interval > 0 /\ id \notin cancelTimers_

\* The end of runTimer(): restart the repeating timers, delete the others.
FinishRunTimer ==
  /\ OwnerAt("trigger")
  /\ due = {}
  /\ callingTimesFunctor_' = FALSE
  /\ LET again == {id \in expired : Restarts(id)}
     IN /\ heap' = [id \in Ids |-> IF id \in again
                                   THEN [heap[id] EXCEPT !.when = now + heap[id].interval] ELSE heap[id]]
        /\ Insert(again, heap')
        /\ alive' = alive \ (expired \ again)
  /\ expired' = {}
  /\ lpc' = "pending"
  /\ left' = Len(requests)
  /\ UNCHANGED <<clock, pollVars, cancelTimers_, atomic_, due, requests, aborted, history>>

\* doPendingFunctors() runs the first request of its batch.
RunRequest ==
  /\ OwnerAt("pending")
  /\ left > 0
  /\ LET r == Head(requests)
     IN \/ /\ r.op = "add"
           /\ Insert({r.id}, heap)
           /\ UNCHANGED <<cancelTimers_, heap, alive, atomic_, cancelled>>
        \/ r.op = "cancel" /\ CancelTimerInLoop(r.id)
  /\ requests' = Tail(requests)
  /\ left' = left - 1
  /\ UNCHANGED <<clock, lpc, pollVars, runVars, aborted, fired>>

PendingDone ==
  /\ OwnerAt("pending")
  /\ left = 0
  /\ lpc' = "while"
  /\ UNCHANGED <<clock, pollVars, queue>>

Tick ==
  /\ ~aborted
  /\ clock < MaxTime
  /\ clock' = clock + 1
  /\ UNCHANGED <<lpc, pollVars, queue>>

-----------------------------------------------------------------------------
\* Steps the owner takes without waiting for anyone.
LoopStep ==
  \/ ComputeTimeout \/ PollDue
  \/ RunTimerEmpty \/ RunTimer \/ RunTimerAborts
  \/ \E id \in Ids : Trigger(id)
  \/ CallbackReturns \/ FinishRunTimer
  \/ RunRequest \/ PendingDone

Calls ==
  \/ \E when \in 0 .. MaxTime, repeat \in BOOLEAN, low \in LowAddresses :
       OwnerAddTimer(when, repeat, low) \/ ForeignAddTimer(when, repeat, low)
  \/ \E id \in Ids : OwnerCancelTimer(id) \/ ForeignCancelTimer(id)

Next == LoopStep \/ PollEvent \/ Tick \/ Calls

\* The owner keeps running and callbacks return; time passes.
Fairness == WF_vars(LoopStep) /\ WF_vars(Tick)

Spec == Init /\ [][Next]_vars
FairSpec == Spec /\ Fairness

-----------------------------------------------------------------------------
(***************************************************************************)
(* Properties.                                                             *)
(***************************************************************************)
Armed == {e[2] : e \in timers_}
QueuedAdds == {requests[i].id : i \in {j \in DOMAIN requests : requests[j].op = "add"}}

\* The two indexes of TimerQueue agree: they hold the same timers, each in
\* timers_ under the expiration that the Timer object has now. The find() and
\* the size comparisons that cancelTimerInLoop() and runTimer() assert follow.
IndexesAgree ==
  /\ TypeOK
  /\ Armed = activeTimers_
  /\ \A e \in timers_ : e[1] = heap[e[2]].when

\* Ownership of the Timer objects: each one that has not been deleted is in
\* exactly one of the queue of requests, the indexes and the running batch,
\* and nothing that has been deleted is in any of them. So no callback of a
\* deleted timer is called, none is deleted twice and none leaks, whichever
\* timers callbacks and other threads cancel, and when.
TimersOwnedOnce ==
  /\ alive = QueuedAdds \cup activeTimers_ \cup expired
  /\ QueuedAdds \cap activeTimers_ = {}
  /\ QueuedAdds \cap expired = {}
  /\ activeTimers_ \cap expired = {}

\* A cancel that found its timer armed, or in the batch being run, holds: the
\* timer is not armed again, so that at most the batch in progress still
\* calls it. (A cancel that overtakes the queued addTimerInLoop() of its timer
\* finds nothing and is lost; cancelled does not count it.)
CancelledNeverRearmed == cancelled \cap (Armed \cup QueuedAdds) = {}

\* A timer is never triggered before its time, although loop() compares with
\* the time it sampled before poll(), and one without an interval never twice.
TriggeredWhenDue ==
  [][\A id \in Ids : Trigger(id) =>
       /\ heap[id].when <= clock
       /\ heap[id].interval = 0 => id \notin fired]_vars

\* A timer whose time has come is triggered, unless it is cancelled first or
\* the assertion in getExpiredTimers() stops the program.
DueTimerFires ==
  \A id \in Ids :
    id \in Armed /\ heap[id].when <= clock
      ~> id \in fired \/ id \in cancelled \/ aborted
=============================================================================
