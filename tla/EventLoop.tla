------------------------------ MODULE EventLoop ------------------------------
(***************************************************************************)
(* The reactor core of EventLoop.cpp: the thread that owns the loop, the   *)
(* threads that hand it functors or stop it, and the eventfd between them. *)
(*                                                                         *)
(* A thread inside queueInLoop() or quit() is at one of the points         *)
(*   "emplace"  in pendingFunctors_.emplace_back(cb), which is NOT atomic: *)
(*              queueInLoop() builds its lock with std::defer_lock and     *)
(*              never takes it, so other accesses may overlap;             *)
(*   "notify"   at the test that decides about wakeup();                   *)
(*   "quit"     between quit_ = true and wakeup().                         *)
(* The owner's position in loop() is lpc:                                  *)
(*   "user"    own code before (or after) loop()                           *)
(*   "while"   at while(!quit_)                                            *)
(*   "poll"    in poller_->poll(timeoutMs, ...)                            *)
(*   "events"  calling handleEvent() of the active channels                *)
(*   "timers"  in timerQueue_->runTimer(now)                               *)
(*   "pending", "swap", "run", "functor"   in doPendingFunctors()          *)
(*                                                                         *)
(* Callbacks are arbitrary user code: in one, the owner may call           *)
(* queueInLoop() and quit() any number of times. runInLoop() is            *)
(* queueInLoop() for other threads; for the owner it calls the functor on  *)
(* the spot, inside the callback it is in. looping_ is lpc # "user".       *)
(***************************************************************************)
EXTENDS Naturals, Sequences

CONSTANTS
  Owner,        \* the thread that created the loop (threadId_)
  Others,       \* the other threads that hold a pointer to it
  MaxFunctors   \* bound on the number of queueInLoop() calls

ASSUME OwnerAssumption == Owner \notin Others
ASSUME MaxFunctorsAssumption == MaxFunctors \in Nat

VARIABLES
  lpc,                       \* where the owner is in loop()
  quit_,
  callingPendingFunctors_,
  pendingFunctors_,          \* functors are numbered in the order of the calls
  functors,                  \* doPendingFunctors()'s local vector, yet to run
  wakeupFd_,                 \* is the eventfd's counter positive?
  activeChannels_,           \* what the last poll() reported, yet to handle
  timeoutMs,                 \* 0, or 1 for any positive timeout
  call,                      \* where each thread is in queueInLoop()/quit()
  arg,                       \* the functor it is queueing
  torn,                      \* did another access overlap its emplace_back?
  crashed,                   \* the vector's memory was corrupted
  made,                      \* number of functors so far
  emplaced, ran,             \* history: functors in queueing / running order
  raced,                     \* history: did accesses ever overlap?
  early                      \* history: queued by the owner outside loop()

shared == <<quit_, callingPendingFunctors_, wakeupFd_>>
queue  == <<pendingFunctors_, crashed, emplaced, early>>
callers == <<call, arg, torn, made, raced>>
batch  == <<activeChannels_, timeoutMs>>
vars == <<lpc, shared, queue, callers, batch, functors, ran>>

Threads == Others \cup {Owner}
Functors == 1 .. MaxFunctors
LoopPoints == {"user", "while", "poll", "events", "timers",
               "pending", "swap", "run", "functor"}

TypeOK ==
  /\ lpc \in LoopPoints
  /\ quit_ \in BOOLEAN
  /\ callingPendingFunctors_ \in BOOLEAN
  /\ pendingFunctors_ \in Seq(Functors)
  /\ functors \in Seq(Functors)
  /\ wakeupFd_ \in BOOLEAN
  /\ activeChannels_ \subseteq {"wakeup", "io"}
  /\ timeoutMs \in 0 .. 1
  /\ call \in [Threads -> {"idle", "emplace", "notify", "quit"}]
  /\ arg \in [Threads -> 0 .. MaxFunctors]
  /\ torn \in [Threads -> BOOLEAN]
  /\ crashed \in BOOLEAN
  /\ made \in 0 .. MaxFunctors
  /\ emplaced \in Seq(Functors)
  /\ ran \in Seq(Functors)
  /\ raced \in BOOLEAN
  /\ early \subseteq Functors

Init ==
  /\ lpc = "user"
  /\ quit_ = FALSE
  /\ callingPendingFunctors_ = FALSE
  /\ pendingFunctors_ = <<>>
  /\ functors = <<>>
  /\ wakeupFd_ = FALSE
  /\ activeChannels_ = {}
  /\ timeoutMs = 0
  /\ call = [t \in Threads |-> "idle"]
  /\ arg = [t \in Threads |-> 0]
  /\ torn = [t \in Threads |-> FALSE]
  /\ crashed = FALSE
  /\ made = 0
  /\ emplaced = <<>>
  /\ ran = <<>>
  /\ raced = FALSE
  /\ early = {}

-----------------------------------------------------------------------------
(***************************************************************************)
(* queueInLoop() and quit(), called by any thread.                         *)
(***************************************************************************)

\* The owner runs user code outside loop() and inside callbacks.
InUserCode ==
  \/ lpc \in {"user", "timers", "functor"}
  \/ lpc = "events" /\ "io" \in activeChannels_

MayCall(t) ==
  /\ ~crashed
  /\ call[t] = "idle"
  /\ t = Owner => InUserCode

\* An access to pendingFunctors_ that starts while others are in emplace_back.
Overlap(t) ==
  /\ torn' = [u \in Threads |->
                IF u = t THEN \E v \in Threads \ {t} : call[v] = "emplace"
                         ELSE torn[u] \/ call[u] = "emplace"]
  /\ raced' = (raced \/ \E v \in Threads \ {t} : call[v] = "emplace")

QueueInLoop(t) ==
  /\ MayCall(t)
  /\ made < MaxFunctors
  /\ made' = made + 1
  /\ arg' = [arg EXCEPT ![t] = made + 1]
  /\ call' = [call EXCEPT ![t] = "emplace"]
  /\ Overlap(t)
  /\ UNCHANGED <<lpc, shared, queue, batch, functors, ran>>

\* What an undisturbed emplace_back leaves in the vector.
Pushed(f) == Append(pendingFunctors_, f)

\* What emplace_backs that overlapped another access leave, when the program
\* survives: the element stored, lost, or stored over the last one.
TornPushed(f) ==
  {Pushed(f), pendingFunctors_} \cup
  {SubSeq(pendingFunctors_, 1, n - 1) \o <<f>> : n \in {Len(pendingFunctors_)} \ {0}}

EmplaceBack(t) ==
  /\ ~crashed
  /\ call[t] = "emplace"
  /\ \/ /\ ~torn[t]
        /\ pendingFunctors_' = Pushed(arg[t])
        /\ UNCHANGED crashed
     \/ /\ torn[t]
        /\ pendingFunctors_' \in TornPushed(arg[t])
        /\ UNCHANGED crashed
     \/ /\ torn[t]
        /\ crashed' = TRUE
        /\ UNCHANGED pendingFunctors_
  /\ emplaced' = Append(emplaced, arg[t])
  /\ early' = IF t = Owner /\ lpc = "user" THEN early \cup {arg[t]} ELSE early
  /\ call' = [call EXCEPT ![t] = "notify"]
  /\ arg' = [arg EXCEPT ![t] = 0]
  /\ torn' = [torn EXCEPT ![t] = FALSE]
  /\ UNCHANGED <<lpc, shared, made, raced, batch, functors, ran>>

\* Mutant of NeedsWakeup: forgets functors queued by running functors.
NeedsWakeupOthersOnly(t) == t # Owner

\* if (!isInLoopThread() || callingPendingFunctors_) wakeup();
NeedsWakeup(t) == t # Owner \/ callingPendingFunctors_

Notify(t) ==
  /\ ~crashed
  /\ call[t] = "notify"
  /\ wakeupFd_' = (wakeupFd_ \/ NeedsWakeup(t))
  /\ call' = [call EXCEPT ![t] = "idle"]
  /\ UNCHANGED <<lpc, quit_, callingPendingFunctors_, queue, arg, torn, made,
                 raced, batch, functors, ran>>

Quit(t) ==
  /\ MayCall(t)
  /\ quit_' = TRUE
  /\ call' = [call EXCEPT ![t] = IF t = Owner THEN "idle" ELSE "quit"]
  /\ UNCHANGED <<lpc, callingPendingFunctors_, wakeupFd_, queue, arg, torn,
                 made, raced, batch, functors, ran>>

QuitWakeup(t) ==
  /\ ~crashed
  /\ call[t] = "quit"
  /\ wakeupFd_' = TRUE
  /\ call' = [call EXCEPT ![t] = "idle"]
  /\ UNCHANGED <<lpc, quit_, callingPendingFunctors_, queue, arg, torn, made,
                 raced, batch, functors, ran>>

-----------------------------------------------------------------------------
(***************************************************************************)
(* loop(), executed by the owner.                                          *)
(***************************************************************************)
OwnerAt(point) ==
  /\ ~crashed
  /\ lpc = point
  /\ call[Owner] = "idle"

\* looping_ = true; quit_ = false;
EnterLoop ==
  /\ OwnerAt("user")
  /\ lpc' = "while"
  /\ quit_' = FALSE
  /\ UNCHANGED <<callingPendingFunctors_, wakeupFd_, queue, callers, batch,
                 functors, ran>>

ExitLoop ==
  /\ OwnerAt("while")
  /\ quit_
  /\ lpc' = "user"
  /\ UNCHANGED <<shared, queue, callers, batch, functors, ran>>

\* Mutant of ComputeTimeout: while(true).
ComputeTimeoutForever ==
  /\ OwnerAt("while")
  /\ activeChannels_' = {}
  /\ timeoutMs' \in 0 .. 1
  /\ lpc' = "poll"
  /\ UNCHANGED <<shared, queue, callers, functors, ran>>

\* The timeout is positive when the nearest timer is at least 1 ms away.
ComputeTimeout ==
  /\ OwnerAt("while")
  /\ ~quit_
  /\ activeChannels_' = {}
  /\ timeoutMs' \in 0 .. 1
  /\ lpc' = "poll"
  /\ UNCHANGED <<shared, queue, callers, functors, ran>>

\* epoll_wait returns when a descriptor is ready, when the timeout has passed
\* or, without events, when a signal interrupts it.
Poll ==
  /\ OwnerAt("poll")
  /\ \/ \E io \in SUBSET {"io"} :
          activeChannels_' = io \cup (IF wakeupFd_ THEN {"wakeup"} ELSE {})
     \/ activeChannels_' = {}
  /\ lpc' = "events"
  /\ UNCHANGED <<timeoutMs, shared, queue, callers, functors, ran>>

\* EventLoop::handleRead, the wakeup channel's callback.
HandleRead ==
  /\ OwnerAt("events")
  /\ "wakeup" \in activeChannels_
  /\ wakeupFd_' = FALSE
  /\ activeChannels_' = activeChannels_ \ {"wakeup"}
  /\ UNCHANGED <<lpc, quit_, callingPendingFunctors_, timeoutMs, queue,
                 callers, functors, ran>>

\* The handleEvent() of the other channels returns.
HandleEvent ==
  /\ OwnerAt("events")
  /\ "io" \in activeChannels_
  /\ activeChannels_' = activeChannels_ \ {"io"}
  /\ UNCHANGED <<lpc, timeoutMs, shared, queue, callers, functors, ran>>

EventsHandled ==
  /\ OwnerAt("events")
  /\ activeChannels_ = {}
  /\ lpc' = "timers"
  /\ UNCHANGED <<shared, queue, callers, batch, functors, ran>>

RunTimerReturns ==
  /\ OwnerAt("timers")
  /\ lpc' = "pending"
  /\ UNCHANGED <<shared, queue, callers, batch, functors, ran>>

\* callingPendingFunctors_ = true, before the swap.
DoPendingFunctors ==
  /\ OwnerAt("pending")
  /\ callingPendingFunctors_' = TRUE
  /\ lpc' = "swap"
  /\ UNCHANGED <<quit_, wakeupFd_, queue, callers, batch, functors, ran>>

\* Mutant of SwapFunctors: functors = pendingFunctors_, a copy.
SwapFunctorsCopy ==
  /\ OwnerAt("swap")
  /\ functors' = pendingFunctors_
  /\ Overlap(Owner)
  /\ lpc' = "run"
  /\ UNCHANGED <<queue, shared, call, arg, made, batch, ran>>

\* functors.swap(pendingFunctors_), under a mutex that nobody else takes.
SwapFunctors ==
  /\ OwnerAt("swap")
  /\ functors' = pendingFunctors_
  /\ pendingFunctors_' = <<>>
  /\ Overlap(Owner)
  /\ lpc' = "run"
  /\ UNCHANGED <<crashed, emplaced, early, shared, call, arg, made, batch, ran>>

CallFunctor ==
  /\ OwnerAt("run")
  /\ functors # <<>>
  /\ ran' = Append(ran, Head(functors))
  /\ functors' = Tail(functors)
  /\ lpc' = "functor"
  /\ UNCHANGED <<shared, queue, callers, batch>>

FunctorReturns ==
  /\ OwnerAt("functor")
  /\ lpc' = "run"
  /\ UNCHANGED <<shared, queue, callers, batch, functors, ran>>

\* Mutant of FunctorsDone: clears pendingFunctors_ after the loop.
FunctorsDoneClear ==
  /\ OwnerAt("run")
  /\ functors = <<>>
  /\ callingPendingFunctors_' = FALSE
  /\ pendingFunctors_' = <<>>
  /\ lpc' = "while"
  /\ UNCHANGED <<quit_, wakeupFd_, crashed, emplaced, early, callers, batch,
                 functors, ran>>

FunctorsDone ==
  /\ OwnerAt("run")
  /\ functors = <<>>
  /\ callingPendingFunctors_' = FALSE
  /\ lpc' = "while"
  /\ UNCHANGED <<quit_, wakeupFd_, queue, callers, batch, functors, ran>>

-----------------------------------------------------------------------------
LoopStep ==
  \/ ExitLoop \/ ComputeTimeout \/ Poll
  \/ HandleRead \/ HandleEvent \/ EventsHandled \/ RunTimerReturns
  \/ DoPendingFunctors \/ SwapFunctors
  \/ CallFunctor \/ FunctorReturns \/ FunctorsDone

\* The rest of a queueInLoop() or quit() that has begun.
FinishCall(t) == EmplaceBack(t) \/ Notify(t) \/ QuitWakeup(t)

Next ==
  \/ EnterLoop
  \/ LoopStep
  \/ \E t \in Threads : QueueInLoop(t) \/ Quit(t) \/ FinishCall(t)

\* The OS keeps scheduling threads, poll() returns at its timeout at the
\* latest, and callbacks return; nobody is obliged to enter the loop, to
\* queue a functor or to quit.
Fairness ==
  /\ WF_vars(LoopStep)
  /\ \A t \in Threads : WF_vars(FinishCall(t))

Spec == Init /\ [][Next]_vars
FairSpec == Spec /\ Fairness

-----------------------------------------------------------------------------
(***************************************************************************)
(* Properties.                                                             *)
(***************************************************************************)
Elements(s) == {s[i] : i \in 1 .. Len(s)}

\* A thread that has announced work or a stop and is about to write the
\* eventfd.
WakeupOnItsWay == \E t \in Others : call[t] \in {"notify", "quit"}

\* The loop never sleeps on work: when it waits in poll() with a positive
\* timeout, the eventfd is silent and nobody is about to write it, then
\* quit() has not been called and every functor in pendingFunctors_ was
\* queued by the owner itself before loop(). This is what the condition in
\* queueInLoop(), the order of handleRead() and doPendingFunctors(), and the
\* wakeup() in quit() are for.
NeverSleepsOnWork ==
  lpc = "poll" /\ timeoutMs > 0 /\ ~wakeupFd_ /\ ~WakeupOnItsWay
    => ~quit_ /\ Elements(pendingFunctors_) \subseteq early

\* As long as no two accesses to pendingFunctors_ have overlapped, functors
\* run in the order in which they were queued, each exactly once: the ones
\* that ran, the ones swapped out and the ones pending are together exactly
\* the ones emplaced, in order.
FifoExactlyOnce ==
  ~raced => ran \o functors \o pendingFunctors_ = emplaced

\* A functor that is pending while the loop runs is run, unless the loop is
\* left first or the unlocked vector was raced on: the loop leaves without
\* draining its queue.
PendingFunctorRuns ==
  \A f \in Functors :
    lpc # "user" /\ f \in Elements(pendingFunctors_)
      ~> f \in Elements(ran) \/ lpc = "user" \/ raced

\* quit(), from any thread and at any point of loop(), makes loop() return.
QuitLeavesLoop == quit_ /\ lpc # "user" ~> lpc = "user" \/ crashed

\* EventLoop.cpp calls the queue a thread-safe one and the block of
\* queueInLoop() that appends to it the critical section of a lock, but the
\* lock is built with std::defer_lock and never taken. Were it one, no functor
\* handed to queueInLoop() would be lost and the program would survive.
QueueIsThreadSafe ==
  ~crashed /\ Elements(emplaced) =
                Elements(ran) \cup Elements(functors) \cup Elements(pendingFunctors_)
=============================================================================
