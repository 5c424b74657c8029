--------------------------- MODULE EventLoopThread ---------------------------
(***************************************************************************)
(* EventLoopThread and its Thread: one thread constructs the object, calls *)
(* startLoop() and destroys it; threadFunc() runs in the new thread, with  *)
(* the EventLoop on its stack.                                             *)
(*                                                                         *)
(* The user's thread is at upc:                                            *)
(*   "new"       before startLoop()                                        *)
(*   "sem"       in sem_wait() of Thread::start()                          *)
(*   "lock"      acquiring mutex_, first or on leaving cond_.wait()        *)
(*   "wait"      in cond_.wait()                                           *)
(*   "returned"  startLoop() has returned; user code                       *)
(*   "wakeup"    in a quit() of user code, before its wakeup()             *)
(*   "test", "quit", "quitWakeup", "join", "members", "gone"               *)
(*               in and after the destructor                               *)
(* The new thread is at tpc:                                               *)
(*   "none"      not created yet                                           *)
(*   "run"       before sem_post() in the lambda of Thread::start()        *)
(*   "init"      the EventLoop exists, callback_ runs (user code)          *)
(*   "publish"   before the block that stores loop_                        *)
(*   "enter"     before loop(); "loop" in it (callbacks are user code)     *)
(*   "end"       before the last lock; "unlock" with mutex_ held           *)
(*   "destroy"   before ~EventLoop(); "exited"                             *)
(* loop_ is written with mutex_ held, so the other critical sections are   *)
(* single steps; the destructor reads loop_ without it.                    *)
(***************************************************************************)
EXTENDS Naturals

CONSTANT MaxSpurious   \* bound on the spurious wakeups of cond_.wait()

ASSUME SpuriousAssumption == MaxSpurious \in Nat

VARIABLES
  upc, tpc,
  loop_,        \* is the member non-null?
  quit_,        \* of the EventLoop
  result,       \* what startLoop() returned: "none" yet, "null" or "loop"
  spurious,     \* number of spurious wakeups so far
  userQuit,     \* history: has user code called quit()?
  lostQuit,     \* history: did loop() overwrite a quit_ that was set?
  fault         \* the dead object that was used, or the null pointer

vars == <<upc, tpc, loop_, quit_, result, spurious, userQuit, lostQuit, fault>>

TypeOK ==
  /\ upc \in {"new", "sem", "lock", "wait", "returned", "wakeup",
              "test", "quit", "quitWakeup", "join", "members", "gone"}
  /\ tpc \in {"none", "run", "init", "publish", "enter", "loop",
              "end", "unlock", "destroy", "exited"}
  /\ loop_ \in BOOLEAN /\ quit_ \in BOOLEAN
  /\ result \in {"none", "null", "loop"}
  /\ spurious \in 0 .. MaxSpurious
  /\ userQuit \in BOOLEAN /\ lostQuit \in BOOLEAN
  /\ fault \in {"none", "null loop", "dead loop", "late wakeup", "dead thread object"}

Init ==
  /\ upc = "new" /\ tpc = "none"
  /\ loop_ = FALSE /\ quit_ = FALSE
  /\ result = "none"
  /\ spurious = 0
  /\ userQuit = FALSE /\ lostQuit = FALSE
  /\ fault = "none"

Running == fault = "none"

\* The EventLoop on threadFunc()'s stack is between its construction and its
\* destruction.
LoopAlive == tpc \in {"init", "publish", "enter", "loop", "end", "unlock", "destroy"}

MutexFree == tpc # "unlock"

-----------------------------------------------------------------------------
(***************************************************************************)
(* startLoop().                                                            *)
(***************************************************************************)
UserAt(from, to) == Running /\ upc = from /\ upc' = to

\* Thread::start(): started_ = true, and the new thread exists.
Start ==
  /\ UserAt("new", "sem")
  /\ tpc' = "run"
  /\ UNCHANGED <<loop_, quit_, result, spurious, userQuit, lostQuit, fault>>

\* sem_wait() returns once the thread has posted.
SemWait ==
  /\ UserAt("sem", "lock")
  /\ tpc # "run"
  /\ UNCHANGED <<tpc, loop_, quit_, result, spurious, userQuit, lostQuit, fault>>

\* Mutant of KeepsWaiting: if instead of while, so that loop_ is not tested
\* again after cond_.wait() has returned.
KeepsWaitingOnce == ~loop_ /\ spurious = 0

\* while(loop_ == nullptr)
KeepsWaiting == ~loop_

Returned == IF loop_ THEN "loop" ELSE "null"

\* With mutex_ held; cond_.wait(lock) gives it up.
Check ==
  /\ Running /\ upc = "lock" /\ MutexFree
  /\ \/ KeepsWaiting /\ upc' = "wait" /\ UNCHANGED result
     \/ ~KeepsWaiting /\ upc' = "returned" /\ result' = Returned
  /\ UNCHANGED <<tpc, loop_, quit_, spurious, userQuit, lostQuit, fault>>

SpuriousWakeup ==
  /\ UserAt("wait", "lock")
  /\ spurious < MaxSpurious
  /\ spurious' = spurious + 1
  /\ UNCHANGED <<tpc, loop_, quit_, result, userQuit, lostQuit, fault>>

-----------------------------------------------------------------------------
(***************************************************************************)
(* quit() in user code, with the pointer startLoop() returned.             *)
(***************************************************************************)
UserQuit ==
  /\ UserAt("returned", "wakeup")
  /\ ~userQuit
  /\ userQuit' = TRUE
  /\ quit_' = TRUE
  /\ fault' = IF LoopAlive THEN fault ELSE "dead loop"
  /\ UNCHANGED <<tpc, loop_, result, spurious, lostQuit>>

\* The second half of quit(): another thread than the loop's wakes it up.
Wakeup ==
  /\ UserAt("wakeup", "returned") \/ UserAt("quitWakeup", "join")
  /\ fault' = IF LoopAlive THEN fault ELSE "late wakeup"
  /\ UNCHANGED <<tpc, loop_, quit_, result, spurious, userQuit, lostQuit>>

-----------------------------------------------------------------------------
(***************************************************************************)
(* ~EventLoopThread().                                                     *)
(***************************************************************************)
Destroy ==
  /\ UserAt("new", "test") \/ UserAt("returned", "test")
  /\ UNCHANGED <<tpc, loop_, quit_, result, spurious, userQuit, lostQuit, fault>>

Test ==
  /\ UserAt("test", IF loop_ THEN "quit" ELSE "members")
  /\ UNCHANGED <<tpc, loop_, quit_, result, spurious, userQuit, lostQuit, fault>>

\* Mutant of StoredQuit: quit_ is not set.
StoredQuitNot == quit_

\* quit_ = true
StoredQuit == TRUE

\* loop_->quit() reads loop_ a second time.
Quit ==
  /\ UserAt("quit", "quitWakeup")
  /\ quit_' = StoredQuit
  /\ fault' = CASE ~loop_     -> "null loop"
                [] ~LoopAlive -> "dead loop"
                [] OTHER      -> fault
  /\ UNCHANGED <<tpc, loop_, result, spurious, userQuit, lostQuit>>

\* Mutant of Joinable: ~EventLoopThread() does not wait for the thread.
JoinableAlways == TRUE

\* thread_->join() returns.
Joinable == tpc = "exited"

Join ==
  /\ UserAt("join", "members")
  /\ Joinable
  /\ UNCHANGED <<tpc, loop_, quit_, result, spurious, userQuit, lostQuit, fault>>

\* The members are destroyed: mutex_, which must not be held, and thread_,
\* whose destructor detaches a thread that was started and not joined.
DestroyMembers ==
  /\ UserAt("members", "gone")
  /\ fault' = IF MutexFree THEN fault ELSE "dead thread object"
  /\ UNCHANGED <<tpc, loop_, quit_, result, spurious, userQuit, lostQuit>>

-----------------------------------------------------------------------------
(***************************************************************************)
(* The new thread.                                                         *)
(***************************************************************************)
ThreadAt(from, to) == Running /\ tpc = from /\ tpc' = to

\* A step that uses a member of the EventLoopThread or of its Thread.
UsesMembers == fault' = IF upc = "gone" THEN "dead thread object" ELSE fault

\* The lambda of Thread::start() stores tid_, posts and calls func_(), which
\* constructs the EventLoop with quit_ = false.
Run ==
  /\ ThreadAt("run", "init")
  /\ quit_' = FALSE
  /\ UsesMembers
  /\ UNCHANGED <<upc, loop_, result, spurious, userQuit, lostQuit>>

\* callback_(&loop), user code, which may call quit().
InitCallback ==
  /\ ThreadAt("init", "publish")
  /\ \/ UNCHANGED <<quit_, userQuit>>
     \/ quit_' = TRUE /\ userQuit' = TRUE
  /\ UsesMembers
  /\ UNCHANGED <<upc, loop_, result, spurious, lostQuit>>

\* Mutant of NotifyOne: nobody is woken up.
NotifyNone == upc

\* cond_.notify_one()
NotifyOne == IF upc = "wait" THEN "lock" ELSE upc

\* loop_ = &loop with mutex_ held.
Publish ==
  /\ ThreadAt("publish", "enter")
  /\ loop_' = TRUE
  /\ upc' = NotifyOne
  /\ UsesMembers
  /\ UNCHANGED <<quit_, result, spurious, userQuit, lostQuit>>

\* loop() starts with quit_ = false, whatever was stored before.
EnterLoop ==
  /\ ThreadAt("enter", "loop")
  /\ quit_' = FALSE
  /\ lostQuit' = (lostQuit \/ quit_)
  /\ UNCHANGED <<upc, loop_, result, spurious, userQuit, fault>>

\* A callback inside loop() calls quit(); no wakeup() in the loop's own thread.
LoopCallbackQuits ==
  /\ ThreadAt("loop", "loop")
  /\ ~userQuit
  /\ quit_' = TRUE /\ userQuit' = TRUE
  /\ UNCHANGED <<upc, loop_, result, spurious, lostQuit, fault>>

LeaveLoop ==
  /\ ThreadAt("loop", "end")
  /\ quit_
  /\ UNCHANGED <<upc, loop_, quit_, result, spurious, userQuit, lostQuit, fault>>

\* loop_ = nullptr under mutex_, which the user's thread holds in no state.
Unpublish ==
  /\ ThreadAt("end", "unlock")
  /\ loop_' = FALSE
  /\ UsesMembers
  /\ UNCHANGED <<upc, quit_, result, spurious, userQuit, lostQuit>>

Unlock ==
  /\ ThreadAt("unlock", "destroy")
  /\ UsesMembers
  /\ UNCHANGED <<upc, loop_, quit_, result, spurious, userQuit, lostQuit>>

DestroyLoop ==
  /\ ThreadAt("destroy", "exited")
  /\ UNCHANGED <<upc, loop_, quit_, result, spurious, userQuit, lostQuit, fault>>

-----------------------------------------------------------------------------
UserStep == SemWait \/ Check \/ Wakeup \/ Test \/ Quit \/ Join \/ DestroyMembers

ThreadStep ==
  Run \/ InitCallback \/ Publish \/ EnterLoop \/ LeaveLoop \/ Unpublish \/ Unlock \/ DestroyLoop

Next ==
  \/ Start \/ Destroy \/ UserQuit \/ SpuriousWakeup \/ LoopCallbackQuits
  \/ UserStep \/ ThreadStep

\* Both threads are scheduled, and neither is kept from mutex_ for ever; when
\* the user's code starts, stops or destroys is its own affair.
Fairness == WF_vars(UserStep) /\ WF_vars(ThreadStep)

Spec == Init /\ [][Next]_vars
FairSpec == Spec /\ Fairness

-----------------------------------------------------------------------------
(***************************************************************************)
(* Properties.                                                             *)
(***************************************************************************)

\* startLoop() never returns a null pointer, however often the wait ends
\* without cause, and the pointer it returned stays good until someone calls
\* quit(): the destructor or user code.
StartLoopReturnsLoop ==
  /\ result # "null"
  /\ upc = "returned" /\ ~userQuit => LoopAlive

\* The destructor reads loop_ without mutex_, but as long as no user code
\* calls quit() it finds the loop alive and nothing of the object is used
\* after it. What remains is the end of quit() itself: wakeup() may come
\* when the loop has already seen quit_ and is gone.
DestroySafe == fault \notin {"none", "late wakeup"} => userQuit

\* startLoop() returns, unless a quit() in the init callback or in an early
\* callback ends the loop before loop_ is looked at: then it waits for ever.
StartLoopReturns == upc = "sem" ~> upc = "returned" \/ userQuit

\* The destructor gets through join(), unless its quit() came between the
\* publication of loop_ and the loop()'s quit_ = false and was overwritten.
DestructorReturns == upc = "join" ~> upc = "gone" \/ lostQuit \/ ~Running
=============================================================================
