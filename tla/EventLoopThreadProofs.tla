----------------------- MODULE EventLoopThreadProofs -----------------------
(***************************************************************************)
(* Proofs about EventLoopThread, for any number of spurious wakeups: its   *)
(* types, that startLoop() returns a live loop, and that the destructor    *)
(* uses nothing that is gone.                                              *)
(***************************************************************************)
EXTENDS EventLoopThread, TLAPS

\* The new thread exists exactly when startLoop() has been called, and is past
\* sem_post() when sem_wait() has returned.
StartInv ==
  /\ upc = "new" => tpc = "none"
  /\ upc = "sem" => tpc # "none"
  /\ upc \in {"lock", "wait", "returned", "wakeup"} => tpc \notin {"none", "run"}

\* loop_ is set exactly while threadFunc() is between its two critical sections.
LoopInv == loop_ <=> tpc \in {"enter", "loop", "end"}

\* Once startLoop() has returned, or the destructor of a started object runs,
\* threadFunc() is past the publication of loop_.
PublishedInv ==
  /\ result # "null"
  /\ upc \in {"returned", "wakeup"} => tpc \notin {"none", "run", "init", "publish"}
  /\ upc \in {"test", "quit", "quitWakeup", "join", "members", "gone"} =>
       tpc \notin {"run", "init", "publish"}

\* As long as user code does not call quit(), quit_ is set by the destructor
\* only, so that the thread stays in loop() until then.
QuietInv ==
  ~userQuit =>
    /\ upc # "wakeup"
    /\ upc \in {"new", "sem", "lock", "wait", "returned", "test", "quit"} =>
         /\ ~quit_
         /\ tpc \notin {"end", "unlock", "destroy", "exited"}
    /\ upc = "quit" => tpc \in {"enter", "loop"}
    /\ upc \in {"members", "gone"} => tpc \in {"none", "exited"}
    /\ fault \in {"none", "late wakeup"}

IInv == TypeOK /\ StartInv /\ LoopInv /\ PublishedInv /\ QuietInv

-----------------------------------------------------------------------------
\* The object as its constructor leaves it satisfies the invariant.
LEMMA InitInv == Init => IInv
<1> SUFFICES ASSUME Init PROVE IInv
  OBVIOUS
<1>0. spurious \in 0 .. MaxSpurious
  BY SpuriousAssumption DEF Init
<1>1. TypeOK
  BY <1>0, Zenon DEF Init, TypeOK
<1>2. StartInv /\ LoopInv
  BY DEF Init, StartInv, LoopInv
<1>3. PublishedInv /\ QuietInv
  BY DEF Init, PublishedInv, QuietInv
<1> QED BY <1>1, <1>2, <1>3 DEF IInv

\* The steps of startLoop() and the spurious wakeups.
LEMMA StartLoopStep ==
  IInv /\ (Start \/ SemWait \/ Check \/ SpuriousWakeup) => IInv'
<1> SUFFICES ASSUME IInv, Start \/ SemWait \/ Check \/ SpuriousWakeup PROVE IInv'
  OBVIOUS
<1>0. SpuriousWakeup => spurious' \in 0 .. MaxSpurious
  <2>1. spurious \in 0 .. MaxSpurious
    BY DEF IInv, TypeOK
  <2> QED BY <2>1, SpuriousAssumption DEF SpuriousWakeup
<1> USE SpuriousAssumption DEF IInv, TypeOK, StartInv, LoopInv, PublishedInv, QuietInv, UserAt
<1>1. CASE Start
  BY <1>1 DEF Start
<1>2. CASE SemWait
  BY <1>2 DEF SemWait
<1>3. CASE Check
  <2>1. CASE upc' = "wait" /\ UNCHANGED result
    BY <1>3, <2>1 DEF Check
  <2>2. CASE ~KeepsWaiting /\ upc' = "returned" /\ result' = Returned
    BY <1>3, <2>2 DEF Check, KeepsWaiting, Returned
  <2> QED BY <1>3, <2>1, <2>2 DEF Check
<1>4. CASE SpuriousWakeup
  <2>1. TypeOK'
    BY <1>0, <1>4, Zenon DEF SpuriousWakeup
  <2>2. StartInv' /\ LoopInv' /\ PublishedInv' /\ QuietInv'
    BY <1>4 DEF SpuriousWakeup
  <2> QED BY <2>1, <2>2
<1> QED BY <1>1, <1>2, <1>3, <1>4

\* quit() in user code and the destructor.
LEMMA DestructorStep ==
  IInv /\ (UserQuit \/ Wakeup \/ Destroy \/ Test \/ Quit \/ Join \/ DestroyMembers) => IInv'
<1> SUFFICES ASSUME IInv,
                    UserQuit \/ Wakeup \/ Destroy \/ Test \/ Quit \/ Join \/ DestroyMembers
             PROVE  IInv'
  OBVIOUS
<1> USE SpuriousAssumption DEF IInv, TypeOK, StartInv, LoopInv, PublishedInv, QuietInv, UserAt
<1>1. CASE UserQuit
  BY <1>1 DEF UserQuit
<1>2. CASE Wakeup
  BY <1>2 DEF Wakeup
<1>3. CASE Destroy
  BY <1>3 DEF Destroy
<1>4. CASE Test
  BY <1>4 DEF Test
<1>5. CASE Quit
  BY <1>5 DEF Quit, StoredQuit, LoopAlive
<1>6. CASE Join
  BY <1>6 DEF Join, Joinable
<1>7. CASE DestroyMembers
  BY <1>7 DEF DestroyMembers, MutexFree
<1> QED BY <1>1, <1>2, <1>3, <1>4, <1>5, <1>6, <1>7

\* threadFunc() and the callbacks of its loop.
LEMMA ThreadFuncStep == IInv /\ (ThreadStep \/ LoopCallbackQuits) => IInv'
<1> SUFFICES ASSUME IInv, ThreadStep \/ LoopCallbackQuits PROVE IInv'
  OBVIOUS
<1> USE SpuriousAssumption
    DEF IInv, TypeOK, StartInv, LoopInv, PublishedInv, QuietInv, ThreadAt, UsesMembers
<1>1. CASE Run
  BY <1>1 DEF Run
<1>2. CASE InitCallback
  <2>1. CASE UNCHANGED <<quit_, userQuit>>
    BY <1>2, <2>1 DEF InitCallback
  <2>2. CASE quit_' = TRUE /\ userQuit' = TRUE
    BY <1>2, <2>2 DEF InitCallback
  <2> QED BY <1>2, <2>1, <2>2 DEF InitCallback
<1>3. CASE Publish
  BY <1>3 DEF Publish, NotifyOne
<1>4. CASE EnterLoop
  BY <1>4 DEF EnterLoop
<1>5. CASE LeaveLoop
  BY <1>5 DEF LeaveLoop
<1>6. CASE Unpublish
  BY <1>6 DEF Unpublish
<1>7. CASE Unlock
  BY <1>7 DEF Unlock
<1>8. CASE DestroyLoop
  BY <1>8 DEF DestroyLoop
<1>9. CASE LoopCallbackQuits
  BY <1>9 DEF LoopCallbackQuits
<1> QED
  BY <1>1, <1>2, <1>3, <1>4, <1>5, <1>6, <1>7, <1>8, <1>9 DEF ThreadStep

\* Every step of either thread preserves the invariant.
LEMMA NextInv == IInv /\ [Next]_vars => IInv'
<1> SUFFICES ASSUME IInv, [Next]_vars PROVE IInv'
  OBVIOUS
<1>1. CASE UNCHANGED vars
  <2>1. UNCHANGED <<upc, tpc, loop_, quit_, result, spurious, userQuit, lostQuit, fault>>
    BY <1>1 DEF vars
  <2>2. TypeOK'
    <3>1. /\ loop_' \in BOOLEAN /\ quit_' \in BOOLEAN
          /\ userQuit' \in BOOLEAN /\ lostQuit' \in BOOLEAN
      BY <2>1, Zenon DEF IInv, TypeOK
    <3>2. /\ upc' = upc /\ tpc' = tpc /\ result' = result /\ spurious' = spurious
          /\ fault' = fault
      BY <2>1
    <3> QED BY <3>1, <3>2, Zenon DEF IInv, TypeOK
  <2>3. StartInv' /\ LoopInv' /\ PublishedInv' /\ QuietInv'
    BY <2>1 DEF IInv, StartInv, LoopInv, PublishedInv, QuietInv
  <2> QED BY <2>2, <2>3 DEF IInv
<1>2. CASE Next
  BY <1>2, StartLoopStep, DestructorStep, ThreadFuncStep DEF Next, UserStep
<1> QED BY <1>1, <1>2

\* So it holds of every behaviour.
LEMMA Inductive == Spec => []IInv
<1>1. QED BY InitInv, NextInv, PTL DEF Spec

-----------------------------------------------------------------------------
\* EventLoopThread's type invariant, for any number of spurious wakeups.
THEOREM TypeCorrect == Spec => []TypeOK
<1>1. IInv => TypeOK
  BY DEF IInv
<1> QED BY <1>1, Inductive, PTL

\* startLoop() returns a live loop: it tests loop_ in a loop under the mutex,
\* and threadFunc() does not leave loop() before somebody calls quit().
THEOREM StartLoopLive == Spec => []StartLoopReturnsLoop
<1>1. IInv => StartLoopReturnsLoop
  BY DEF IInv, TypeOK, PublishedInv, QuietInv, StartLoopReturnsLoop, LoopAlive
<1> QED BY <1>1, Inductive, PTL

\* ~EventLoopThread() reads loop_ without the mutex and still uses no null
\* pointer, no dead loop and no dead member, as long as only it calls quit();
\* the one exception is the wakeup() of that quit().
THEOREM DestructorSafe == Spec => []DestroySafe
<1>1. IInv => DestroySafe
  BY DEF IInv, QuietInv, DestroySafe
<1> QED BY <1>1, Inductive, PTL
=============================================================================
