--------------------------- MODULE WakeLockProofs ---------------------------
(***************************************************************************)
(* Proofs about module WakeLock for any number of threads and timers: with *)
(* s_callbacks.version >= 13 the wake lock is never left without something *)
(* that will drop it, the count says whether it is held, and               *)
(* s_last_wake_timeout_info never dangles; in every version the coming     *)
(* release is lost only by a thread that cancels the previous timer late.  *)
(***************************************************************************)
EXTENDS WakeLock, TLAPS

(* A thread is inside grab or release exactly while it owns the mutex. *)
MutexInv == ackVersion => \A th \in Threads : pc[th] # "idle" <=> mutex = th

(* The dispatch thread works on the one timer that is firing; a thread that is past
   its request has a timer in hand. *)
PlaceInv ==
    /\ lpc = "idle" <=> cb = NULL
    /\ \A t \in Timers : timer[t] = "firing" <=> cb = t
    /\ \A th \in Threads : pc[th] \in {"test", "cancel", "publish"} => p_info[th] \in Timers

(* The bound on the count holds where the count is about to grow; below 13 nothing is
   counted and nothing released on an acknowledgement. *)
CountInv ==
    /\ ~ackVersion => count = 0 /\ \A th \in Threads : pc[th] \notin ReleasePlaces
    /\ ackVersion => \A th \in Threads : pc[th] = "arm" => count < MaxCount

(* A thread's new timer is not yet reachable through s_last, not cancelled, and
   cannot get past the mutex the thread owns. *)
GrabInv ==
    \A th \in Threads : pc[th] \in {"test", "cancel", "publish"} =>
        /\ p_info[th] \in Timers
        /\ timer[p_info[th]] # "idle"
        /\ ~userParam[p_info[th]]
        /\ s_last # p_info[th]
        /\ timer[p_info[th]] = "firing" => lpc = "timeout"
        /\ pc[th] = "cancel" => last[th] # p_info[th]

(* While a release cancels the last timer the lock is already dropped. *)
ReleaseInv == \A th \in Threads : pc[th] \in ReleasePlaces => ~wakeLock /\ count = 0

(* The timer about to be freed is not the one s_last points to. *)
LastInv == LastIsLive /\ (lpc = "free" => s_last # cb)

(* The lock and the count agree, with the one exception of a thread between
   acquire_wake_lock and s_wakelock_count++. *)
LockCountInv ==
    /\ wakeLock => count > 0 \/ \E th \in Threads : pc[th] = "arm"
    /\ count > 0 => wakeLock \/ lost
    /\ \A th \in Threads : pc[th] = "arm" => wakeLock

(* What the invariant says of the variables that the protocol changes together. *)
Protocol == GrabInv /\ ReleaseInv /\ LastInv /\ ReleaseComing /\ LockCountInv

(* The inductive invariant: below version 13 only the ranges are kept. *)
IInv == TypeOK /\ MutexInv /\ CountInv /\ PlaceInv /\ (ackVersion => Protocol)

-----------------------------------------------------------------------------
(* In every state the variables keep their ranges, with or without
   acknowledgements; the count needs the mutex to stay within its bound. *)
THEOREM TypeCorrect == Spec => [](TypeOK /\ MutexInv /\ CountInv /\ PlaceInv)
<1> USE NullDistinct, BoundsOK
<1> DEFINE Inv == TypeOK /\ MutexInv /\ CountInv /\ PlaceInv
<1>0. 0 \in 0 .. MaxCount
  OBVIOUS
<1>1. Init => Inv
  BY <1>0 DEF Init, TypeOK, MutexInv, CountInv, PlaceInv, TS!Init, TS!TypeOK, TS!States,
              GrabPlaces, ReleasePlaces
<1>2. Inv /\ [Next]_vars => Inv'
  <2> SUFFICES ASSUME TypeOK, MutexInv, CountInv, PlaceInv, [Next]_vars
               PROVE  Inv'
    OBVIOUS
  <2> USE DEF TypeOK, MutexInv, CountInv, PlaceInv, TS!TypeOK, TS!States, GrabPlaces, ReleasePlaces,
              Goto, CanLock, Lock, Unlock, loopVars, threadVars
  <2>1. ASSUME NEW th \in Threads, GrabAcquire(th) PROVE Inv'
    <3>1. TypeOK'
      BY <2>1 DEF GrabAcquire
    <3>2. MutexInv' /\ CountInv'
      BY <2>1 DEF GrabAcquire
    <3>3. PlaceInv'
      BY <2>1 DEF GrabAcquire
    <3> QED
      BY <3>1, <3>2, <3>3
  <2>2. ASSUME NEW th \in Threads, ArmTimer(th) PROVE Inv'
    BY <2>2 DEF ArmTimer, TS!Request
  <2>3. ASSUME NEW th \in Threads, ArmFails(th) PROVE Inv'
    BY <2>3 DEF ArmFails
  <2>4. ASSUME NEW th \in Threads, TestLast(th) PROVE Inv'
    BY <2>4 DEF TestLast
  <2>5. ASSUME NEW th \in Threads, CancelLast(th) PROVE Inv'
    BY <2>5 DEF CancelLast
  <2>6. ASSUME NEW th \in Threads, PublishLast(th) PROVE Inv'
    BY <2>6 DEF PublishLast
  <2>7. ASSUME NEW th \in Threads, ReleaseOne(th) PROVE Inv'
    BY <2>7 DEF ReleaseOne
  <2>8. ASSUME NEW th \in Threads, ReleaseLast(th) PROVE Inv'
    <3>1. count' = 0
      BY <2>8 DEF ReleaseLast
    <3>2. TypeOK'
      BY <1>0, <2>8, <3>1 DEF ReleaseLast
    <3>3. MutexInv'
      BY <2>8 DEF ReleaseLast
    <3>4. CountInv'
      BY <2>8, <3>1 DEF ReleaseLast
    <3>5. PlaceInv'
      BY <2>8 DEF ReleaseLast
    <3> QED
      BY <3>2, <3>3, <3>4, <3>5
  <2>9. ASSUME NEW th \in Threads, ReleaseTest(th) PROVE Inv'
    BY <2>9 DEF ReleaseTest
  <2>10. ASSUME NEW th \in Threads, ReleaseCancel(th) PROVE Inv'
    BY <2>10 DEF ReleaseCancel
  <2>11. ASSUME NEW th \in Threads, ReleaseUncounted(th) PROVE Inv'
    BY <2>11 DEF ReleaseUncounted
  <2>12. ASSUME NEW t \in Timers, TimerFires(t) PROVE Inv'
    BY <2>12 DEF TimerFires, TS!Fire
  <2>13. CASE WakeTimeout
    BY <1>0, <2>13 DEF WakeTimeout
  <2>14. CASE LoopTest
    BY <2>14 DEF LoopTest
  <2>15. CASE LoopClear
    BY <2>15 DEF LoopClear
  <2>16. CASE LoopFree
    BY <2>16 DEF LoopFree, TS!Return
  <2>17. CASE UNCHANGED vars
    BY <2>17 DEF vars
  <2> QED
    BY <2>1, <2>2, <2>3, <2>4, <2>5, <2>6, <2>7, <2>8, <2>9, <2>10, <2>11, <2>12,
       <2>13, <2>14, <2>15, <2>16, <2>17 DEF Next, Thread, GrabSteps, ReleaseSteps, Loop
<1> QED
  BY <1>1, <1>2, PTL DEF Spec
-----------------------------------------------------------------------------
(* The protocol starts in order. *)
LEMMA ProtocolInit == Init => Protocol
  BY NullDistinct DEF Init, Protocol, PlaceInv, GrabInv, ReleaseInv, LastInv,
                      LastIsLive,
     ReleaseComing, LockCountInv, TS!Init

(* No step of a thread or of the dispatch thread breaks it: the mutex orders the
   grabs and releases, and what the dispatch thread does outside the mutex
   concerns only a timer that has already dropped the lock or been cancelled. *)
LEMMA ProtocolStep ==
  ASSUME ackVersion, TypeOK, MutexInv, CountInv, PlaceInv, TypeOK', Protocol, [Next]_vars
  PROVE  Protocol'
<1> USE NullDistinct
<1> USE DEF MutexInv, TypeOK, TS!TypeOK, TS!States, Protocol, GrabPlaces, ReleasePlaces,
            Goto, CanLock, Lock, Unlock, loopVars, threadVars
<1>1. ASSUME NEW th \in Threads, GrabAcquire(th) PROVE Protocol'
  <2>1. GrabInv'
    BY <1>1 DEF GrabAcquire, GrabInv, PlaceInv
  <2>2. ReleaseInv'
    BY <1>1 DEF GrabAcquire, ReleaseInv
  <2>3. LastInv'
    BY <1>1 DEF GrabAcquire, LastInv, LastIsLive, PlaceInv, GrabInv
  <2>4. ReleaseComing'
    BY <1>1 DEF GrabAcquire, ReleaseComing, WillRelease, GrabInv, PlaceInv,
                ReleaseInv, LastInv, LastIsLive
  <2>5. LockCountInv'
    BY <1>1 DEF GrabAcquire, LockCountInv, GrabInv, ReleaseInv, CountInv
  <2> QED
    BY <2>1, <2>2, <2>3, <2>4, <2>5
<1>2. ASSUME NEW th \in Threads, ArmTimer(th) PROVE Protocol'
  <2>1. GrabInv'
    BY <1>2 DEF ArmTimer, TS!Request, GrabInv, PlaceInv, LastInv, LastIsLive
  <2>2. ReleaseInv'
    BY <1>2 DEF ArmTimer, TS!Request, ReleaseInv
  <2>3. LastInv'
    BY <1>2 DEF ArmTimer, TS!Request, LastInv, LastIsLive, PlaceInv, GrabInv
  <2>4. ReleaseComing'
    BY <1>2 DEF ArmTimer, TS!Request, ReleaseComing, WillRelease, GrabInv,
                PlaceInv, ReleaseInv, LastInv, LastIsLive
  <2>5. LockCountInv'
    BY <1>2 DEF ArmTimer, TS!Request, LockCountInv, GrabInv, ReleaseInv, CountInv
  <2> QED
    BY <2>1, <2>2, <2>3, <2>4, <2>5
<1>3. ASSUME NEW th \in Threads, ArmFails(th) PROVE Protocol'
  <2>1. GrabInv'
    BY <1>3 DEF ArmFails, GrabInv, PlaceInv
  <2>2. ReleaseInv'
    BY <1>3 DEF ArmFails, ReleaseInv
  <2>3. LastInv'
    BY <1>3 DEF ArmFails, LastInv, LastIsLive, PlaceInv, GrabInv
  <2>4. ReleaseComing'
    BY <1>3 DEF ArmFails, ReleaseComing, WillRelease, GrabInv, PlaceInv,
                ReleaseInv, LastInv, LastIsLive
  <2>5. LockCountInv'
    BY <1>3 DEF ArmFails, LockCountInv, GrabInv, ReleaseInv, CountInv
  <2> QED
    BY <2>1, <2>2, <2>3, <2>4, <2>5
<1>4. ASSUME NEW th \in Threads, TestLast(th) PROVE Protocol'
  <2>1. GrabInv'
    BY <1>4 DEF TestLast, GrabInv, PlaceInv
  <2>2. ReleaseInv'
    BY <1>4 DEF TestLast, ReleaseInv
  <2>3. LastInv'
    BY <1>4 DEF TestLast, LastInv, LastIsLive, PlaceInv, GrabInv
  <2>4. ReleaseComing'
    BY <1>4 DEF TestLast, ReleaseComing, WillRelease, GrabInv, PlaceInv,
                ReleaseInv, LastInv, LastIsLive
  <2>5. LockCountInv'
    BY <1>4 DEF TestLast, LockCountInv, GrabInv, ReleaseInv, CountInv
  <2> QED
    BY <2>1, <2>2, <2>3, <2>4, <2>5
<1>5. ASSUME NEW th \in Threads, CancelLast(th) PROVE Protocol'
  <2>1. GrabInv'
    BY <1>5 DEF CancelLast, GrabInv, PlaceInv
  <2>2. ReleaseInv'
    BY <1>5 DEF CancelLast, ReleaseInv
  <2>3. LastInv'
    BY <1>5 DEF CancelLast, LastInv, LastIsLive, PlaceInv, GrabInv
  <2>4. ReleaseComing'
    BY <1>5 DEF CancelLast, ReleaseComing, WillRelease, GrabInv, PlaceInv,
                ReleaseInv, LastInv, LastIsLive
  <2>5. LockCountInv'
    BY <1>5 DEF CancelLast, LockCountInv, GrabInv, ReleaseInv, CountInv
  <2> QED
    BY <2>1, <2>2, <2>3, <2>4, <2>5
<1>6. ASSUME NEW th \in Threads, PublishLast(th) PROVE Protocol'
  <2>1. GrabInv'
    BY <1>6 DEF PublishLast, GrabInv, PlaceInv
  <2>2. ReleaseInv'
    BY <1>6 DEF PublishLast, ReleaseInv
  <2>3. LastInv'
    BY <1>6 DEF PublishLast, LastInv, LastIsLive, PlaceInv, GrabInv
  <2>4. ReleaseComing'
    BY <1>6 DEF PublishLast, ReleaseComing, WillRelease, GrabInv, PlaceInv,
                ReleaseInv, LastInv, LastIsLive
  <2>5. LockCountInv'
    BY <1>6 DEF PublishLast, LockCountInv, GrabInv, ReleaseInv, CountInv
  <2> QED
    BY <2>1, <2>2, <2>3, <2>4, <2>5
<1>7. ASSUME NEW th \in Threads, ReleaseOne(th) PROVE Protocol'
  <2>1. GrabInv'
    BY <1>7 DEF ReleaseOne, GrabInv, PlaceInv
  <2>2. ReleaseInv'
    BY <1>7 DEF ReleaseOne, ReleaseInv
  <2>3. LastInv'
    BY <1>7 DEF ReleaseOne, LastInv, LastIsLive, PlaceInv, GrabInv
  <2>4. ReleaseComing'
    BY <1>7 DEF ReleaseOne, ReleaseComing, WillRelease, GrabInv, PlaceInv,
                ReleaseInv, LastInv, LastIsLive
  <2>5. LockCountInv'
    BY <1>7 DEF ReleaseOne, LockCountInv, GrabInv, ReleaseInv, CountInv
  <2> QED
    BY <2>1, <2>2, <2>3, <2>4, <2>5
<1>8. ASSUME NEW th \in Threads, ReleaseLast(th) PROVE Protocol'
  <2>1. GrabInv'
    BY <1>8 DEF ReleaseLast, GrabInv, PlaceInv
  <2>2. ReleaseInv'
    BY <1>8 DEF ReleaseLast, ReleaseInv
  <2>3. LastInv'
    BY <1>8 DEF ReleaseLast, LastInv, LastIsLive, PlaceInv, GrabInv
  <2>4. ReleaseComing'
    BY <1>8 DEF ReleaseLast, ReleaseComing, WillRelease, GrabInv, PlaceInv,
                ReleaseInv, LastInv, LastIsLive
  <2>5. LockCountInv'
    BY <1>8 DEF ReleaseLast, LockCountInv, GrabInv, ReleaseInv, CountInv
  <2> QED
    BY <2>1, <2>2, <2>3, <2>4, <2>5
<1>9. ASSUME NEW th \in Threads, ReleaseTest(th) PROVE Protocol'
  <2>1. GrabInv'
    BY <1>9 DEF ReleaseTest, GrabInv, PlaceInv
  <2>2. ReleaseInv'
    BY <1>9 DEF ReleaseTest, ReleaseInv
  <2>3. LastInv'
    BY <1>9 DEF ReleaseTest, LastInv, LastIsLive, PlaceInv, GrabInv
  <2>4. ReleaseComing'
    BY <1>9 DEF ReleaseTest, ReleaseComing, WillRelease, GrabInv, PlaceInv,
                ReleaseInv, LastInv, LastIsLive
  <2>5. LockCountInv'
    BY <1>9 DEF ReleaseTest, LockCountInv, GrabInv, ReleaseInv, CountInv
  <2> QED
    BY <2>1, <2>2, <2>3, <2>4, <2>5
<1>10. ASSUME NEW th \in Threads, ReleaseCancel(th) PROVE Protocol'
  <2>1. GrabInv'
    BY <1>10 DEF ReleaseCancel, GrabInv, PlaceInv
  <2>2. ReleaseInv'
    BY <1>10 DEF ReleaseCancel, ReleaseInv
  <2>3. LastInv'
    BY <1>10 DEF ReleaseCancel, LastInv, LastIsLive, PlaceInv, GrabInv
  <2>4. ReleaseComing'
    BY <1>10 DEF ReleaseCancel, ReleaseComing, WillRelease, GrabInv, PlaceInv,
                 ReleaseInv, LastInv, LastIsLive
  <2>5. LockCountInv'
    BY <1>10 DEF ReleaseCancel, LockCountInv, GrabInv, ReleaseInv, CountInv
  <2> QED
    BY <2>1, <2>2, <2>3, <2>4, <2>5
<1>11. ASSUME NEW t \in Timers, TimerFires(t) PROVE Protocol'
  <2>1. GrabInv'
    BY <1>11 DEF TimerFires, TS!Fire, GrabInv, PlaceInv
  <2>2. ReleaseInv'
    BY <1>11 DEF TimerFires, TS!Fire, ReleaseInv
  <2>3. LastInv'
    BY <1>11 DEF TimerFires, TS!Fire, LastInv, LastIsLive, PlaceInv, GrabInv
  <2>4. ReleaseComing'
    BY <1>11 DEF TimerFires, TS!Fire, ReleaseComing, WillRelease, GrabInv,
                 PlaceInv, ReleaseInv, LastInv, LastIsLive
  <2>5. LockCountInv'
    BY <1>11 DEF TimerFires, TS!Fire, LockCountInv, GrabInv, ReleaseInv, CountInv
  <2> QED
    BY <2>1, <2>2, <2>3, <2>4, <2>5
<1>12. CASE WakeTimeout
  <2>1. GrabInv'
    BY <1>12 DEF WakeTimeout, GrabInv, PlaceInv
  <2>2. ReleaseInv'
    BY <1>12 DEF WakeTimeout, ReleaseInv
  <2>3. LastInv'
    BY <1>12 DEF WakeTimeout, LastInv, LastIsLive, PlaceInv, GrabInv
  <2>4. ReleaseComing'
    BY <1>12 DEF WakeTimeout, ReleaseComing, WillRelease, GrabInv, PlaceInv,
                 ReleaseInv, LastInv, LastIsLive
  <2>5. LockCountInv'
    BY <1>12 DEF WakeTimeout, LockCountInv, GrabInv, ReleaseInv, CountInv
  <2> QED
    BY <2>1, <2>2, <2>3, <2>4, <2>5
<1>13. CASE LoopTest
  <2>1. GrabInv'
    BY <1>13 DEF LoopTest, GrabInv, PlaceInv
  <2>2. ReleaseInv'
    BY <1>13 DEF LoopTest, ReleaseInv
  <2>3. LastInv'
    BY <1>13 DEF LoopTest, LastInv, LastIsLive, PlaceInv, GrabInv
  <2>4. ReleaseComing'
    BY <1>13 DEF LoopTest, ReleaseComing, WillRelease, GrabInv, PlaceInv,
                 ReleaseInv, LastInv, LastIsLive
  <2>5. LockCountInv'
    BY <1>13 DEF LoopTest, LockCountInv, GrabInv, ReleaseInv, CountInv
  <2> QED
    BY <2>1, <2>2, <2>3, <2>4, <2>5
<1>14. CASE LoopClear
  <2>1. GrabInv'
    BY <1>14 DEF LoopClear, GrabInv, PlaceInv
  <2>2. ReleaseInv'
    BY <1>14 DEF LoopClear, ReleaseInv
  <2>3. LastInv'
    BY <1>14 DEF LoopClear, LastInv, LastIsLive, PlaceInv, GrabInv
  <2>4. ReleaseComing'
    BY <1>14 DEF LoopClear, ReleaseComing, WillRelease, GrabInv, PlaceInv,
                 ReleaseInv, LastInv, LastIsLive
  <2>5. LockCountInv'
    BY <1>14 DEF LoopClear, LockCountInv, GrabInv, ReleaseInv, CountInv
  <2> QED
    BY <2>1, <2>2, <2>3, <2>4, <2>5
<1>15. CASE LoopFree
  <2>1. GrabInv'
    BY <1>15 DEF LoopFree, TS!Return, GrabInv, PlaceInv
  <2>2. ReleaseInv'
    BY <1>15 DEF LoopFree, TS!Return, ReleaseInv
  <2>3. LastInv'
    BY <1>15 DEF LoopFree, TS!Return, LastInv, LastIsLive, PlaceInv, GrabInv
  <2>4. ReleaseComing'
    BY <1>15 DEF LoopFree, TS!Return, ReleaseComing, WillRelease, GrabInv,
                 PlaceInv, ReleaseInv, LastInv, LastIsLive
  <2>5. LockCountInv'
    BY <1>15 DEF LoopFree, TS!Return, LockCountInv, GrabInv, ReleaseInv, CountInv
  <2> QED
    BY <2>1, <2>2, <2>3, <2>4, <2>5
<1>16. CASE UNCHANGED vars
  BY <1>16 DEF vars, PlaceInv, GrabInv, ReleaseInv, LastInv, LastIsLive,
               ReleaseComing,
     WillRelease, LockCountInv
<1> QED
  BY <1>1, <1>2, <1>3, <1>4, <1>5, <1>6, <1>7, <1>8, <1>9, <1>10, <1>11, <1>12,
     <1>13, <1>14, <1>15, <1>16
     DEF Next, Thread, GrabSteps, ReleaseSteps, ReleaseUncounted, Loop
(* s_callbacks.version does not change. *)
LEMMA VersionFixed == [Next]_vars => ackVersion' = ackVersion
<1> SUFFICES ASSUME [Next]_vars PROVE ackVersion' = ackVersion
  OBVIOUS
<1>1. ASSUME NEW th \in Threads, Thread(th) PROVE ackVersion' = ackVersion
  BY <1>1 DEF Thread, GrabSteps, ReleaseSteps, GrabAcquire, ArmTimer, ArmFails, TestLast,
     CancelLast, PublishLast, ReleaseOne, ReleaseLast, ReleaseTest, ReleaseCancel, ReleaseUncounted
<1>2. CASE Loop
  BY <1>2 DEF Loop, TimerFires, WakeTimeout, LoopTest, LoopClear, LoopFree
<1>3. CASE UNCHANGED vars
  BY <1>3 DEF vars
<1> QED
  BY <1>1, <1>2, <1>3 DEF Next

(* The inductive invariant holds in every state. *)
LEMMA InvariantHolds == Spec => []IInv
<1> DEFINE Typed == TypeOK /\ MutexInv /\ CountInv /\ PlaceInv
           Safe == ackVersion => Protocol
<1>1. Spec => []Typed
  BY TypeCorrect
<1>2. Init => Safe
  BY ProtocolInit
<1>3. Typed /\ Typed' /\ Safe /\ [Next]_vars => Safe'
  BY ProtocolStep, VersionFixed
<1>4. Typed /\ Safe => IInv
  BY DEF IInv
<1> HIDE DEF Typed, Safe
<1> QED
  BY <1>1, <1>2, <1>3, <1>4, PTL DEF Spec

(* grabPartialWakeLock, releaseWakeLock and wakeTimeoutCallback never leave the
   kernel lock held without a timer, still to run and not cancelled, that drops
   it, or a thread that is about to arm one. *)
THEOREM NoWakeLockLeak == Spec => []LockHasRelease
<1>1. IInv => LockHasRelease
  BY DEF IInv, Protocol, LockHasRelease
<1> QED
  BY <1>1, InvariantHolds, PTL

(* s_last_wake_timeout_info never points to a freed timer when a thread reads
   it, although userTimerCallback frees timers without the mutex. *)
THEOREM NoDanglingLast == Spec => []LastIsLive
<1>1. IInv => LastIsLive
  BY DEF IInv, Protocol, LastInv, LastIsLive
<1> QED
  BY <1>1, InvariantHolds, PTL

(* Whenever the mutex is free a held lock is counted, and a positive count means
   a held lock unless a calloc failed since it was last taken. *)
THEOREM CountIsRight == Spec => []CountMatchesLock
<1>1. IInv => CountMatchesLock
  <2> SUFFICES ASSUME IInv, ackVersion, mutex = NULL
               PROVE  (wakeLock => count > 0) /\ (count > 0 => wakeLock \/ lost)
    BY DEF CountMatchesLock
  <2>1. \A th \in Threads : pc[th] = "idle"
    BY NullDistinct DEF IInv, MutexInv, TypeOK
  <2> QED
    BY <2>1 DEF IInv, Protocol, LockCountInv
<1> QED
  BY <1>1, InvariantHolds, PTL
-----------------------------------------------------------------------------
(* A step that leaves the lock without a release is a thread cancelling the
   previous timer although its own will not drop the lock. *)
LEMMA LostInStep ==
  ASSUME IInv, [Next]_vars, ReleaseComing, ~ReleaseComing'
  PROVE  \E th \in Threads :
            CancelLast(th) /\ (WillRelease(p_info[th]) => last[th] = p_info[th])
<1> USE NullDistinct
<1> USE DEF IInv, TypeOK, TS!TypeOK, TS!States, PlaceInv, ReleaseComing, WillRelease,
            Goto, Lock, Unlock, loopVars, threadVars
<1> DEFINE Armed == \E th \in Threads : pc[th] = "arm"
           Coming == \E t \in Timers : WillRelease(t)
<1>1. wakeLock' /\ ~Armed' /\ ~Coming'
  OBVIOUS
<1> DEFINE Late == \E th \in Threads :
              CancelLast(th) /\ (WillRelease(p_info[th]) => last[th] = p_info[th])
<1>2. ASSUME NEW th \in Threads, CancelLast(th) PROVE Late
  <2>1. WillRelease(p_info[th]) => last[th] = p_info[th]
    BY <1>1, <1>2 DEF CancelLast
  <2> HIDE DEF WillRelease
  <2> QED
    BY <1>2, <2>1
<1>3. ASSUME NEW th \in Threads, GrabAcquire(th) PROVE FALSE
  BY <1>1, <1>3 DEF GrabAcquire
<1>4. ASSUME NEW th \in Threads, ArmTimer(th) PROVE FALSE
  BY <1>1, <1>4 DEF ArmTimer, TS!Request
<1>5. ASSUME NEW th \in Threads, ArmFails(th) PROVE FALSE
  BY <1>1, <1>5 DEF ArmFails
<1>6. ASSUME NEW th \in Threads, TestLast(th) PROVE FALSE
  BY <1>1, <1>6 DEF TestLast
<1>7. ASSUME NEW th \in Threads, PublishLast(th) PROVE FALSE
  BY <1>1, <1>7 DEF PublishLast
<1>8. ASSUME NEW th \in Threads, ReleaseOne(th) \/ ReleaseLast(th) \/ ReleaseUncounted(th)
      PROVE  FALSE
  BY <1>1, <1>8 DEF ReleaseOne, ReleaseLast, ReleaseUncounted
<1>9. ASSUME NEW th \in Threads, ReleaseTest(th) PROVE FALSE
  BY <1>1, <1>9 DEF ReleaseTest
<1>10. ASSUME NEW th \in Threads, ReleaseCancel(th) PROVE FALSE
  <2>1. ackVersion /\ ~wakeLock
    BY <1>10 DEF ReleaseCancel, CountInv, Protocol, ReleaseInv, ReleasePlaces
  <2> QED
    BY <1>1, <1>10, <2>1 DEF ReleaseCancel
<1>11. ASSUME NEW t \in Timers, TimerFires(t) PROVE FALSE
  BY <1>1, <1>11 DEF TimerFires, TS!Fire
<1>12. ASSUME WakeTimeout \/ LoopTest \/ LoopClear PROVE FALSE
  BY <1>1, <1>12 DEF WakeTimeout, LoopTest, LoopClear
<1>13. ASSUME LoopFree PROVE FALSE
  BY <1>1, <1>13 DEF LoopFree, TS!Return
<1>14. ASSUME UNCHANGED vars PROVE FALSE
  BY <1>1, <1>14 DEF vars
<1> HIDE DEF Armed, Coming, Late
<1>15. Late
  BY <1>2, <1>3, <1>4, <1>5, <1>6, <1>7, <1>8, <1>9, <1>10, <1>11, <1>12, <1>13, <1>14
     DEF Next, Thread, GrabSteps, ReleaseSteps, Loop
<1> QED
  BY <1>15 DEF Late

(* In every version, with any number of threads and timers and any failing
   allocation, only the line that cancels the previous timer can leave the lock
   without a release, and only for a thread whose own timer is gone, cancelled or
   the one it cancels: it went off before it was stored, or two threads store at
   once. *)
THEOREM LostOnlyThere == Spec => LostOnlyByLateCancel
<1>1. IInv /\ [Next]_vars =>
        [ReleaseComing /\ ~ReleaseComing' =>
           \E th \in Threads :
              CancelLast(th) /\ (WillRelease(p_info[th]) => last[th] = p_info[th])]_vars
  BY LostInStep
<1> QED
  BY <1>1, InvariantHolds, PTL DEF Spec, LostOnlyByLateCancel
=============================================================================
