------------------------------ MODULE WakeLock ------------------------------
(***************************************************************************)
(* The partial wake lock "radio-interface" of libril (libril/ril.cpp).     *)
(*                                                                         *)
(* A thread that delivers an indication or an acknowledged response takes  *)
(* the kernel wake lock and arms a 200 ms timer that will drop it.  With   *)
(* s_callbacks.version >= 13 the framework acknowledges the message, which *)
(* drops the lock early (releaseWakeLock), and s_wakeLockCountMutex guards *)
(* the count.  Below 13 there is neither acknowledgement nor mutex.        *)
(*                                                                         *)
(* s_last_wake_timeout_info remembers the latest timer so that the next    *)
(* message can cancel it by setting its userParam.  The dispatch thread    *)
(* reads userParam, clears the pointer and frees the timer without taking  *)
(* the mutex, so each of these is a step of its own here.                  *)
(*                                                                         *)
(* The timers are those of module TimerService, which module RilEvent      *)
(* implements.  A freed timer's memory is handed out again.                *)
(***************************************************************************)
EXTENDS Integers, FiniteSets

CONSTANTS
    Threads,        \* vendor RIL threads and the binder thread
    Timers,         \* UserCallbackInfo objects; bound: timers alive at a time
    NULL,
    CallocFails,    \* internalRequestTimedCallback may return NULL
    MaxInside,      \* bound: threads inside a grab, for below 13 no mutex limits them
    MaxCount        \* bound: s_wakelock_count, as no other limits it

ASSUME NullDistinct == NULL \notin Timers /\ NULL \notin Threads
ASSUME CallocFailsOK == CallocFails \in BOOLEAN
ASSUME BoundsOK == MaxCount \in Nat \ {0} /\ MaxInside \in Nat \ {0}

VARIABLES
    ackVersion,     \* s_callbacks.version >= 13, as RIL_register found it
    wakeLock,       \* the kernel holds "radio-interface": a flag, not a counter
    count,          \* s_wakelock_count
    lost,           \* history: calloc failed since the lock was last taken
    mutex,          \* owner of s_wakeLockCountMutex, or NULL
    s_last,         \* s_last_wake_timeout_info
    userParam,      \* [Timers -> BOOLEAN]: TRUE is the cancel mark, 1
    timer,          \* the timer service's state
    pc, p_info, last, \* a thread's place, its new timer, the s_last it read
    lpc, cb         \* the dispatch thread's place in userTimerCallback, its timer

threadVars == <<pc, p_info, last>>
loopVars   == <<lpc, cb>>
vars == <<ackVersion, wakeLock, count, lost, mutex, s_last, userParam, timer, threadVars, loopVars>>

TS == INSTANCE TimerService

Init ==
    /\ ackVersion \in BOOLEAN
    /\ wakeLock = FALSE /\ count = 0 /\ lost = FALSE /\ mutex = NULL /\ s_last = NULL
    /\ userParam = [t \in Timers |-> FALSE]
    /\ TS!Init
    /\ pc = [th \in Threads |-> "idle"]
    /\ p_info = [th \in Threads |-> NULL]
    /\ last = [th \in Threads |-> NULL]
    /\ lpc = "idle" /\ cb = NULL

Goto(th, place) == pc' = [pc EXCEPT ![th] = place]

(* The mutex exists for the code but is used only with version >= 13. *)
CanLock == ackVersion => mutex = NULL
Lock(th) == mutex' = IF ackVersion THEN th ELSE mutex
Unlock == mutex' = NULL

-----------------------------------------------------------------------------
(* grabPartialWakeLock, and below 13 the tail of RIL_onUnsolicitedResponse that
   arms the timer after the indication was sent. *)

(* Bound: a grab starts only while an object is left for its timer. *)
SpareTimer ==
    Cardinality({th \in Threads : pc[th] = "arm"})
        < Cardinality({t \in Timers : timer[t] = "idle"})

GrabAcquire(th) ==
    /\ pc[th] = "idle"
    /\ SpareTimer /\ count < MaxCount
    /\ Cardinality({other \in Threads : pc[other] # "idle"}) < MaxInside
    /\ CanLock /\ Lock(th)
    /\ wakeLock' = TRUE /\ lost' = FALSE
    /\ Goto(th, "arm")
    /\ UNCHANGED <<ackVersion, count, s_last, userParam, timer, p_info, last, loopVars>>

(* Mutant: a timer whose userParam keeps what the memory held. *)
ArmTimerStale(th) ==
    /\ pc[th] = "arm"
    /\ \E t \in Timers : TS!Request(t) /\ p_info' = [p_info EXCEPT ![th] = t]
    /\ count' = IF ackVersion THEN count + 1 ELSE count
    /\ Goto(th, "test")
    /\ UNCHANGED <<ackVersion, wakeLock, lost, mutex, s_last, userParam, last, loopVars>>

(* internalRequestTimedCallback with a NULL userParam, then the count. *)
ArmTimer(th) ==
    /\ pc[th] = "arm"
    /\ \E t \in Timers :
          /\ TS!Request(t)
          /\ userParam' = [userParam EXCEPT ![t] = FALSE]
          /\ p_info' = [p_info EXCEPT ![th] = t]
    /\ count' = IF ackVersion THEN count + 1 ELSE count
    /\ Goto(th, "test")
    /\ UNCHANGED <<ackVersion, wakeLock, lost, mutex, s_last, last, loopVars>>

(* No memory for the timer: release at once (below 13 through error_exit). *)
ArmFails(th) ==
    /\ pc[th] = "arm" /\ CallocFails
    /\ wakeLock' = FALSE /\ lost' = TRUE
    /\ Unlock
    /\ Goto(th, "idle")
    /\ UNCHANGED <<ackVersion, count, s_last, userParam, timer, p_info, last, loopVars>>

(* if (s_last_wake_timeout_info != NULL), the pointer kept for the write. *)
TestLast(th) ==
    /\ pc[th] = "test"
    /\ last' = [last EXCEPT ![th] = s_last]
    /\ Goto(th, IF s_last = NULL THEN "publish" ELSE "cancel")
    /\ UNCHANGED <<ackVersion, wakeLock, count, lost, mutex, s_last, userParam,
                   timer, p_info, loopVars>>

(* s_last_wake_timeout_info->userParam = 1: the object may be freed,
   or be another timer, by now. *)
CancelLast(th) ==
    /\ pc[th] = "cancel"
    /\ userParam' = [userParam EXCEPT ![last[th]] = TRUE]
    /\ Goto(th, "publish")
    /\ UNCHANGED <<ackVersion, wakeLock, count, lost, mutex, s_last, timer,
                   p_info, last, loopVars>>

(* s_last_wake_timeout_info = p_info, and unlock. *)
PublishLast(th) ==
    /\ pc[th] = "publish"
    /\ s_last' = p_info[th]
    /\ p_info' = [p_info EXCEPT ![th] = NULL]
    /\ last' = [last EXCEPT ![th] = NULL]
    /\ Unlock
    /\ Goto(th, "idle")
    /\ UNCHANGED <<ackVersion, wakeLock, count, lost, userParam, timer, loopVars>>

-----------------------------------------------------------------------------
(* releaseWakeLock: an acknowledgement from the framework, at any time and any
   number of times, or the error exit of RIL_onUnsolicitedResponse. *)

ReleaseOne(th) ==
    /\ pc[th] = "idle" /\ ackVersion /\ CanLock
    /\ count > 1
    /\ count' = count - 1
    /\ UNCHANGED <<ackVersion, wakeLock, lost, mutex, s_last, userParam, timer,
                   threadVars, loopVars>>

ReleaseLast(th) ==
    /\ pc[th] = "idle" /\ ackVersion /\ CanLock /\ Lock(th)
    /\ count <= 1
    /\ count' = 0
    /\ wakeLock' = FALSE
    /\ Goto(th, "releaseTest")
    /\ UNCHANGED <<ackVersion, lost, s_last, userParam, timer, p_info, last, loopVars>>

ReleaseTest(th) ==
    /\ pc[th] = "releaseTest"
    /\ last' = [last EXCEPT ![th] = s_last]
    /\ IF s_last = NULL
       THEN Unlock /\ Goto(th, "idle")
       ELSE UNCHANGED mutex /\ Goto(th, "releaseCancel")
    /\ UNCHANGED <<ackVersion, wakeLock, count, lost, s_last, userParam, timer,
                   p_info, loopVars>>

ReleaseCancel(th) ==
    /\ pc[th] = "releaseCancel"
    /\ userParam' = [userParam EXCEPT ![last[th]] = TRUE]
    /\ last' = [last EXCEPT ![th] = NULL]
    /\ Unlock
    /\ Goto(th, "idle")
    /\ UNCHANGED <<ackVersion, wakeLock, count, lost, s_last, timer, p_info, loopVars>>

(* Below 13 releaseWakeLock only writes to the kernel. *)
ReleaseUncounted(th) ==
    /\ pc[th] = "idle" /\ ~ackVersion
    /\ wakeLock' = FALSE
    /\ UNCHANGED <<ackVersion, count, lost, mutex, s_last, userParam, timer,
                   threadVars, loopVars>>

-----------------------------------------------------------------------------
(* userTimerCallback and wakeTimeoutCallback on the dispatch thread. *)

(* firePending: p_callback(p_info->userParam) reads the cancel mark, no mutex. *)
TimerFires(t) ==
    /\ lpc = "idle"
    /\ TS!Fire(t)
    /\ cb' = t
    /\ lpc' = IF userParam[t] THEN "test" ELSE "timeout"
    /\ UNCHANGED <<ackVersion, wakeLock, count, lost, mutex, s_last, userParam, threadVars>>

(* Mutants: the count not zeroed; the kernel lock not dropped. *)
WakeTimeoutKeepsCount ==
    /\ lpc = "timeout"
    /\ CanLock
    /\ wakeLock' = FALSE
    /\ lpc' = "test"
    /\ UNCHANGED <<ackVersion, count, lost, mutex, s_last, userParam, timer,
                   threadVars, cb>>

WakeTimeoutKeepsLock ==
    /\ lpc = "timeout"
    /\ CanLock
    /\ count' = IF ackVersion THEN 0 ELSE count
    /\ lpc' = "test"
    /\ UNCHANGED <<ackVersion, wakeLock, lost, mutex, s_last, userParam, timer,
                   threadVars, cb>>

(* wakeTimeoutCallback(NULL): drop the lock, whatever the count. *)
WakeTimeout ==
    /\ lpc = "timeout"
    /\ CanLock
    /\ wakeLock' = FALSE
    /\ count' = IF ackVersion THEN 0 ELSE count
    /\ lpc' = "test"
    /\ UNCHANGED <<ackVersion, lost, mutex, s_last, userParam, timer, threadVars, cb>>

(* Mutant: userTimerCallback does not look at s_last_wake_timeout_info. *)
LoopTestSkipped ==
    /\ lpc = "test"
    /\ lpc' = "free"
    /\ UNCHANGED <<ackVersion, wakeLock, count, lost, mutex, s_last, userParam,
                   timer, threadVars, cb>>

(* Back in userTimerCallback: is this still the latest timer? *)
LoopTest ==
    /\ lpc = "test"
    /\ lpc' = IF s_last = cb THEN "clear" ELSE "free"
    /\ UNCHANGED <<ackVersion, wakeLock, count, lost, mutex, s_last, userParam,
                   timer, threadVars, cb>>

LoopClear ==
    /\ lpc = "clear"
    /\ s_last' = NULL
    /\ lpc' = "free"
    /\ UNCHANGED <<ackVersion, wakeLock, count, lost, mutex, userParam, timer,
                   threadVars, cb>>

LoopFree ==
    /\ lpc = "free"
    /\ TS!Return(cb)
    /\ cb' = NULL
    /\ lpc' = "idle"
    /\ UNCHANGED <<ackVersion, wakeLock, count, lost, mutex, s_last, userParam, threadVars>>

-----------------------------------------------------------------------------
GrabSteps(th) == ArmTimer(th) \/ ArmFails(th) \/ TestLast(th) \/ CancelLast(th) \/ PublishLast(th)

ReleaseSteps(th) == ReleaseTest(th) \/ ReleaseCancel(th)

Thread(th) ==
    \/ GrabAcquire(th) \/ GrabSteps(th)
    \/ ReleaseOne(th) \/ ReleaseLast(th) \/ ReleaseUncounted(th) \/ ReleaseSteps(th)

Loop == (\E t \in Timers : TimerFires(t)) \/ WakeTimeout \/ LoopTest \/ LoopClear \/ LoopFree

Next == (\E th \in Threads : Thread(th)) \/ Loop

Spec == Init /\ [][Next]_vars

(* A thread inside grab or release goes on, and so does the dispatch thread; no
   thread has to start a grab or a release. *)
FairSpec ==
    /\ Spec
    /\ \A th \in Threads : WF_vars(GrabSteps(th) \/ ReleaseSteps(th))
    /\ WF_vars(Loop)

-----------------------------------------------------------------------------
(* Properties. *)

GrabPlaces    == {"arm", "test", "cancel", "publish"}
ReleasePlaces == {"releaseTest", "releaseCancel"}

(* Ranges of s_wakelock_count, the mutex and the pointers. *)
TypeOK ==
    /\ ackVersion \in BOOLEAN /\ wakeLock \in BOOLEAN
    /\ count \in 0 .. MaxCount /\ lost \in BOOLEAN
    /\ mutex \in Threads \cup {NULL}
    /\ s_last \in Timers \cup {NULL}
    /\ userParam \in [Timers -> BOOLEAN]
    /\ TS!TypeOK
    /\ pc \in [Threads -> {"idle"} \cup GrabPlaces \cup ReleasePlaces]
    /\ p_info \in [Threads -> Timers \cup {NULL}]
    /\ last \in [Threads -> Timers \cup {NULL}]
    /\ lpc \in {"idle", "timeout", "test", "clear", "free"}
    /\ cb \in Timers \cup {NULL}

(* Timer t will still drop the lock when the dispatch thread gets to it. *)
WillRelease(t) ==
    \/ timer[t] = "armed" /\ ~userParam[t]
    \/ timer[t] = "firing" /\ cb = t /\ lpc = "timeout"

(* The kernel lock is held only while something is going to drop it: a timer that
   is not cancelled, or a thread about to arm one.  RIL_onUnsolicitedResponse says
   "we'll either release it immediately or set a timer to release it later" of
   every version; below 13, with no mutex, the code does not keep the promise. *)
ReleaseComing ==
    wakeLock => \/ (\E th \in Threads : pc[th] = "arm")
                \/ (\E t \in Timers : WillRelease(t))

(* With version 13 the mutex of grabPartialWakeLock, releaseWakeLock and
   wakeTimeoutCallback keeps the promise. *)
LockHasRelease == ackVersion => ReleaseComing

(* Whatever the version, the coming release is lost in one way only: a thread
   cancels the previous timer when its own has gone off already, was cancelled
   itself, or is the very object it cancels.  No allocation failure, timeout,
   acknowledgement or freed timer loses it. *)
LostOnlyByLateCancel ==
    [][ReleaseComing /\ ~ReleaseComing' =>
         \E th \in Threads :
            CancelLast(th) /\ (WillRelease(p_info[th]) => last[th] = p_info[th])]_vars

(* Outside the critical section the count says whether the kernel lock is held: a
   timeout that zeroes the count of several messages also drops the lock.  Only
   grabPartialWakeLock takes it from counted messages, when it has no memory. *)
CountMatchesLock ==
    ackVersion /\ mutex = NULL => (wakeLock => count > 0) /\ (count > 0 => wakeLock \/ lost)

(* With version 13 s_last_wake_timeout_info never points to freed memory, although
   userTimerCallback clears it and frees the timer without the mutex. *)
LastIsLive == ackVersion /\ s_last # NULL => timer[s_last] # "idle"

(* With version 13, unless messages keep coming, the phone gets to sleep. *)
WakeLockReleased ==
    []ackVersion => []<>(\E th \in Threads : pc[th] = "arm") \/ []<>(~wakeLock)
=============================================================================
