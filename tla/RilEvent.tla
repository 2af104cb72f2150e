------------------------------ MODULE RilEvent ------------------------------
(***************************************************************************)
(* The event loop of libril (libril/ril_event.cpp and its start-up and     *)
(* wake-up pipe in libril/ril.cpp).                                        *)
(*                                                                         *)
(* One dispatch thread runs ril_event_loop.  Any other thread of the       *)
(* process (the vendor RIL's threads, the binder thread) asks for a timed  *)
(* callback: it allocates a UserCallbackInfo, puts its event into          *)
(* timer_list under listMutex and then writes one byte to a pipe so that a *)
(* blocked select() returns and looks at the list again.  calcNextTimeout  *)
(* reads timer_list WITHOUT the mutex, so the list may change between its  *)
(* reads and while select() sleeps.                                        *)
(*                                                                         *)
(* Time is relative: left[t] is what remains of timer t, -1 once the clock *)
(* is strictly past its timeout (processTimeouts compares with >).         *)
(***************************************************************************)
EXTENDS Integers, SequencesExt

CONSTANTS
    Requesters,     \* threads that call internalRequestTimedCallback
    Timers,         \* UserCallbackInfo objects; an object is reused once freed
    Wake,           \* s_wakeupfd_event, the one event ever given to ril_event_add
    None,           \* NULL
    MaxDelay,       \* bound: the longest relative time a caller asks for
    PipeCap,        \* bound: bytes the wake-up pipe holds before write() blocks
    Faults          \* which of the calls below may fail

ASSUME EventsDistinct == Wake \notin Timers /\ None \notin Timers \cup {Wake}
ASSUME BoundsOK       == MaxDelay \in Nat /\ PipeCap \in Nat \ {0}
ASSUME FaultsOK       == Faults \subseteq {"pthread_create", "pipe", "select", "signal"}

VARIABLES
    s_started,          \* the loop thread announced itself
    ready,              \* RIL_startEventLoop returned to its caller
    lpc,                \* where the dispatch thread is
    watch_table,        \* the watched events, and with them readFds
    timer_list,         \* armed timers, in list order
    pending_list,       \* events about to be run
    left,               \* [Timers -> -1 .. MaxDelay]
    heap,               \* allocated UserCallbackInfo objects
    wakePipe,           \* unread bytes in the wake-up pipe
    s_fdWakeupWrite,    \* "stdin" (the static 0) until pipe() has run
    head,               \* calcNextTimeout's tev
    sel,                \* select's timeout: remaining ticks, or Forever
    rfds,               \* the loop's copy of readFds, then what select left in it
    current,            \* the event firePending is running
    rpc, rinfo, rfd     \* a requester's place, its p_info, the fd it read

startVars == <<s_started, ready>>
listVars  == <<timer_list, pending_list, left, heap>>
pipeVars  == <<wakePipe, s_fdWakeupWrite, watch_table>>
loopVars  == <<lpc, head, sel, rfds, current>>
reqVars   == <<rpc, rinfo, rfd>>
vars == <<startVars, listVars, pipeVars, loopVars, reqVars>>

Forever == MaxDelay + 1     \* ptv == NULL: block indefinitely
Events  == Timers \cup {Wake}

Init ==
    /\ s_started = FALSE /\ ready = FALSE
    /\ lpc = "none"
    /\ watch_table = {}
    /\ timer_list = <<>> /\ pending_list = <<>>
    /\ left = [t \in Timers |-> -1]
    /\ heap = {}
    /\ wakePipe = 0 /\ s_fdWakeupWrite = "stdin"
    /\ head = None /\ sel = Forever /\ rfds = {} /\ current = None
    /\ rpc = [r \in Requesters |-> "idle"]
    /\ rinfo = [r \in Requesters |-> None]
    /\ rfd = [r \in Requesters |-> "stdin"]

-----------------------------------------------------------------------------
(* Start-up: RIL_startEventLoop on the main thread, eventLoop on the new one. *)

(* RIL_startEventLoop creates the thread, or only logs that it could not. *)
CreateThread ==
    /\ lpc = "none" /\ ~ready
    /\ \/ lpc' = "init" /\ UNCHANGED ready
       \/ "pthread_create" \in Faults /\ lpc' = "gone" /\ ready' = TRUE
    /\ UNCHANGED <<s_started, listVars, pipeVars, head, sel, rfds, current, reqVars>>

(* ril_event_init empties the lists and the table; then s_started is set under
   s_startupMutex and broadcast. *)
EventInit ==
    /\ lpc = "init"
    /\ timer_list' = <<>> /\ pending_list' = <<>> /\ watch_table' = {}
    /\ s_started' = TRUE
    /\ lpc' = "pipe"
    /\ UNCHANGED <<ready, left, heap, wakePipe, s_fdWakeupWrite, head, sel, rfds, current, reqVars>>

(* RIL_startEventLoop's wait on s_startupCond ends. *)
StartReturns ==
    /\ s_started /\ ~ready
    /\ ready' = TRUE
    /\ UNCHANGED <<s_started, listVars, pipeVars, loopVars, reqVars>>

(* pipe() after the announcement; on failure the thread returns and only a log
   line says so. *)
CreatePipe ==
    /\ lpc = "pipe"
    /\ \/ s_fdWakeupWrite' = "pipe" /\ lpc' = "addWakeup"
       \/ "pipe" \in Faults /\ lpc' = "gone" /\ UNCHANGED s_fdWakeupWrite
    /\ UNCHANGED <<startVars, listVars, wakePipe, watch_table, head, sel, rfds, current, reqVars>>

(* rilEventAddWakeup: ril_event_add, and no write since this is the dispatch thread. *)
AddWakeup ==
    /\ lpc = "addWakeup"
    /\ watch_table' = watch_table \cup {Wake}
    /\ lpc' = "calcHead"
    /\ UNCHANGED <<startVars, listVars, wakePipe, s_fdWakeupWrite, head, sel, rfds, current, reqVars>>

-----------------------------------------------------------------------------
(* A caller of internalRequestTimedCallback. *)

(* calloc, which never hands out a live object. *)
Calloc(r) ==
    /\ ready /\ rpc[r] = "idle"
    /\ \E t \in Timers \ heap :
          /\ heap' = heap \cup {t}
          /\ rinfo' = [rinfo EXCEPT ![r] = t]
    /\ rpc' = [rpc EXCEPT ![r] = "add"]
    /\ UNCHANGED <<startVars, timer_list, pending_list, left, pipeVars, loopVars, rfd>>

(* ril_timer_add's scan stops at the first timer that is not earlier. *)
ScanStopsAt(k, d) ==
    /\ k <= Len(timer_list) => left[timer_list[k]] >= d
    /\ \A i \in 1 .. k - 1 : left[timer_list[i]] < d

TimerAdd(t, d) ==
    /\ \E k \in 1 .. Len(timer_list) + 1 :
          ScanStopsAt(k, d) /\ timer_list' = InsertAt(timer_list, k, t)
    /\ left' = [left EXCEPT ![t] = d]

RilTimerAdd(r) ==
    /\ rpc[r] = "add" /\ s_started
    /\ \E d \in 0 .. MaxDelay : TimerAdd(rinfo[r], d)
    /\ rpc' = [rpc EXCEPT ![r] = "trigger"]
    /\ rinfo' = [rinfo EXCEPT ![r] = None]
    /\ UNCHANGED <<startVars, pending_list, heap, pipeVars, loopVars, rfd>>

(* Without a dispatch thread nothing initialised timer_list: its links are NULL, and
   ril_timer_add, which follows them, ends the process. *)
RilTimerAddCrashes(r) ==
    /\ rpc[r] = "add" /\ ~s_started
    /\ lpc' = "killed"
    /\ UNCHANGED <<startVars, listVars, pipeVars, head, sel, rfds, current, reqVars>>

(* triggerEvLoop loads s_fdWakeupWrite, which nothing protects ... *)
TriggerLoad(r) ==
    /\ rpc[r] = "trigger"
    /\ rfd' = [rfd EXCEPT ![r] = s_fdWakeupWrite]
    /\ rpc' = [rpc EXCEPT ![r] = "write"]
    /\ UNCHANGED <<startVars, listVars, pipeVars, loopVars, rinfo>>

(* ... and writes one byte; the pipe's write end blocks when the pipe is full. *)
TriggerWrite(r) ==
    /\ rpc[r] = "write"
    /\ \/ rfd[r] = "stdin" /\ UNCHANGED wakePipe
       \/ rfd[r] = "pipe" /\ wakePipe < PipeCap /\ wakePipe' = wakePipe + 1
    /\ rpc' = [rpc EXCEPT ![r] = "idle"]
    /\ rfd' = [rfd EXCEPT ![r] = "stdin"]
    /\ UNCHANGED <<startVars, listVars, s_fdWakeupWrite, watch_table, loopVars, rinfo>>

-----------------------------------------------------------------------------
(* ril_event_loop. *)

(* The unlocked copy of readFds and calcNextTimeout's unlocked read of the head. *)
CalcHead ==
    /\ lpc = "calcHead"
    /\ rfds' = watch_table
    /\ head' = IF timer_list = <<>> THEN None ELSE Head(timer_list)
    /\ lpc' = "calcTimeout"
    /\ UNCHANGED <<startVars, listVars, pipeVars, sel, current, reqVars>>

(* calcNextTimeout turns the head it read into select's timeout: 0 if it is due. *)
CalcTimeout ==
    /\ lpc = "calcTimeout"
    /\ sel' = IF head = None THEN Forever ELSE IF left[head] > 0 THEN left[head] ELSE 0
    /\ head' = None
    /\ lpc' = "select"
    /\ UNCHANGED <<startVars, listVars, pipeVars, rfds, current, reqVars>>

Readable == IF wakePipe > 0 THEN rfds \cap {Wake} ELSE {}

(* select returns: an fd is readable or the timeout elapsed. *)
SelectReturns ==
    /\ lpc = "select"
    /\ Readable # {} \/ sel = 0
    /\ rfds' = Readable
    /\ sel' = Forever
    /\ lpc' = "timeouts"
    /\ UNCHANGED <<startVars, listVars, pipeVars, head, current, reqVars>>

(* A signal ends the wait (EINTR: start over); any other error is fatal and
   eventLoop kills the whole process group. *)
SelectFails ==
    /\ lpc = "select"
    /\ \/ "signal" \in Faults /\ Readable = {} /\ sel # 0 /\ lpc' = "calcHead"
       \/ "select" \in Faults /\ lpc' = "killed"
    /\ rfds' = {} /\ sel' = Forever
    /\ UNCHANGED <<startVars, listVars, pipeVars, head, current, reqVars>>

(* Mutant: >= for the > of processTimeouts. *)
WalkExpiresEarly(n) ==
    /\ \A i \in 1 .. n : left[timer_list[i]] <= 0
    /\ n < Len(timer_list) => left[timer_list[n + 1]] > 0

(* The walk of processTimeouts goes over the first n timers: those whose timeout
   the clock has passed. *)
WalkExpires(n) ==
    /\ \A i \in 1 .. n : left[timer_list[i]] = -1
    /\ n < Len(timer_list) => left[timer_list[n + 1]] # -1

(* Mutant: removeFromList forgotten. *)
ProcessTimeoutsNoRemove ==
    /\ lpc = "timeouts"
    /\ \E n \in 0 .. Len(timer_list) :
          /\ WalkExpires(n)
          /\ pending_list' = pending_list \o SubSeq(timer_list, 1, n)
    /\ lpc' = "reads"
    /\ UNCHANGED <<startVars, timer_list, left, heap, pipeVars, head, sel, rfds, current, reqVars>>

ProcessTimeouts ==
    /\ lpc = "timeouts"
    /\ \E n \in 0 .. Len(timer_list) :
          /\ WalkExpires(n)
          /\ pending_list' = pending_list \o SubSeq(timer_list, 1, n)
          /\ timer_list' = SubSeq(timer_list, n + 1, Len(timer_list))
    /\ lpc' = "reads"
    /\ UNCHANGED <<startVars, left, heap, pipeVars, head, sel, rfds, current, reqVars>>

(* Mutant: s_wakeupfd_event without persist. *)
NotPersistent == {}

(* eventLoop gives s_wakeupfd_event persist = true. *)
Persistent == {Wake}

(* processReadReadies queues the readable watched event and drops it from the
   table unless it is persistent (removeWatch). *)
ProcessReadReadies ==
    /\ lpc = "reads"
    /\ pending_list' = pending_list \o (IF rfds \cap watch_table = {} THEN <<>> ELSE <<Wake>>)
    /\ watch_table' = watch_table \ (rfds \ Persistent)
    /\ rfds' = {}
    /\ lpc' = "fire"
    /\ UNCHANGED <<startVars, timer_list, left, heap, wakePipe, s_fdWakeupWrite, head, sel, current, reqVars>>

(* Mutant: firePending leaves the event on pending_list. *)
FireNextNoRemove ==
    /\ lpc = "fire" /\ current = None
    /\ IF pending_list = <<>>
       THEN lpc' = "calcHead" /\ UNCHANGED current
       ELSE current' = Head(pending_list) /\ UNCHANGED lpc
    /\ UNCHANGED <<startVars, listVars, pipeVars, head, sel, rfds, reqVars>>

(* firePending takes the next event off the list, without the mutex, and calls it. *)
FireNext ==
    /\ lpc = "fire" /\ current = None
    /\ IF pending_list = <<>>
       THEN lpc' = "calcHead" /\ UNCHANGED <<pending_list, current>>
       ELSE /\ current' = Head(pending_list)
            /\ pending_list' = Tail(pending_list)
            /\ UNCHANGED lpc
    /\ UNCHANGED <<startVars, timer_list, left, heap, pipeVars, head, sel, rfds, reqVars>>

(* Mutant: the wake-up pipe is not read. *)
ProcessWakeupNoRead ==
    /\ current = Wake
    /\ current' = None
    /\ UNCHANGED <<startVars, listVars, pipeVars, lpc, head, sel, rfds, reqVars>>

(* processWakeupCallback reads until the non-blocking pipe is empty. *)
ProcessWakeup ==
    /\ current = Wake
    /\ wakePipe' = 0
    /\ current' = None
    /\ UNCHANGED <<startVars, listVars, s_fdWakeupWrite, watch_table, lpc, head, sel, rfds, reqVars>>

(* A user callback, itself on the dispatch thread, requests another timer: no
   write to the pipe. *)
CallbackRequests ==
    /\ current \in Timers
    /\ \E t \in Timers \ heap, d \in 0 .. MaxDelay :
          TimerAdd(t, d) /\ heap' = heap \cup {t}
    /\ UNCHANGED <<startVars, pending_list, pipeVars, loopVars, reqVars>>

(* The user callback returns and userTimerCallback frees the UserCallbackInfo. *)
UserTimerReturns ==
    /\ current \in Timers
    /\ heap' = heap \ {current}
    /\ current' = None
    /\ UNCHANGED <<startVars, timer_list, pending_list, left, pipeVars, lpc, head, sel, rfds, reqVars>>

-----------------------------------------------------------------------------
(* CLOCK_MONOTONIC advances by one unit, for the timers and for select. *)
Armed == ToSet(timer_list)

Tick ==
    /\ \/ \E t \in Armed : left[t] >= 0
       \/ lpc = "select" /\ sel \in 1 .. MaxDelay
    /\ left' = [t \in Timers |-> IF t \in Armed /\ left[t] >= 0 THEN left[t] - 1 ELSE left[t]]
    /\ sel' = IF lpc = "select" /\ sel \in 1 .. MaxDelay THEN sel - 1 ELSE sel
    /\ UNCHANGED <<startVars, timer_list, pending_list, heap, pipeVars, lpc, head, rfds, current, reqVars>>

Alive == lpc # "killed"

StartUp == CreateThread \/ EventInit \/ StartReturns \/ CreatePipe \/ AddWakeup

Requester(r) == Calloc(r) \/ RilTimerAdd(r) \/ TriggerLoad(r) \/ TriggerWrite(r)

LoopStep == \/ CalcHead \/ CalcTimeout \/ SelectReturns
            \/ ProcessTimeouts \/ ProcessReadReadies \/ FireNext
            \/ ProcessWakeup \/ UserTimerReturns

Next == /\ Alive
        /\ \/ StartUp
           \/ \E r \in Requesters : Requester(r) \/ RilTimerAddCrashes(r)
           \/ LoopStep \/ SelectFails \/ CallbackRequests
           \/ Tick

Spec == Init /\ [][Next]_vars

(* The scheduler runs every thread that can run, the clock advances, and a user
   callback returns.  Nobody has to request a timer (Calloc has no fairness). *)
Fairness ==
    /\ WF_vars(StartUp)
    /\ WF_vars(LoopStep)
    /\ WF_vars(Tick)
    /\ \A r \in Requesters : WF_vars(RilTimerAdd(r) \/ TriggerLoad(r)) /\ SF_vars(TriggerWrite(r))

FairSpec == Spec /\ Fairness
-----------------------------------------------------------------------------
(* Properties. *)

(* Every variable of ril_event.cpp and of the wake-up pipe keeps its range: in
   particular select never gets a negative timeout (calcNextTimeout's clamp). *)
TypeOK ==
    /\ s_started \in BOOLEAN /\ ready \in BOOLEAN
    /\ lpc \in {"none", "init", "pipe", "addWakeup", "calcHead", "calcTimeout", "select",
                "timeouts", "reads", "fire", "gone", "killed"}
    /\ watch_table \subseteq {Wake} /\ rfds \subseteq {Wake}
    /\ timer_list \in Seq(Timers) /\ pending_list \in Seq(Events)
    /\ left \in [Timers -> -1 .. MaxDelay]
    /\ heap \subseteq Timers
    /\ wakePipe \in 0 .. PipeCap /\ s_fdWakeupWrite \in {"stdin", "pipe"}
    /\ head \in Timers \cup {None} /\ sel \in 0 .. Forever
    /\ current \in Events \cup {None}
    /\ rpc \in [Requesters -> {"idle", "add", "trigger", "write"}]
    /\ rinfo \in [Requesters -> Timers \cup {None}]
    /\ rfd \in [Requesters -> {"stdin", "pipe"}]

(* ril_timer_add "keep list sorted": processTimeouts stops at the first timer
   that is not due and calcNextTimeout looks at the first timer only, so both
   are right only while the list is sorted by timeout. *)
TimersSorted ==
    \A i, j \in 1 .. Len(timer_list) : i < j => left[timer_list[i]] <= left[timer_list[j]]

(* An allocated UserCallbackInfo is in exactly one place -- with the thread
   that will add it, once in timer_list, once in pending_list, or running --
   and a freed one is in none: next and prev are shared by both lists, and
   userTimerCallback frees the object while firePending walks. *)
Pending == ToSet(pending_list)

OnePlace ==
    /\ IsInjective(timer_list) /\ IsInjective(pending_list)
    /\ Armed \cap Pending = {} /\ current \notin Armed \cup Pending
    /\ \A r \in Requesters : rinfo[r] # None =>
          /\ rinfo[r] \notin Armed \cup Pending \cup {current}
          /\ \A q \in Requesters : rinfo[q] = rinfo[r] => q = r
    /\ heap = (Armed \cup Pending \cup {current} \cup {rinfo[r] : r \in Requesters}) \cap Timers

(* A byte is in the pipe and the blocked select watches it, or a requester is
   about to write one to the pipe. *)
WakeComing ==
    \/ (wakePipe > 0 /\ Wake \in rfds)
    \/ \E r \in Requesters : rpc[r] = "trigger" \/ (rpc[r] = "write" /\ rfd[r] = "pipe")

(* While select sleeps, no armed timer is due before it wakes, unless its
   wake-up is on the way: the unlocked reads of calcNextTimeout and the
   unprotected s_fdWakeupWrite lose no wake-up. *)
NoLostWakeup ==
    lpc = "select" => \A t \in Armed : WakeComing \/ sel = 0 \/ sel <= left[t]

(* A callback never runs before its time: what processTimeouts queued was
   strictly past its timeout. *)
NeverEarly ==
    /\ \A i \in DOMAIN pending_list : pending_list[i] \in Timers => left[pending_list[i]] = -1
    /\ current \in Timers => left[current] = -1

(* A thread about to write to the wake-up pipe finds room in it and never waits:
   grabPartialWakeLock writes while it holds s_wakeLockCountMutex, which the
   dispatch thread, the only reader of the pipe, needs in wakeTimeoutCallback. *)
WritersNeverWait == \A r \in Requesters : rpc[r] = "write" => wakePipe < PipeCap

(* libril's event loop implements the timer service of module TimerService. *)
timerState ==
    [t \in Timers |-> IF current = t THEN "firing"
                      ELSE IF t \in Armed \cup Pending THEN "armed" ELSE "idle"]

Abstract == INSTANCE TimerService WITH timer <- timerState

ImplementsTimerService == Abstract!Spec

(* Every timer added by ril_timer_add is run, whatever thread added it and
   whenever, also before the wake-up pipe exists -- as long as there is a
   dispatch thread. *)
Stopped == lpc \in {"gone", "killed"}

EveryTimerFires == \A t \in Timers : t \in Armed ~> current = t \/ Stopped

(* A thread in triggerEvLoop's write leaves it, although the pipe may be full. *)
WriterReturns == \A r \in Requesters : rpc[r] = "write" ~> rpc[r] = "idle" \/ Stopped
=============================================================================
