---------------------------- MODULE RadioService ----------------------------
(***************************************************************************)
(* The framework's callbacks in libril and the read-write lock around      *)
(* them (libril/ril_service.cpp, with RIL_onUnsolicitedResponse and        *)
(* onNewCommandConnect of libril/ril.cpp).                                 *)
(*                                                                         *)
(* The phone process registers callback objects with setResponseFunctions; *)
(* vendor threads call them under radioServiceRwlock.  When the process    *)
(* has died a call fails, and checkReturnStatus must give up the read lock *)
(* to take the write lock that resets the callbacks; a counter tells it    *)
(* whether somebody registered new ones in that gap.  NITZ time that no    *)
(* callback could take is kept for the next process that registers.        *)
(*                                                                         *)
(* A phone process is its number: clients start one after another.         *)
(***************************************************************************)
EXTENDS Integers, FiniteSets

CONSTANTS
    VendorThreads,
    Binder,             \* the one binder thread
    NULL,
    MaxClients,         \* bound: phone processes that start
    MaxNitz             \* bound: NITZ indications

Services == {"radio", "oemHook"}
Threads  == VendorThreads \cup {Binder}

ASSUME ThreadsFinite == IsFiniteSet(VendorThreads)
ASSUME BinderIsOther == Binder \notin VendorThreads
ASSUME NullIsOther == NULL \notin Threads /\ NULL \notin Nat
ASSUME BoundsOK == MaxClients \in Nat /\ MaxNitz \in Nat

VARIABLES
    client, alive,      \* the latest phone process and whether it lives
    registered,         \* [Services -> the latest process whose setResponseFunctions ran]
    callbacks,          \* [Services -> the process whose callbacks are set, or NULL]
    counter,            \* mCounterRadio, mCounterOemHook
    readers, writer,    \* radioServiceRwlock: read locks held, the writing thread
    holders,            \* threads between their lock and their unlock
    pc, op,             \* a thread's place and what it is doing there
    noted,              \* checkReturnStatus's local counter
    ret,                \* what nitzTimeReceivedInd returned
    nitz,               \* the NITZ time a thread delivers
    nitzCount,          \* NITZ indications so far; each is its own receive time
    nitzTimeReceived,   \* receive time of the latest
    s_lastNITZTimeData, \* the copy kept for the next client, or NULL
    delivered           \* [time, received, client] of every NITZ call that arrived

clientVars == <<client, alive>>
cbVars     == <<registered, callbacks, counter>>
lockVars   == <<readers, writer, holders>>
localVars  == <<noted, ret, nitz>>
nitzVars   == <<nitzCount, nitzTimeReceived, s_lastNITZTimeData, delivered>>
vars == <<clientVars, cbVars, lockVars, pc, op, localVars, nitzVars>>

Init ==
    /\ client = 0 /\ alive = FALSE
    /\ registered = [s \in Services |-> 0]
    /\ callbacks = [s \in Services |-> NULL]
    /\ counter = [s \in Services |-> 0]
    /\ readers = 0 /\ writer = NULL /\ holders = {}
    /\ pc = [th \in Threads |-> "idle"]
    /\ op = [th \in Threads |-> "none"]
    /\ noted = [th \in Threads |-> 0]
    /\ ret = [th \in Threads |-> 0]
    /\ nitz = [th \in Threads |-> NULL]
    /\ nitzCount = 0 /\ nitzTimeReceived = NULL
    /\ s_lastNITZTimeData = NULL /\ delivered = {}

Alive(c) == alive /\ c = client

Goto(th, place) == pc' = [pc EXCEPT ![th] = place]
Start(th, place, what) == Goto(th, place) /\ op' = [op EXCEPT ![th] = what]

(* The thread returns; its locals go. *)
Return(th) ==
    /\ Start(th, "idle", "none")
    /\ ret' = [ret EXCEPT ![th] = 0] /\ nitz' = [nitz EXCEPT ![th] = NULL]

CanRead  == writer = NULL
CanWrite == writer = NULL /\ readers = 0

Acquire(th) == readers' = readers + 1 /\ holders' = holders \cup {th}

(* pthread_rwlock_unlock counts read locks, it does not know whose they are: a
   thread that holds none takes another's away, or gets EPERM, which an assert
   without NDEBUG would stop at. *)
Release(th) ==
    /\ holders' = holders \ {th}
    /\ writer' = IF writer = th THEN NULL ELSE writer
    /\ readers' = IF writer = NULL /\ readers > 0 THEN readers - 1 ELSE readers

(* The service whose callbacks an operation uses. *)
ServiceOf(what) == IF what = "oemHookRaw" THEN "oemHook" ELSE "radio"

-----------------------------------------------------------------------------
(* The phone process; external. *)

ClientStarts ==
    /\ ~alive /\ client < MaxClients
    /\ client' = client + 1 /\ alive' = TRUE
    /\ UNCHANGED <<cbVars, lockVars, pc, op, localVars, nitzVars>>

ClientDies ==
    /\ alive
    /\ alive' = FALSE
    /\ UNCHANGED <<client, cbVars, lockVars, pc, op, localVars, nitzVars>>

-----------------------------------------------------------------------------
(* Calls from the vendor, on its own threads or from inside onRequest on the
   binder thread, and into the callbacks. *)

(* RIL_onUnsolicitedResponse for any indication but NITZ, and the response of
   RIL_onRequestComplete (the fake one of dispatchStrings too) and
   RIL_onRequestAck: the read lock. *)
ReadOps == {"indication", "oemHookRaw"}

VendorCalls(v) ==
    /\ pc[v] = "idle"
    /\ \E what \in ReadOps : Start(v, "readLock", what)
    /\ UNCHANGED <<clientVars, cbVars, lockVars, localVars, nitzVars>>

ReadLock(th) ==
    /\ pc[th] = "readLock" /\ CanRead
    /\ Acquire(th)
    /\ Goto(th, "call")
    /\ UNCHANGED <<clientVars, cbVars, writer, op, localVars, nitzVars>>

(* Mutant: the receive time of the kept copy is preserved. *)
NitzReceivedKeepsTime(v) ==
    /\ pc[v] = "idle" /\ nitzCount < MaxNitz /\ CanWrite
    /\ writer' = v /\ holders' = holders \cup {v}
    /\ nitzCount' = nitzCount + 1
    /\ nitzTimeReceived' = IF s_lastNITZTimeData = NULL THEN nitzCount' ELSE nitzTimeReceived
    /\ nitz' = [nitz EXCEPT ![v] = nitzCount']
    /\ Start(v, "call", "nitz")
    /\ UNCHANGED <<clientVars, cbVars, readers, noted, ret, s_lastNITZTimeData, delivered>>

(* RIL_UNSOL_NITZ_TIME_RECEIVED: the write lock, and the receive time under it. *)
NitzReceived(v) ==
    /\ pc[v] = "idle" /\ nitzCount < MaxNitz /\ CanWrite
    /\ writer' = v /\ holders' = holders \cup {v}
    /\ nitzCount' = nitzCount + 1
    /\ nitzTimeReceived' = nitzCount'
    /\ nitz' = [nitz EXCEPT ![v] = nitzCount']
    /\ Start(v, "call", "nitz")
    /\ UNCHANGED <<clientVars, cbVars, readers, noted, ret, s_lastNITZTimeData, delivered>>

(* The time a NITZ call hands over; resendLastNITZTimeData reads the copy now. *)
NitzData(th) == IF op[th] = "resend" THEN s_lastNITZTimeData ELSE nitz[th]

(* A response or indication function.  Without callbacks it only logs (NITZ:
   returns -1); with those of a live process the call arrives; with those of
   a dead one the transport reports it.  NITZ data that is NULL by now is refused. *)
Call(th) ==
    /\ pc[th] = "call"
    /\ LET cb == callbacks[ServiceOf(op[th])]
           isNitz == op[th] \in {"nitz", "resend"}
           called == cb # NULL /\ (isNitz => NitzData(th) # NULL)
           dead == called /\ ~Alive(cb) IN
       /\ IF op[th] = "error" /\ ~dead
          THEN Return(th)
          ELSE /\ Goto(th, IF dead THEN "failed" ELSE "unlock")
               /\ ret' = [ret EXCEPT ![th] = IF isNitz /\ cb = NULL THEN -1 ELSE 0]
               /\ UNCHANGED <<op, nitz>>
       /\ delivered' = IF isNitz /\ called /\ ~dead
                       THEN delivered \cup {[time |-> NitzData(th), received |-> nitzTimeReceived,
                                           client |-> cb]}
                       ELSE delivered
    /\ UNCHANGED <<clientVars, cbVars, lockVars, noted, nitzCount, nitzTimeReceived,
                   s_lastNITZTimeData>>

-----------------------------------------------------------------------------
(* checkReturnStatus after a failed call. *)

(* "note the current counter", then unlock. *)
NoteCounter(th) ==
    /\ pc[th] = "failed"
    /\ noted' = [noted EXCEPT ![th] = counter[ServiceOf(op[th])]]
    /\ Release(th)
    /\ Goto(th, "writeLock")
    /\ UNCHANGED <<clientVars, cbVars, op, ret, nitz, nitzVars>>

(* Under the write lock: reset, unless the counter moved. *)
Unchanged(th) == noted[th] = counter[ServiceOf(op[th])]

(* Mutants: the counter counts registered clients, down again on a reset; the
   write lock not released before the read lock is taken. *)
ResetCallbacksCountsDown(th) ==
    /\ pc[th] = "writeLock" /\ CanWrite
    /\ IF Unchanged(th)
       THEN /\ callbacks' = [callbacks EXCEPT ![ServiceOf(op[th])] = NULL]
            /\ counter' = [counter EXCEPT ![ServiceOf(op[th])] = @ - 1]
       ELSE UNCHANGED <<callbacks, counter>>
    /\ noted' = [noted EXCEPT ![th] = 0]
    /\ Goto(th, "relock")
    /\ UNCHANGED <<clientVars, registered, lockVars, op, ret, nitz, nitzVars>>

ResetCallbacksKeepsLock(th) ==
    /\ pc[th] = "writeLock" /\ CanWrite
    /\ callbacks' = [callbacks EXCEPT ![ServiceOf(op[th])] = IF Unchanged(th) THEN NULL ELSE @]
    /\ counter' = [counter EXCEPT ![ServiceOf(op[th])] = IF Unchanged(th) THEN @ + 1 ELSE @]
    /\ writer' = th
    /\ noted' = [noted EXCEPT ![th] = 0]
    /\ Goto(th, "relock")
    /\ UNCHANGED <<clientVars, registered, readers, holders, op, ret, nitz, nitzVars>>

ResetCallbacks(th) ==
    /\ pc[th] = "writeLock" /\ CanWrite
    /\ IF Unchanged(th)
       THEN /\ callbacks' = [callbacks EXCEPT ![ServiceOf(op[th])] = NULL]
            /\ counter' = [counter EXCEPT ![ServiceOf(op[th])] = @ + 1]
       ELSE UNCHANGED <<callbacks, counter>>
    /\ noted' = [noted EXCEPT ![th] = 0]
    /\ Goto(th, "relock")
    /\ UNCHANGED <<clientVars, registered, lockVars, op, ret, nitz, nitzVars>>

(* "Reacquire rdlock", for the caller to release; sendErrorResponse's caller
   never does. *)
Relock(th) ==
    /\ pc[th] = "relock" /\ CanRead
    /\ Acquire(th)
    /\ IF op[th] = "error" THEN Return(th)
                           ELSE Goto(th, "unlock") /\ UNCHANGED <<op, ret, nitz>>
    /\ UNCHANGED <<clientVars, cbVars, writer, noted, nitzVars>>

-----------------------------------------------------------------------------
(* The end of a call. *)

(* RIL_onUnsolicitedResponse unlocks, and keeps NITZ that found no callback. *)
Unlock(v) ==
    /\ pc[v] = "unlock" /\ op[v] \in ReadOps \cup {"nitz"}
    /\ Release(v)
    /\ IF ret[v] # 0 THEN Goto(v, "keep") /\ UNCHANGED <<op, ret, nitz>>
                     ELSE Return(v)
    /\ UNCHANGED <<clientVars, cbVars, noted, nitzVars>>

(* The copy is freed without any lock, then made anew if there is memory for it. *)
KeepNitz(v) ==
    /\ pc[v] = "keep"
    /\ \/ /\ s_lastNITZTimeData # NULL /\ s_lastNITZTimeData' = NULL
          /\ UNCHANGED <<pc, op, ret, nitz>>
       \/ /\ s_lastNITZTimeData = NULL /\ s_lastNITZTimeData' \in {nitz[v], NULL}
          /\ Return(v)
    /\ UNCHANGED <<clientVars, cbVars, lockVars, noted, nitzCount, nitzTimeReceived, delivered>>

-----------------------------------------------------------------------------
(* The binder thread. *)

(* setResponseFunctions of a process that may be dead by now; the radio service
   goes on to onNewCommandConnect. *)
Register(s) ==
    /\ pc[Binder] = "idle" /\ registered[s] < client /\ CanWrite
    /\ registered' = [registered EXCEPT ![s] = @ + 1]
    /\ callbacks' = [callbacks EXCEPT ![s] = registered'[s]]
    /\ counter' = [counter EXCEPT ![s] = @ + 1]
    /\ IF s = "radio" THEN Start(Binder, "readLock", "rilConnected")
                      ELSE UNCHANGED <<pc, op>>
    /\ UNCHANGED <<clientVars, lockVars, localVars, nitzVars>>

(* onNewCommandConnect: two indications and then the kept NITZ, if any. *)
ConnectUnlock ==
    /\ pc[Binder] = "unlock" /\ op[Binder] \in {"rilConnected", "radioState"}
    /\ Release(Binder)
    /\ IF op[Binder] = "rilConnected"
       THEN Start(Binder, "readLock", "radioState")
       ELSE Start(Binder, "nitzTest", "resend")
    /\ UNCHANGED <<clientVars, cbVars, localVars, nitzVars>>

(* Mutant: resendLastNITZTimeData without the read lock. *)
NitzTestNoLock ==
    /\ pc[Binder] = "nitzTest"
    /\ IF s_lastNITZTimeData # NULL
       THEN Goto(Binder, "call") /\ UNCHANGED <<op, ret, nitz>>
       ELSE Return(Binder)
    /\ UNCHANGED <<clientVars, cbVars, lockVars, noted, nitzVars>>

NitzTest ==
    /\ pc[Binder] = "nitzTest"
    /\ IF s_lastNITZTimeData # NULL
       THEN Goto(Binder, "readLock") /\ UNCHANGED <<op, ret, nitz>>
       ELSE Return(Binder)
    /\ UNCHANGED <<clientVars, cbVars, lockVars, noted, nitzVars>>

(* Mutant: the copy is kept after it was sent. *)
ResendUnlockKeeps ==
    /\ pc[Binder] = "unlock" /\ op[Binder] = "resend"
    /\ Release(Binder)
    /\ Return(Binder)
    /\ UNCHANGED <<clientVars, cbVars, noted, nitzVars>>

(* resendLastNITZTimeData frees the copy when nitzTimeReceivedInd returned 0. *)
ResendUnlock ==
    /\ pc[Binder] = "unlock" /\ op[Binder] = "resend"
    /\ s_lastNITZTimeData' = IF ret[Binder] = 0 THEN NULL ELSE s_lastNITZTimeData
    /\ Release(Binder)
    /\ Return(Binder)
    /\ UNCHANGED <<clientVars, cbVars, noted, nitzCount, nitzTimeReceived, delivered>>

(* sendErrorResponse calls a response function without any lock. *)
ErrorResponse ==
    /\ pc[Binder] = "idle"
    /\ Start(Binder, "call", "error")
    /\ UNCHANGED <<clientVars, cbVars, lockVars, localVars, nitzVars>>

-----------------------------------------------------------------------------
Client == ClientStarts \/ ClientDies

CallSteps(th) == \/ ReadLock(th) \/ Call(th) \/ NoteCounter(th)
                 \/ ResetCallbacks(th) \/ Relock(th)

VendorEnds(v) == Unlock(v) \/ KeepNitz(v)

BinderEnds == ConnectUnlock \/ NitzTest \/ ResendUnlock

VendorStarts == \E v \in Threads : VendorCalls(v) \/ NitzReceived(v)

BinderStarts == (\E s \in Services : Register(s)) \/ ErrorResponse

Next ==
    \/ Client
    \/ VendorStarts
    \/ BinderStarts \/ BinderEnds
    \/ \E th \in Threads : CallSteps(th) \/ VendorEnds(th)

Spec == Init /\ [][Next]_vars

(* Every thread inside libril goes on and the binder thread serves what the
   framework sent.  Nothing makes the vendor or the phone process act. *)
FairSpec ==
    /\ Spec
    /\ \A th \in Threads : WF_vars(CallSteps(th)) /\ WF_vars(VendorEnds(th))
    /\ WF_vars(BinderEnds) /\ \A s \in Services : WF_vars(Register(s))

-----------------------------------------------------------------------------
(* Properties. *)

Ops == ReadOps \cup {"none", "nitz", "error", "rilConnected", "radioState", "resend"}

(* Ranges of the lock, the callbacks and the threads' places. *)
TypeOK ==
    /\ client \in 0 .. MaxClients /\ alive \in BOOLEAN
    /\ registered \in [Services -> Nat]
    /\ callbacks \in [Services -> Nat \cup {NULL}]
    /\ counter \in [Services -> Nat]
    /\ readers \in Nat /\ writer \in Threads \cup {NULL}
    /\ holders \subseteq Threads
    /\ pc \in [Threads -> {"idle", "readLock", "call", "failed", "writeLock", "relock",
                           "unlock", "keep", "nitzTest"}]
    /\ op \in [Threads -> Ops]
    /\ noted \in [Threads -> Nat] /\ ret \in [Threads -> {-1, 0}]
    /\ nitz \in [Threads -> Nat \cup {NULL}]
    /\ nitzCount \in 0 .. MaxNitz /\ nitzTimeReceived \in Nat \cup {NULL}
    /\ s_lastNITZTimeData \in Nat \cup {NULL}
    /\ delivered \subseteq [time : Nat \cup {NULL}, received : Nat \cup {NULL}, client : Nat]

(* checkReturnStatus, "to avoid overwriting updates made by another thread before
   write lock is acquired": a living process that registered stays connected,
   however many failed calls to its predecessors are still being cleaned up. *)
LiveClientConnected ==
    \A s \in Services : alive /\ registered[s] = client => callbacks[s] = client

(* checkReturnStatus: "Caller should already hold rdlock, release that first".
   sendErrorResponse calls a response function without it. *)
CallerHoldsLock == \A th \in Threads : pc[th] = "failed" => th \in holders

(* The threads that use the callbacks under a read lock, and the binder thread
   between the read lock it gave up for an error response and the one it takes. *)
Inside == {"call", "failed", "unlock"}

Reading == {th \in Threads : pc[th] \in Inside /\ op[th] # "error" /\ th # writer}

Borrowed == op[Binder] = "error" /\ pc[Binder] \in {"writeLock", "relock"}

(* Every thread that uses the callbacks under the read lock is counted in it: an
   error response, which releases a lock it never took, may leave the count one
   short while checkReturnStatus works, and never after it has reacquired. *)
LockNeverShort == Cardinality(Reading) <= readers + (IF Borrowed THEN 1 ELSE 0)

(* A NITZ time reaches the framework at most once: the copy is kept only when the
   first attempt found nobody, and dropped when it was sent. *)
NitzDeliveredOnce ==
    \A d, e \in delivered : d.time = e.time => d = e

(* The receive time that goes with a NITZ time is its own or, after a resend, that
   of a later one: a phone process that adds the time since then never sets its
   clock ahead. *)
NitzNeverAhead == \A d \in delivered : d.time <= d.received

(* Unless indications or error responses keep coming for ever, every thread gets
   through the lock and every process that called setResponseFunctions is
   registered.  The one thing that keeps them out for good is a read lock that an
   error response left behind: it is held and nobody reads. *)
Settles ==
    \/ []<><<VendorStarts \/ ErrorResponse>>_vars
    \/ <>[](/\ \A th \in Threads : pc[th] = "idle"
            /\ \A s \in Services : registered[s] = client)
    \/ <>[](readers > 0 /\ Reading = {})

(* RIL_onUnsolicitedResponse: "if the upstream client isn't connected, keep a copy
   of the last NITZ response (with receive time noted above) around so we can
   deliver it when it is connected": once all is quiet the last NITZ time has
   reached a client, or it is kept and no client is connected. *)
Quiet == \A th \in Threads : pc[th] = "idle"

NitzNotLost ==
    Quiet /\ nitzCount > 0 =>
        \/ \E d \in delivered : d.time = nitzCount
        \/ s_lastNITZTimeData = nitzCount /\ ~(alive /\ registered["radio"] = client)

=============================================================================
