------------------------- MODULE RadioServiceProofs -------------------------
(***************************************************************************)
(* Proofs about module RadioService for any number of vendor threads,      *)
(* phone processes and NITZ indications.                                   *)
(*                                                                         *)
(* checkReturnStatus's counter protocol never disconnects a phone process  *)
(* that is alive, even when sendErrorResponse, which holds no lock, takes  *)
(* another thread's read lock away until it has reacquired one.  A NITZ    *)
(* time is delivered at most once and with a receive time that is not      *)
(* before it.                                                              *)
(***************************************************************************)
EXTENDS RadioService, FiniteSetTheorems, TLAPS

(* The writer is delivering NITZ; only the binder thread sends errors, and it
   does nothing else meanwhile. *)
RoleInv == /\ writer # NULL => op[writer] = "nitz" /\ pc[writer] \in Inside
           /\ \A th \in Threads :
                 op[th] = "error" =>
                     th = Binder /\ pc[th] \in {"call", "failed", "writeLock", "relock"}

(* Only processes that started have registered, and only they have callbacks. *)
ClientInv == \A s \in Services :
    /\ registered[s] <= client
    /\ callbacks[s] # NULL => callbacks[s] <= registered[s]

(* The callbacks an operation uses are those of nobody or of a dead process. *)
Gone(th) == ~(alive /\ callbacks[ServiceOf(op[th])] = client)

(* A call that failed found dead callbacks, and they stay until the counter is
   noted: whoever could replace them waits for the lock or is the caller. *)
FailedInv == \A th \in Threads : pc[th] = "failed" => Gone(th)

(* The counter moves whenever the callbacks do: while it is what checkReturnStatus
   noted, the callbacks are still the dead ones. *)
NotedInv == \A th \in Threads : pc[th] = "writeLock" =>
    /\ noted[th] <= counter[ServiceOf(op[th])]
    /\ noted[th] = counter[ServiceOf(op[th])] => Gone(th)

(* The inductive invariant of the callbacks. *)
CParts == ClientInv /\ FailedInv /\ NotedInv /\ LiveClientConnected

IInv == TypeOK /\ RoleInv /\ LockNeverShort /\ CParts

(* Where a thread with a NITZ time can be; only the binder thread resends. *)
PlaceInv == \A th \in Threads :
    /\ pc[th] = "idle" => op[th] = "none"
    /\ pc[th] = "keep" => op[th] = "nitz" /\ ret[th] # 0
    /\ op[th] = "nitz" => pc[th] \notin {"idle", "readLock", "nitzTest"}
    /\ op[th] = "resend" => th = Binder
    /\ ret[th] # 0 => pc[th] \in {"unlock", "keep"} /\ op[th] \in {"nitz", "resend"}

(* The times received: the latest is the receive time. *)
LatestInv == nitzCount > 0 => nitzTimeReceived = nitzCount

(* A time is with one thread or kept, never in two places. *)
HeldInv ==
    /\ \A th \in Threads : IF op[th] = "nitz" THEN nitz[th] \in 1 .. nitzCount ELSE nitz[th] = NULL
    /\ \A th, t2 \in Threads : nitz[th] # NULL /\ nitz[th] = nitz[t2] => th = t2
    /\ s_lastNITZTimeData # NULL => /\ s_lastNITZTimeData \in 1 .. nitzCount
                                    /\ \A th \in Threads : nitz[th] # s_lastNITZTimeData

Sent(t) == \E d \in delivered : d.time = t

(* What a thread is about to deliver, or found nobody to deliver to, was not sent;
   neither was the copy, unless it is about to be freed. *)
UnsentInv ==
    /\ \A th \in Threads : nitz[th] # NULL /\ (pc[th] = "call" \/ ret[th] # 0) => ~Sent(nitz[th])
    /\ \/ s_lastNITZTimeData = NULL
       \/ ~Sent(s_lastNITZTimeData)
       \/ op[Binder] = "resend" /\ pc[Binder] = "unlock" /\ ret[Binder] = 0

DeliveredInv == \A d \in delivered : d.time \in 1 .. nitzCount /\ d.received \in 1 .. nitzCount

(* The inductive invariant of the NITZ times. *)
NParts == /\ PlaceInv /\ LatestInv /\ HeldInv /\ UnsentInv /\ DeliveredInv
          /\ NitzDeliveredOnce /\ NitzNeverAhead

NInv == TypeOK /\ NParts

-----------------------------------------------------------------------------
(* There are finitely many threads. *)
LEMMA FiniteThreads == IsFiniteSet(Threads)
  BY ThreadsFinite, FS_AddElement DEF Threads

(* So the readers can be counted. *)
LEMMA FiniteReading == IsFiniteSet(Reading) /\ Cardinality(Reading) \in Nat
  BY FiniteThreads, FS_Subset, FS_CardinalityType DEF Reading

(* A reader that joins is one more, one that leaves one less. *)
LEMMA ReadersCount ==
    ASSUME NEW th \in Threads
    PROVE  /\ th \notin Reading => Cardinality(Reading \cup {th}) = Cardinality(Reading) + 1
           /\ th \in Reading => /\ Cardinality(Reading \ {th}) = Cardinality(Reading) - 1
                                /\ Cardinality(Reading) >= 1
<1>1. IsFiniteSet(Reading) /\ Cardinality(Reading) \in Nat
  BY FiniteReading
<1>2. Cardinality(Reading \cup {th}) = IF th \in Reading THEN Cardinality(Reading)
                                                         ELSE Cardinality(Reading) + 1
  BY <1>1, FS_AddElement
<1>3. /\ Cardinality(Reading \ {th}) = IF th \in Reading THEN Cardinality(Reading) - 1
                                                         ELSE Cardinality(Reading)
      /\ IsFiniteSet(Reading \ {th})
  BY <1>1, FS_RemoveElement
<1>4. Cardinality(Reading \ {th}) \in Nat
  BY <1>3, FS_CardinalityType
<1> QED
  BY <1>1, <1>2, <1>3, <1>4

(* Every step keeps the ranges. *)
LEMMA TypeStep == ASSUME TypeOK, [Next]_vars PROVE TypeOK'
<1> USE BoundsOK, NullIsOther, BinderIsOther DEF TypeOK, Ops, Threads, Services, ServiceOf,
         ReadOps, Goto, Start, Return, clientVars, cbVars, lockVars, localVars, nitzVars
<1>1. CASE ClientStarts
  BY <1>1 DEF ClientStarts
<1>2. CASE ClientDies
  BY <1>2 DEF ClientDies
<1>3. ASSUME NEW v \in Threads, VendorCalls(v) PROVE TypeOK'
  BY <1>3 DEF VendorCalls
<1>4. ASSUME NEW v \in Threads, NitzReceived(v) PROVE TypeOK'
  BY <1>4 DEF NitzReceived, CanWrite
<1>5. ASSUME NEW v \in Threads, Unlock(v) PROVE TypeOK'
  BY <1>5 DEF Unlock, Release
<1>6. ASSUME NEW v \in Threads, KeepNitz(v) PROVE TypeOK'
  BY <1>6 DEF KeepNitz
<1>7. ASSUME NEW s \in Services, Register(s) PROVE TypeOK'
  BY <1>7 DEF Register, CanWrite
<1>8. CASE ErrorResponse
  BY <1>8 DEF ErrorResponse
<1>9. CASE ConnectUnlock
  BY <1>9 DEF ConnectUnlock, Release
<1>10. CASE NitzTest
  BY <1>10 DEF NitzTest
<1>11. CASE ResendUnlock
  BY <1>11 DEF ResendUnlock, Release
<1>12. ASSUME NEW th \in Threads, ReadLock(th) PROVE TypeOK'
  BY <1>12 DEF ReadLock, CanRead, Acquire
<1>13. ASSUME NEW th \in Threads, Call(th) PROVE TypeOK'
  BY <1>13 DEF Call, Alive, NitzData
<1>14. ASSUME NEW th \in Threads, NoteCounter(th) PROVE TypeOK'
  BY <1>14 DEF NoteCounter, Release
<1>15. ASSUME NEW th \in Threads, ResetCallbacks(th) PROVE TypeOK'
  BY <1>15 DEF ResetCallbacks, CanWrite, Unchanged
<1>16. ASSUME NEW th \in Threads, Relock(th) PROVE TypeOK'
  BY <1>16 DEF Relock, CanRead, Acquire
<1>17. CASE UNCHANGED vars
  BY <1>17 DEF vars
<1> QED
  BY <1>1, <1>2, <1>3, <1>4, <1>5, <1>6, <1>7, <1>8, <1>9, <1>10, <1>11, <1>12, <1>13, <1>14,
       <1>15, <1>16, <1>17 DEF Next, Client, VendorStarts, VendorEnds, BinderStarts, BinderEnds,
       CallSteps

(* Every step keeps the roles. *)
LEMMA RoleStep == ASSUME TypeOK, RoleInv, [Next]_vars PROVE RoleInv'
<1> USE NullIsOther, BinderIsOther DEF TypeOK, RoleInv, Inside, Threads, Services, ReadOps, Goto,
         Start, Return, clientVars, cbVars, lockVars, localVars, nitzVars
<1>1. CASE ClientStarts
  BY <1>1 DEF ClientStarts
<1>2. CASE ClientDies
  BY <1>2 DEF ClientDies
<1>3. ASSUME NEW v \in Threads, VendorCalls(v) PROVE RoleInv'
  BY <1>3 DEF VendorCalls
<1>4. ASSUME NEW v \in Threads, NitzReceived(v) PROVE RoleInv'
  BY <1>4 DEF NitzReceived, CanWrite
<1>5. ASSUME NEW v \in Threads, Unlock(v) PROVE RoleInv'
  BY <1>5 DEF Unlock, Release
<1>6. ASSUME NEW v \in Threads, KeepNitz(v) PROVE RoleInv'
  BY <1>6 DEF KeepNitz
<1>7. ASSUME NEW s \in Services, Register(s) PROVE RoleInv'
  BY <1>7 DEF Register, CanWrite
<1>8. CASE ErrorResponse
  BY <1>8 DEF ErrorResponse
<1>9. CASE ConnectUnlock
  BY <1>9 DEF ConnectUnlock, Release
<1>10. CASE NitzTest
  BY <1>10 DEF NitzTest
<1>11. CASE ResendUnlock
  BY <1>11 DEF ResendUnlock, Release
<1>12. ASSUME NEW th \in Threads, ReadLock(th) PROVE RoleInv'
  BY <1>12 DEF ReadLock, CanRead, Acquire
<1>13. ASSUME NEW th \in Threads, Call(th) PROVE RoleInv'
  BY <1>13 DEF Call, Alive, NitzData
<1>14. ASSUME NEW th \in Threads, NoteCounter(th) PROVE RoleInv'
  BY <1>14 DEF NoteCounter, Release
<1>15. ASSUME NEW th \in Threads, ResetCallbacks(th) PROVE RoleInv'
  BY <1>15 DEF ResetCallbacks, CanWrite, Unchanged
<1>16. ASSUME NEW th \in Threads, Relock(th) PROVE RoleInv'
  BY <1>16 DEF Relock, CanRead, Acquire
<1>17. CASE UNCHANGED vars
  BY <1>17 DEF vars
<1> QED
  BY <1>1, <1>2, <1>3, <1>4, <1>5, <1>6, <1>7, <1>8, <1>9, <1>10, <1>11, <1>12, <1>13, <1>14,
       <1>15, <1>16, <1>17 DEF Next, Client, VendorStarts, VendorEnds, BinderStarts, BinderEnds,
       CallSteps

(* Nobody but th moves. *)
Alone(th) == \A t \in Threads \ {th} : pc'[t] = pc[t] /\ op'[t] = op[t]

(* A call that returns gives its read lock back: the reader is gone, or it was
   the writer, or the count was already short of it. *)
LEMMA LeaveCount ==
    ASSUME TypeOK, TypeOK', RoleInv, LockNeverShort, NEW th \in Threads, Release(th), Alone(th),
           op[th] # "error", pc[th] \in Inside, pc'[th] \notin Inside, op'[th] # "error"
    PROVE  LockNeverShort'
<1>a. readers \in Nat /\ readers' \in Nat
  BY DEF TypeOK
<1>b. ~Borrowed' \/ Borrowed
  BY BinderIsOther DEF TypeOK, Borrowed, Alone, Threads
<1>c. Borrowed => Borrowed'
  BY BinderIsOther DEF TypeOK, Borrowed, Alone, Threads, Inside
<1>1. CASE writer = th
  <2>1. writer' = NULL /\ readers' = readers
    BY <1>1, NullIsOther DEF Release
  <2>2. Reading' = Reading
    BY <1>1, <2>1, NullIsOther DEF Reading, Alone, TypeOK
  <2> QED
    BY <2>1, <2>2, <1>c, FiniteReading, <1>a DEF LockNeverShort
<1>2. CASE writer # th
  <2>1. writer' = writer /\ readers' >= readers - 1
    BY <1>2, <1>a DEF Release
  <2>2. Reading' = Reading \ {th} /\ th \in Reading
    BY <1>2, <2>1 DEF Reading, Alone, TypeOK
  <2>3. Cardinality(Reading') = Cardinality(Reading) - 1
    BY <2>2, ReadersCount
  <2> QED
    BY <2>1, <2>3, <1>c, <1>a, FiniteReading DEF LockNeverShort
<1> QED
  BY <1>1, <1>2

(* A reader that comes in is counted. *)
LEMMA JoinCount ==
    ASSUME TypeOK, LockNeverShort, NEW th \in Threads, writer = NULL, writer' = NULL,
           readers' = readers + 1, Alone(th), op[th] # "error", op'[th] # "error",
           pc[th] \notin Inside, pc'[th] \in Inside
    PROVE  LockNeverShort'
<1>a. readers \in Nat
  BY DEF TypeOK
<1>1. Reading' = Reading \cup {th} /\ th \notin Reading
  BY NullIsOther DEF Reading, Alone, TypeOK
<1>2. Cardinality(Reading') = Cardinality(Reading) + 1
  BY <1>1, ReadersCount
<1>3. Borrowed => Borrowed'
  BY DEF Borrowed, Alone, TypeOK, Threads
<1> QED
  BY <1>a, <1>2, <1>3, FiniteReading DEF LockNeverShort

(* A step that leaves the same readers inside and the lock alone. *)
LEMMA SameCount ==
    ASSUME TypeOK, LockNeverShort, Reading' = Reading, readers' = readers, Borrowed => Borrowed'
    PROVE  LockNeverShort'
  BY FiniteReading DEF LockNeverShort, TypeOK

(* Whoever has the write lock while no error response is between its two locks
   is alone with it. *)
LEMMA NobodyReads == ASSUME TypeOK, LockNeverShort, readers = 0, ~Borrowed PROVE Reading = {}
<1>1. Cardinality(Reading) = 0
  BY FiniteReading DEF LockNeverShort
<1> QED
  BY <1>1, FiniteReading, FS_EmptySet

(* Every step keeps the count. *)
LEMMA CountStep == ASSUME TypeOK, TypeOK', RoleInv, LockNeverShort, [Next]_vars PROVE LockNeverShort'
<1> USE NullIsOther, BinderIsOther DEF TypeOK, RoleInv, Inside, Threads, Goto, Start, Return,
         clientVars, cbVars, lockVars, localVars, nitzVars
<1>1. CASE ClientStarts
  <2>1. Reading' = Reading /\ readers' = readers
    BY <1>1 DEF ClientStarts, Reading
  <2>2. Borrowed => Borrowed'
    BY <1>1 DEF ClientStarts, Borrowed
  <2> QED
    BY <2>1, <2>2, SameCount
<1>2. CASE ClientDies
  <2>1. Reading' = Reading /\ readers' = readers
    BY <1>2 DEF ClientDies, Reading
  <2>2. Borrowed => Borrowed'
    BY <1>2 DEF ClientDies, Borrowed
  <2> QED
    BY <2>1, <2>2, SameCount
<1>3. ASSUME NEW v \in Threads, VendorCalls(v) PROVE LockNeverShort'
  <2>1. Reading' = Reading /\ readers' = readers
    BY <1>3 DEF VendorCalls, Reading, ReadOps
  <2>2. Borrowed => Borrowed'
    BY <1>3 DEF VendorCalls, Borrowed, ReadOps
  <2> QED
    BY <2>1, <2>2, SameCount
<1>4. ASSUME NEW v \in Threads, NitzReceived(v) PROVE LockNeverShort'
  <2>1. Reading' = Reading /\ readers' = readers
    BY <1>4 DEF NitzReceived, Reading, CanWrite
  <2>2. Borrowed => Borrowed'
    BY <1>4 DEF NitzReceived, Borrowed
  <2> QED
    BY <2>1, <2>2, SameCount
<1>5. ASSUME NEW v \in Threads, Unlock(v) PROVE LockNeverShort'
  <2>1. /\ Release(v) /\ Alone(v) /\ op[v] # "error" /\ pc[v] \in Inside
        /\ pc'[v] \notin Inside /\ op'[v] # "error"
    BY <1>5 DEF Unlock, Alone, ReadOps
  <2> QED
    BY <2>1, LeaveCount
<1>6. ASSUME NEW v \in Threads, KeepNitz(v) PROVE LockNeverShort'
  <2>1. Reading' = Reading /\ readers' = readers
    BY <1>6 DEF KeepNitz, Reading
  <2>2. Borrowed => Borrowed'
    BY <1>6 DEF KeepNitz, Borrowed
  <2> QED
    BY <2>1, <2>2, SameCount
<1>7. ASSUME NEW s \in Services, Register(s) PROVE LockNeverShort'
  <2>1. Reading' = Reading /\ readers' = readers
    BY <1>7 DEF Register, Reading, CanWrite, Services
  <2>2. Borrowed => Borrowed'
    BY <1>7 DEF Register, Borrowed
  <2> QED
    BY <2>1, <2>2, SameCount
<1>8. CASE ErrorResponse
  <2>1. Reading' = Reading /\ readers' = readers
    BY <1>8 DEF ErrorResponse, Reading
  <2>2. Borrowed => Borrowed'
    BY <1>8 DEF ErrorResponse, Borrowed
  <2> QED
    BY <2>1, <2>2, SameCount
<1>9. CASE ConnectUnlock
  <2>1. /\ Release(Binder) /\ Alone(Binder) /\ op[Binder] # "error" /\ pc[Binder] \in Inside
        /\ pc'[Binder] \notin Inside /\ op'[Binder] # "error"
    BY <1>9 DEF ConnectUnlock, Alone, ReadOps
  <2> QED
    BY <2>1, LeaveCount
<1>10. CASE NitzTest
  <2>1. Reading' = Reading /\ readers' = readers
    BY <1>10 DEF NitzTest, Reading
  <2>2. Borrowed => Borrowed'
    BY <1>10 DEF NitzTest, Borrowed
  <2> QED
    BY <2>1, <2>2, SameCount
<1>11. CASE ResendUnlock
  <2>1. /\ Release(Binder) /\ Alone(Binder) /\ op[Binder] # "error" /\ pc[Binder] \in Inside
        /\ pc'[Binder] \notin Inside /\ op'[Binder] # "error"
    BY <1>11 DEF ResendUnlock, Alone, ReadOps
  <2> QED
    BY <2>1, LeaveCount
<1>12. ASSUME NEW th \in Threads, ReadLock(th) PROVE LockNeverShort'
  <2>1. /\ writer = NULL /\ writer' = NULL /\ readers' = readers + 1 /\ Alone(th)
        /\ op[th] # "error" /\ op'[th] # "error" /\ pc[th] \notin Inside /\ pc'[th] \in Inside
    BY <1>12 DEF ReadLock, Alone, CanRead, Acquire
  <2> QED
    BY <2>1, JoinCount
<1>13. ASSUME NEW th \in Threads, Call(th) PROVE LockNeverShort'
  <2>1. Reading' = Reading /\ readers' = readers
    BY <1>13 DEF Call, Reading, Alive, NitzData
  <2>2. Borrowed => Borrowed'
    BY <1>13 DEF Call, Borrowed
  <2> QED
    BY <2>1, <2>2, SameCount
<1>14. ASSUME NEW th \in Threads, NoteCounter(th) PROVE LockNeverShort'
  <2>1. CASE op[th] = "error"
    <3>1. /\ th = Binder /\ writer # Binder /\ writer' = writer /\ ~Borrowed /\ Borrowed'
          /\ readers' >= readers - 1 /\ readers' \in Nat /\ readers \in Nat
      BY <1>14, <2>1 DEF NoteCounter, Release, Borrowed
    <3>2. Reading' = Reading
      BY <1>14, <2>1, <3>1 DEF NoteCounter, Reading
    <3> QED
      BY <3>1, <3>2, FiniteReading DEF LockNeverShort
  <2>2. CASE op[th] # "error"
    <3>1. /\ Release(th) /\ Alone(th) /\ pc[th] \in Inside
          /\ pc'[th] \notin Inside /\ op'[th] # "error"
      BY <1>14, <2>2 DEF NoteCounter, Alone
    <3> QED
      BY <2>2, <3>1, LeaveCount
  <2> QED
    BY <2>1, <2>2
<1>15. ASSUME NEW th \in Threads, ResetCallbacks(th) PROVE LockNeverShort'
  <2>1. Reading' = Reading /\ readers' = readers
    BY <1>15 DEF ResetCallbacks, Reading, CanWrite
  <2>2. Borrowed => Borrowed'
    BY <1>15 DEF ResetCallbacks, Borrowed
  <2> QED
    BY <2>1, <2>2, SameCount
<1>16. ASSUME NEW th \in Threads, Relock(th) PROVE LockNeverShort'
  <2>1. CASE op[th] = "error"
    <3>1. /\ th = Binder /\ writer = NULL /\ writer' = NULL /\ ~Borrowed'
          /\ readers' = readers + 1 /\ readers \in Nat
      BY <1>16, <2>1 DEF Relock, CanRead, Acquire, Borrowed
    <3>2. Reading' = Reading
      BY <1>16, <2>1, <3>1 DEF Relock, Reading
    <3> QED
      BY <3>1, <3>2, FiniteReading DEF LockNeverShort
  <2>2. CASE op[th] # "error"
    <3>1. /\ writer = NULL /\ writer' = NULL /\ readers' = readers + 1 /\ Alone(th)
          /\ op'[th] # "error" /\ pc[th] \notin Inside /\ pc'[th] \in Inside
      BY <1>16, <2>2 DEF Relock, Alone, CanRead, Acquire
    <3> QED
      BY <2>2, <3>1, JoinCount
  <2> QED
    BY <2>1, <2>2
<1>17. CASE UNCHANGED vars
  BY <1>17 DEF vars, LockNeverShort, Reading, Borrowed
<1> QED
  BY <1>1, <1>2, <1>3, <1>4, <1>5, <1>6, <1>7, <1>8, <1>9, <1>10, <1>11, <1>12, <1>13, <1>14,
       <1>15, <1>16, <1>17 DEF Next, Client, VendorStarts, VendorEnds, BinderStarts, BinderEnds,
       CallSteps

(* Every step keeps what the counter protocol relies on. *)
LEMMA ClientStep == 
    ASSUME TypeOK, RoleInv, LockNeverShort, CParts, [Next]_vars
    PROVE  CParts'
<1> USE NullIsOther, BinderIsOther DEF CParts, TypeOK, RoleInv, Threads, Services, ServiceOf,
         ReadOps, Inside, Gone, Alive, Goto, Start, Return, clientVars, cbVars, lockVars,
         localVars, nitzVars
<1>1. CASE ClientStarts
  <2>1. ClientInv'
    BY <1>1 DEF ClientStarts, ClientInv
  <2>2. FailedInv'
    BY <1>1 DEF ClientStarts, FailedInv, ClientInv
  <2>3. NotedInv'
    BY <1>1 DEF ClientStarts, NotedInv, FailedInv, ClientInv
  <2>4. LiveClientConnected'
    BY <1>1 DEF ClientStarts, LiveClientConnected, ClientInv, NotedInv
  <2> QED
    BY <2>1, <2>2, <2>3, <2>4
<1>2. CASE ClientDies
  <2>1. ClientInv'
    BY <1>2 DEF ClientDies, ClientInv
  <2>2. FailedInv'
    BY <1>2 DEF ClientDies, FailedInv, ClientInv
  <2>3. NotedInv'
    BY <1>2 DEF ClientDies, NotedInv, FailedInv, ClientInv
  <2>4. LiveClientConnected'
    BY <1>2 DEF ClientDies, LiveClientConnected, ClientInv, NotedInv
  <2> QED
    BY <2>1, <2>2, <2>3, <2>4
<1>3. ASSUME NEW v \in Threads, VendorCalls(v) PROVE CParts'
  <2>1. ClientInv'
    BY <1>3 DEF VendorCalls, ClientInv
  <2>2. FailedInv'
    BY <1>3 DEF VendorCalls, FailedInv, ClientInv
  <2>3. NotedInv'
    BY <1>3 DEF VendorCalls, NotedInv, FailedInv, ClientInv
  <2>4. LiveClientConnected'
    BY <1>3 DEF VendorCalls, LiveClientConnected, ClientInv, NotedInv
  <2> QED
    BY <2>1, <2>2, <2>3, <2>4
<1>4. ASSUME NEW v \in Threads, NitzReceived(v) PROVE CParts'
  <2>1. ClientInv'
    BY <1>4 DEF NitzReceived, CanWrite, ClientInv
  <2>2. FailedInv'
    BY <1>4 DEF NitzReceived, CanWrite, FailedInv, ClientInv
  <2>3. NotedInv'
    BY <1>4 DEF NitzReceived, CanWrite, NotedInv, FailedInv, ClientInv
  <2>4. LiveClientConnected'
    BY <1>4 DEF NitzReceived, CanWrite, LiveClientConnected, ClientInv, NotedInv
  <2> QED
    BY <2>1, <2>2, <2>3, <2>4
<1>5. ASSUME NEW v \in Threads, Unlock(v) PROVE CParts'
  <2>1. ClientInv'
    BY <1>5 DEF Unlock, ClientInv
  <2>2. FailedInv'
    BY <1>5 DEF Unlock, FailedInv, ClientInv
  <2>3. NotedInv'
    BY <1>5 DEF Unlock, NotedInv, FailedInv, ClientInv
  <2>4. LiveClientConnected'
    BY <1>5 DEF Unlock, LiveClientConnected, ClientInv, NotedInv
  <2> QED
    BY <2>1, <2>2, <2>3, <2>4
<1>6. ASSUME NEW v \in Threads, KeepNitz(v) PROVE CParts'
  <2>1. ClientInv'
    BY <1>6 DEF KeepNitz, ClientInv
  <2>2. FailedInv'
    BY <1>6 DEF KeepNitz, FailedInv, ClientInv
  <2>3. NotedInv'
    BY <1>6 DEF KeepNitz, NotedInv, FailedInv, ClientInv
  <2>4. LiveClientConnected'
    BY <1>6 DEF KeepNitz, LiveClientConnected, ClientInv, NotedInv
  <2> QED
    BY <2>1, <2>2, <2>3, <2>4
<1>7. ASSUME NEW s \in Services, Register(s) PROVE CParts'
  <2>1. ~Borrowed
    BY <1>7 DEF Register, Borrowed
  <2>2. Reading = {}
    BY <1>7, <2>1, NobodyReads DEF Register, CanWrite
  <2>3. \A th \in Threads : pc[th] # "failed"
    BY <1>7, <2>2 DEF Register, CanWrite, Reading
  <2>4. \A th \in Threads : pc'[th] # "failed"
    BY <1>7, <2>3 DEF Register
  <2>5. ClientInv'
    BY <1>7, <2>3, <2>4 DEF Register, CanWrite, ClientInv
  <2>6. FailedInv'
    BY <1>7, <2>3, <2>4 DEF Register, CanWrite, FailedInv, ClientInv
  <2>7. NotedInv'
    BY <1>7, <2>3, <2>4 DEF Register, CanWrite, NotedInv, FailedInv, ClientInv
  <2>8. LiveClientConnected'
    BY <1>7, <2>3, <2>4 DEF Register, CanWrite, LiveClientConnected, ClientInv, NotedInv
  <2> QED
    BY <2>5, <2>6, <2>7, <2>8
<1>8. CASE ErrorResponse
  <2>1. ClientInv'
    BY <1>8 DEF ErrorResponse, ClientInv
  <2>2. FailedInv'
    BY <1>8 DEF ErrorResponse, FailedInv, ClientInv
  <2>3. NotedInv'
    BY <1>8 DEF ErrorResponse, NotedInv, FailedInv, ClientInv
  <2>4. LiveClientConnected'
    BY <1>8 DEF ErrorResponse, LiveClientConnected, ClientInv, NotedInv
  <2> QED
    BY <2>1, <2>2, <2>3, <2>4
<1>9. CASE ConnectUnlock
  <2>1. ClientInv'
    BY <1>9 DEF ConnectUnlock, ClientInv
  <2>2. FailedInv'
    BY <1>9 DEF ConnectUnlock, FailedInv, ClientInv
  <2>3. NotedInv'
    BY <1>9 DEF ConnectUnlock, NotedInv, FailedInv, ClientInv
  <2>4. LiveClientConnected'
    BY <1>9 DEF ConnectUnlock, LiveClientConnected, ClientInv, NotedInv
  <2> QED
    BY <2>1, <2>2, <2>3, <2>4
<1>10. CASE NitzTest
  <2>1. ClientInv'
    BY <1>10 DEF NitzTest, ClientInv
  <2>2. FailedInv'
    BY <1>10 DEF NitzTest, FailedInv, ClientInv
  <2>3. NotedInv'
    BY <1>10 DEF NitzTest, NotedInv, FailedInv, ClientInv
  <2>4. LiveClientConnected'
    BY <1>10 DEF NitzTest, LiveClientConnected, ClientInv, NotedInv
  <2> QED
    BY <2>1, <2>2, <2>3, <2>4
<1>11. CASE ResendUnlock
  <2>1. ClientInv'
    BY <1>11 DEF ResendUnlock, ClientInv
  <2>2. FailedInv'
    BY <1>11 DEF ResendUnlock, FailedInv, ClientInv
  <2>3. NotedInv'
    BY <1>11 DEF ResendUnlock, NotedInv, FailedInv, ClientInv
  <2>4. LiveClientConnected'
    BY <1>11 DEF ResendUnlock, LiveClientConnected, ClientInv, NotedInv
  <2> QED
    BY <2>1, <2>2, <2>3, <2>4
<1>12. ASSUME NEW th \in Threads, ReadLock(th) PROVE CParts'
  <2>1. ClientInv'
    BY <1>12 DEF ReadLock, CanRead, ClientInv
  <2>2. FailedInv'
    BY <1>12 DEF ReadLock, CanRead, FailedInv, ClientInv
  <2>3. NotedInv'
    BY <1>12 DEF ReadLock, CanRead, NotedInv, FailedInv, ClientInv
  <2>4. LiveClientConnected'
    BY <1>12 DEF ReadLock, CanRead, LiveClientConnected, ClientInv, NotedInv
  <2> QED
    BY <2>1, <2>2, <2>3, <2>4
<1>13. ASSUME NEW th \in Threads, Call(th) PROVE CParts'
  <2>1. ClientInv'
    BY <1>13 DEF Call, Alive, ClientInv
  <2>2. FailedInv'
    BY <1>13 DEF Call, Alive, FailedInv, ClientInv
  <2>3. NotedInv'
    BY <1>13 DEF Call, Alive, NotedInv, FailedInv, ClientInv
  <2>4. LiveClientConnected'
    BY <1>13 DEF Call, Alive, LiveClientConnected, ClientInv, NotedInv
  <2> QED
    BY <2>1, <2>2, <2>3, <2>4
<1>14. ASSUME NEW th \in Threads, NoteCounter(th) PROVE CParts'
  <2>1. ClientInv'
    BY <1>14 DEF NoteCounter, ClientInv
  <2>2. FailedInv'
    BY <1>14 DEF NoteCounter, FailedInv, ClientInv
  <2>3. NotedInv'
    BY <1>14 DEF NoteCounter, NotedInv, FailedInv, ClientInv
  <2>4. LiveClientConnected'
    BY <1>14 DEF NoteCounter, LiveClientConnected, ClientInv, NotedInv
  <2> QED
    BY <2>1, <2>2, <2>3, <2>4
<1>15. ASSUME NEW th \in Threads, ResetCallbacks(th) PROVE CParts'
  <2>1. ClientInv'
    BY <1>15 DEF ResetCallbacks, CanWrite, Unchanged, ClientInv
  <2>2. FailedInv'
    BY <1>15 DEF ResetCallbacks, CanWrite, Unchanged, FailedInv, ClientInv
  <2>3. NotedInv'
    BY <1>15 DEF ResetCallbacks, CanWrite, Unchanged, NotedInv, FailedInv, ClientInv
  <2>4. LiveClientConnected'
    BY <1>15 DEF ResetCallbacks, CanWrite, Unchanged, LiveClientConnected, ClientInv, NotedInv
  <2> QED
    BY <2>1, <2>2, <2>3, <2>4
<1>16. ASSUME NEW th \in Threads, Relock(th) PROVE CParts'
  <2>1. ClientInv'
    BY <1>16 DEF Relock, CanRead, ClientInv
  <2>2. FailedInv'
    BY <1>16 DEF Relock, CanRead, FailedInv, ClientInv
  <2>3. NotedInv'
    BY <1>16 DEF Relock, CanRead, NotedInv, FailedInv, ClientInv
  <2>4. LiveClientConnected'
    BY <1>16 DEF Relock, CanRead, LiveClientConnected, ClientInv, NotedInv
  <2> QED
    BY <2>1, <2>2, <2>3, <2>4
<1>17. CASE UNCHANGED vars
  BY <1>17 DEF vars, ClientInv, FailedInv, NotedInv, LiveClientConnected
<1> QED
  BY <1>1, <1>2, <1>3, <1>4, <1>5, <1>6, <1>7, <1>8, <1>9, <1>10, <1>11, <1>12, <1>13, <1>14,
       <1>15, <1>16, <1>17 DEF Next, Client, VendorStarts, VendorEnds, BinderStarts, BinderEnds,
       CallSteps

(* Every step keeps what is known of the NITZ times. *)
LEMMA NitzStep == 
    ASSUME NInv, TypeOK', [Next]_vars
    PROVE  NParts'
<1> USE NullIsOther, BinderIsOther DEF NInv, NParts, TypeOK, Threads, Services, ServiceOf,
         ReadOps, Goto, Start, Return, clientVars, cbVars, lockVars, localVars, nitzVars
<1>1. CASE ClientStarts
  <2>1. PlaceInv'
    BY <1>1 DEF ClientStarts, PlaceInv
  <2>2. LatestInv'
    BY <1>1 DEF ClientStarts, LatestInv
  <2>3. HeldInv'
    BY <1>1 DEF ClientStarts, HeldInv, PlaceInv
  <2>4. UnsentInv'
    BY <1>1 DEF ClientStarts, UnsentInv, PlaceInv, HeldInv, DeliveredInv, Sent
  <2>5. DeliveredInv'
    BY <1>1 DEF ClientStarts, DeliveredInv, LatestInv, HeldInv
  <2>6. NitzDeliveredOnce'
    BY <1>1 DEF ClientStarts, NitzDeliveredOnce, UnsentInv, HeldInv, Sent
  <2>7. NitzNeverAhead'
    BY <1>1 DEF ClientStarts, NitzNeverAhead, LatestInv, HeldInv, DeliveredInv
  <2> QED
    BY <2>1, <2>2, <2>3, <2>4, <2>5, <2>6, <2>7
<1>2. CASE ClientDies
  <2>1. PlaceInv'
    BY <1>2 DEF ClientDies, PlaceInv
  <2>2. LatestInv'
    BY <1>2 DEF ClientDies, LatestInv
  <2>3. HeldInv'
    BY <1>2 DEF ClientDies, HeldInv, PlaceInv
  <2>4. UnsentInv'
    BY <1>2 DEF ClientDies, UnsentInv, PlaceInv, HeldInv, DeliveredInv, Sent
  <2>5. DeliveredInv'
    BY <1>2 DEF ClientDies, DeliveredInv, LatestInv, HeldInv
  <2>6. NitzDeliveredOnce'
    BY <1>2 DEF ClientDies, NitzDeliveredOnce, UnsentInv, HeldInv, Sent
  <2>7. NitzNeverAhead'
    BY <1>2 DEF ClientDies, NitzNeverAhead, LatestInv, HeldInv, DeliveredInv
  <2> QED
    BY <2>1, <2>2, <2>3, <2>4, <2>5, <2>6, <2>7
<1>3. ASSUME NEW v \in Threads, VendorCalls(v) PROVE NParts'
  <2>1. PlaceInv'
    BY <1>3 DEF VendorCalls, PlaceInv
  <2>2. LatestInv'
    BY <1>3 DEF VendorCalls, LatestInv
  <2>3. HeldInv'
    BY <1>3 DEF VendorCalls, HeldInv, PlaceInv
  <2>4. UnsentInv'
    BY <1>3 DEF VendorCalls, UnsentInv, PlaceInv, HeldInv, DeliveredInv, Sent
  <2>5. DeliveredInv'
    BY <1>3 DEF VendorCalls, DeliveredInv, LatestInv, HeldInv
  <2>6. NitzDeliveredOnce'
    BY <1>3 DEF VendorCalls, NitzDeliveredOnce, UnsentInv, HeldInv, Sent
  <2>7. NitzNeverAhead'
    BY <1>3 DEF VendorCalls, NitzNeverAhead, LatestInv, HeldInv, DeliveredInv
  <2> QED
    BY <2>1, <2>2, <2>3, <2>4, <2>5, <2>6, <2>7
<1>4. ASSUME NEW v \in Threads, NitzReceived(v) PROVE NParts'
  <2>1. PlaceInv'
    BY <1>4 DEF NitzReceived, PlaceInv
  <2>2. LatestInv'
    BY <1>4 DEF NitzReceived, LatestInv
  <2>3. HeldInv'
    BY <1>4 DEF NitzReceived, HeldInv, PlaceInv
  <2>4. UnsentInv'
    BY <1>4 DEF NitzReceived, UnsentInv, PlaceInv, HeldInv, DeliveredInv, Sent
  <2>5. DeliveredInv'
    BY <1>4 DEF NitzReceived, DeliveredInv, LatestInv, HeldInv
  <2>6. NitzDeliveredOnce'
    BY <1>4 DEF NitzReceived, NitzDeliveredOnce, UnsentInv, HeldInv, Sent
  <2>7. NitzNeverAhead'
    BY <1>4 DEF NitzReceived, NitzNeverAhead, LatestInv, HeldInv, DeliveredInv
  <2> QED
    BY <2>1, <2>2, <2>3, <2>4, <2>5, <2>6, <2>7
<1>5. ASSUME NEW v \in Threads, Unlock(v) PROVE NParts'
  <2>1. PlaceInv'
    BY <1>5 DEF Unlock, PlaceInv
  <2>2. LatestInv'
    BY <1>5 DEF Unlock, LatestInv
  <2>3. HeldInv'
    BY <1>5 DEF Unlock, HeldInv, PlaceInv
  <2>4. UnsentInv'
    BY <1>5 DEF Unlock, UnsentInv, PlaceInv, HeldInv, DeliveredInv, Sent
  <2>5. DeliveredInv'
    BY <1>5 DEF Unlock, DeliveredInv, LatestInv, HeldInv
  <2>6. NitzDeliveredOnce'
    BY <1>5 DEF Unlock, NitzDeliveredOnce, UnsentInv, HeldInv, Sent
  <2>7. NitzNeverAhead'
    BY <1>5 DEF Unlock, NitzNeverAhead, LatestInv, HeldInv, DeliveredInv
  <2> QED
    BY <2>1, <2>2, <2>3, <2>4, <2>5, <2>6, <2>7
<1>6. ASSUME NEW v \in Threads, KeepNitz(v) PROVE NParts'
  <2>1. PlaceInv'
    BY <1>6 DEF KeepNitz, PlaceInv
  <2>2. LatestInv'
    BY <1>6 DEF KeepNitz, LatestInv
  <2>3. HeldInv'
    BY <1>6 DEF KeepNitz, HeldInv, PlaceInv
  <2>4. UnsentInv'
    BY <1>6 DEF KeepNitz, UnsentInv, PlaceInv, HeldInv, DeliveredInv, Sent
  <2>5. DeliveredInv'
    BY <1>6 DEF KeepNitz, DeliveredInv, LatestInv, HeldInv
  <2>6. NitzDeliveredOnce'
    BY <1>6 DEF KeepNitz, NitzDeliveredOnce, UnsentInv, HeldInv, Sent
  <2>7. NitzNeverAhead'
    BY <1>6 DEF KeepNitz, NitzNeverAhead, LatestInv, HeldInv, DeliveredInv
  <2> QED
    BY <2>1, <2>2, <2>3, <2>4, <2>5, <2>6, <2>7
<1>7. ASSUME NEW s \in Services, Register(s) PROVE NParts'
  <2>1. PlaceInv'
    BY <1>7 DEF Register, PlaceInv
  <2>2. LatestInv'
    BY <1>7 DEF Register, LatestInv
  <2>3. HeldInv'
    BY <1>7 DEF Register, HeldInv, PlaceInv
  <2>4. UnsentInv'
    BY <1>7 DEF Register, UnsentInv, PlaceInv, HeldInv, DeliveredInv, Sent
  <2>5. DeliveredInv'
    BY <1>7 DEF Register, DeliveredInv, LatestInv, HeldInv
  <2>6. NitzDeliveredOnce'
    BY <1>7 DEF Register, NitzDeliveredOnce, UnsentInv, HeldInv, Sent
  <2>7. NitzNeverAhead'
    BY <1>7 DEF Register, NitzNeverAhead, LatestInv, HeldInv, DeliveredInv
  <2> QED
    BY <2>1, <2>2, <2>3, <2>4, <2>5, <2>6, <2>7
<1>8. CASE ErrorResponse
  <2>1. PlaceInv'
    BY <1>8 DEF ErrorResponse, PlaceInv
  <2>2. LatestInv'
    BY <1>8 DEF ErrorResponse, LatestInv
  <2>3. HeldInv'
    BY <1>8 DEF ErrorResponse, HeldInv, PlaceInv
  <2>4. UnsentInv'
    BY <1>8 DEF ErrorResponse, UnsentInv, PlaceInv, HeldInv, DeliveredInv, Sent
  <2>5. DeliveredInv'
    BY <1>8 DEF ErrorResponse, DeliveredInv, LatestInv, HeldInv
  <2>6. NitzDeliveredOnce'
    BY <1>8 DEF ErrorResponse, NitzDeliveredOnce, UnsentInv, HeldInv, Sent
  <2>7. NitzNeverAhead'
    BY <1>8 DEF ErrorResponse, NitzNeverAhead, LatestInv, HeldInv, DeliveredInv
  <2> QED
    BY <2>1, <2>2, <2>3, <2>4, <2>5, <2>6, <2>7
<1>9. CASE ConnectUnlock
  <2>1. PlaceInv'
    BY <1>9 DEF ConnectUnlock, PlaceInv
  <2>2. LatestInv'
    BY <1>9 DEF ConnectUnlock, LatestInv
  <2>3. HeldInv'
    BY <1>9 DEF ConnectUnlock, HeldInv, PlaceInv
  <2>4. UnsentInv'
    BY <1>9 DEF ConnectUnlock, UnsentInv, PlaceInv, HeldInv, DeliveredInv, Sent
  <2>5. DeliveredInv'
    BY <1>9 DEF ConnectUnlock, DeliveredInv, LatestInv, HeldInv
  <2>6. NitzDeliveredOnce'
    BY <1>9 DEF ConnectUnlock, NitzDeliveredOnce, UnsentInv, HeldInv, Sent
  <2>7. NitzNeverAhead'
    BY <1>9 DEF ConnectUnlock, NitzNeverAhead, LatestInv, HeldInv, DeliveredInv
  <2> QED
    BY <2>1, <2>2, <2>3, <2>4, <2>5, <2>6, <2>7
<1>10. CASE NitzTest
  <2>1. PlaceInv'
    BY <1>10 DEF NitzTest, PlaceInv
  <2>2. LatestInv'
    BY <1>10 DEF NitzTest, LatestInv
  <2>3. HeldInv'
    BY <1>10 DEF NitzTest, HeldInv, PlaceInv
  <2>4. UnsentInv'
    BY <1>10 DEF NitzTest, UnsentInv, PlaceInv, HeldInv, DeliveredInv, Sent
  <2>5. DeliveredInv'
    BY <1>10 DEF NitzTest, DeliveredInv, LatestInv, HeldInv
  <2>6. NitzDeliveredOnce'
    BY <1>10 DEF NitzTest, NitzDeliveredOnce, UnsentInv, HeldInv, Sent
  <2>7. NitzNeverAhead'
    BY <1>10 DEF NitzTest, NitzNeverAhead, LatestInv, HeldInv, DeliveredInv
  <2> QED
    BY <2>1, <2>2, <2>3, <2>4, <2>5, <2>6, <2>7
<1>11. CASE ResendUnlock
  <2>1. PlaceInv'
    BY <1>11 DEF ResendUnlock, PlaceInv
  <2>2. LatestInv'
    BY <1>11 DEF ResendUnlock, LatestInv
  <2>3. HeldInv'
    BY <1>11 DEF ResendUnlock, HeldInv, PlaceInv
  <2>4. UnsentInv'
    BY <1>11 DEF ResendUnlock, UnsentInv, PlaceInv, HeldInv, DeliveredInv, Sent
  <2>5. DeliveredInv'
    BY <1>11 DEF ResendUnlock, DeliveredInv, LatestInv, HeldInv
  <2>6. NitzDeliveredOnce'
    BY <1>11 DEF ResendUnlock, NitzDeliveredOnce, UnsentInv, HeldInv, Sent
  <2>7. NitzNeverAhead'
    BY <1>11 DEF ResendUnlock, NitzNeverAhead, LatestInv, HeldInv, DeliveredInv
  <2> QED
    BY <2>1, <2>2, <2>3, <2>4, <2>5, <2>6, <2>7
<1>12. ASSUME NEW th \in Threads, ReadLock(th) PROVE NParts'
  <2>1. PlaceInv'
    BY <1>12 DEF ReadLock, PlaceInv
  <2>2. LatestInv'
    BY <1>12 DEF ReadLock, LatestInv
  <2>3. HeldInv'
    BY <1>12 DEF ReadLock, HeldInv, PlaceInv
  <2>4. UnsentInv'
    BY <1>12 DEF ReadLock, UnsentInv, PlaceInv, HeldInv, DeliveredInv, Sent
  <2>5. DeliveredInv'
    BY <1>12 DEF ReadLock, DeliveredInv, LatestInv, HeldInv
  <2>6. NitzDeliveredOnce'
    BY <1>12 DEF ReadLock, NitzDeliveredOnce, UnsentInv, HeldInv, Sent
  <2>7. NitzNeverAhead'
    BY <1>12 DEF ReadLock, NitzNeverAhead, LatestInv, HeldInv, DeliveredInv
  <2> QED
    BY <2>1, <2>2, <2>3, <2>4, <2>5, <2>6, <2>7
<1>13. ASSUME NEW th \in Threads, Call(th) PROVE NParts'
  <2> DEFINE t == NitzData(th)
             arrives == /\ op[th] \in {"nitz", "resend"} /\ delivered' # delivered
  <2>1. /\ nitzCount' = nitzCount /\ nitzTimeReceived' = nitzTimeReceived
        /\ s_lastNITZTimeData' = s_lastNITZTimeData /\ pc[th] = "call" /\ pc'[th] # "call"
        /\ \A x \in Threads \ {th} :
              pc'[x] = pc[x] /\ op'[x] = op[x] /\ ret'[x] = ret[x] /\ nitz'[x] = nitz[x]
    BY <1>13 DEF Call
  <2>2. CASE ~arrives
    <3>1. delivered' = delivered
      BY <1>13, <2>2 DEF Call
    <3>2. PlaceInv' /\ LatestInv'
      BY <1>13 DEF Call, PlaceInv, LatestInv
    <3>3. HeldInv'
      BY <1>13 DEF Call, HeldInv, PlaceInv
    <3>4. Sent(s_lastNITZTimeData)' = Sent(s_lastNITZTimeData)
      BY <2>1, <3>1 DEF Sent
    <3>5. \A x \in Threads :
             nitz'[x] # NULL /\ (pc'[x] = "call" \/ ret'[x] # 0) => ~Sent(nitz'[x])
      BY <1>13 DEF Call, UnsentInv, PlaceInv
    <3>6. UnsentInv'
      BY <2>1, <3>1, <3>4, <3>5, <1>13 DEF Call, UnsentInv, PlaceInv, Sent
    <3>7. DeliveredInv' /\ NitzDeliveredOnce' /\ NitzNeverAhead'
      BY <2>1, <3>1 DEF DeliveredInv, NitzDeliveredOnce, NitzNeverAhead
    <3> QED
      BY <3>2, <3>3, <3>6, <3>7
  <2>3. CASE arrives
    <3>1. /\ delivered' = delivered \cup {[time |-> t, received |-> nitzTimeReceived,
                                         client |-> callbacks["radio"]]}
          /\ ret'[th] = 0 /\ pc'[th] = "unlock" /\ op' = op /\ nitz' = nitz /\ t # NULL
      BY <1>13, <2>3 DEF Call
    <3>2. /\ t \in 1 .. nitzCount /\ t \in Nat /\ nitzTimeReceived = nitzCount /\ ~Sent(t)
          /\ \A x \in Threads \ {th} : nitz[x] # t
          /\ op[th] = "nitz" => t # s_lastNITZTimeData /\ nitz[th] = t
          /\ op[th] = "resend" => t = s_lastNITZTimeData /\ nitz[th] = NULL /\ th = Binder
      <4>1. CASE op[th] = "nitz"
        BY <2>1, <4>1 DEF NitzData, HeldInv, LatestInv, UnsentInv
      <4>2. CASE op[th] = "resend"
        BY <2>1, <3>1, <4>2 DEF NitzData, HeldInv, LatestInv, UnsentInv, PlaceInv
      <4> QED
        BY <2>3, <4>1, <4>2
    <3>3. \A x : (\E d \in delivered' : d.time = x) <=> Sent(x) \/ x = t
      <4> DEFINE d0 == [time |-> t, received |-> nitzTimeReceived, client |-> callbacks["radio"]]
      <4>1. d0.time = t /\ delivered' = delivered \cup {d0}
        BY <3>1
      <4> HIDE DEF d0, t
      <4> QED
        BY <4>1 DEF Sent
    <3>4. PlaceInv' /\ LatestInv'
      BY <1>13 DEF Call, PlaceInv, LatestInv
    <3>5. HeldInv'
      BY <1>13 DEF Call, HeldInv, PlaceInv
    <3>6. UnsentInv'
      <4>1. ASSUME NEW x \in Threads, nitz'[x] # NULL, pc'[x] = "call" \/ ret'[x] # 0
            PROVE  ~(\E d \in delivered' : d.time = nitz'[x])
        <5>1. x # th
          BY <3>1, <4>1
        <5>2. ~Sent(nitz[x]) /\ nitz[x] # t /\ nitz'[x] = nitz[x]
          BY <2>1, <3>2, <4>1, <5>1 DEF UnsentInv
        <5> QED
          BY <3>3, <5>2
      <4>2. \/ s_lastNITZTimeData' = NULL
            \/ ~(\E d \in delivered' : d.time = s_lastNITZTimeData')
            \/ op'[Binder] = "resend" /\ pc'[Binder] = "unlock" /\ ret'[Binder] = 0
        <5>1. CASE op[th] = "resend"
          BY <3>1, <3>2, <5>1
        <5>2. CASE op[th] = "nitz" /\ th = Binder
          BY <2>1, <3>1, <3>2, <3>3, <5>2 DEF UnsentInv
        <5>3. CASE op[th] = "nitz" /\ th # Binder
          BY <2>1, <3>1, <3>2, <3>3, <5>3 DEF UnsentInv
        <5> QED
          BY <2>3, <5>1, <5>2, <5>3
      <4> QED
        BY <4>1, <4>2 DEF UnsentInv, Sent
    <3>7. DeliveredInv'
      BY <2>1, <3>1, <3>2 DEF DeliveredInv
    <3>8. NitzDeliveredOnce'
      <4>1. ASSUME NEW d \in delivered', NEW e \in delivered', d.time = e.time PROVE d = e
        <5>1. \A x \in delivered : x.time # t
          BY <3>2 DEF Sent
        <5> QED
          BY <3>1, <4>1, <5>1 DEF NitzDeliveredOnce
      <4> QED
        BY <4>1 DEF NitzDeliveredOnce
    <3>9. NitzNeverAhead'
      BY <3>1, <3>2 DEF NitzNeverAhead
    <3> QED
      BY <3>4, <3>5, <3>6, <3>7, <3>8, <3>9
  <2> QED
    BY <2>2, <2>3
<1>14. ASSUME NEW th \in Threads, NoteCounter(th) PROVE NParts'
  <2>1. PlaceInv'
    BY <1>14 DEF NoteCounter, PlaceInv
  <2>2. LatestInv'
    BY <1>14 DEF NoteCounter, LatestInv
  <2>3. HeldInv'
    BY <1>14 DEF NoteCounter, HeldInv, PlaceInv
  <2>4. UnsentInv'
    BY <1>14 DEF NoteCounter, UnsentInv, PlaceInv, HeldInv, DeliveredInv, Sent
  <2>5. DeliveredInv'
    BY <1>14 DEF NoteCounter, DeliveredInv, LatestInv, HeldInv
  <2>6. NitzDeliveredOnce'
    BY <1>14 DEF NoteCounter, NitzDeliveredOnce, UnsentInv, HeldInv, Sent
  <2>7. NitzNeverAhead'
    BY <1>14 DEF NoteCounter, NitzNeverAhead, LatestInv, HeldInv, DeliveredInv
  <2> QED
    BY <2>1, <2>2, <2>3, <2>4, <2>5, <2>6, <2>7
<1>15. ASSUME NEW th \in Threads, ResetCallbacks(th) PROVE NParts'
  <2>1. PlaceInv'
    BY <1>15 DEF ResetCallbacks, PlaceInv
  <2>2. LatestInv'
    BY <1>15 DEF ResetCallbacks, LatestInv
  <2>3. HeldInv'
    BY <1>15 DEF ResetCallbacks, HeldInv, PlaceInv
  <2>4. UnsentInv'
    BY <1>15 DEF ResetCallbacks, UnsentInv, PlaceInv, HeldInv, DeliveredInv, Sent
  <2>5. DeliveredInv'
    BY <1>15 DEF ResetCallbacks, DeliveredInv, LatestInv, HeldInv
  <2>6. NitzDeliveredOnce'
    BY <1>15 DEF ResetCallbacks, NitzDeliveredOnce, UnsentInv, HeldInv, Sent
  <2>7. NitzNeverAhead'
    BY <1>15 DEF ResetCallbacks, NitzNeverAhead, LatestInv, HeldInv, DeliveredInv
  <2> QED
    BY <2>1, <2>2, <2>3, <2>4, <2>5, <2>6, <2>7
<1>16. ASSUME NEW th \in Threads, Relock(th) PROVE NParts'
  <2>1. PlaceInv'
    BY <1>16 DEF Relock, PlaceInv
  <2>2. LatestInv'
    BY <1>16 DEF Relock, LatestInv
  <2>3. HeldInv'
    BY <1>16 DEF Relock, HeldInv, PlaceInv
  <2>4. UnsentInv'
    BY <1>16 DEF Relock, UnsentInv, PlaceInv, HeldInv, DeliveredInv, Sent
  <2>5. DeliveredInv'
    BY <1>16 DEF Relock, DeliveredInv, LatestInv, HeldInv
  <2>6. NitzDeliveredOnce'
    BY <1>16 DEF Relock, NitzDeliveredOnce, UnsentInv, HeldInv, Sent
  <2>7. NitzNeverAhead'
    BY <1>16 DEF Relock, NitzNeverAhead, LatestInv, HeldInv, DeliveredInv
  <2> QED
    BY <2>1, <2>2, <2>3, <2>4, <2>5, <2>6, <2>7
<1>17. CASE UNCHANGED vars
  BY <1>17 DEF vars, NParts, PlaceInv, LatestInv, HeldInv, UnsentInv, DeliveredInv,
       NitzDeliveredOnce, NitzNeverAhead, Sent
<1> QED
  BY <1>1, <1>2, <1>3, <1>4, <1>5, <1>6, <1>7, <1>8, <1>9, <1>10, <1>11, <1>12, <1>13, <1>14,
       <1>15, <1>16, <1>17 DEF Next, Client, VendorStarts, VendorEnds, BinderStarts, BinderEnds,
       CallSteps

-----------------------------------------------------------------------------
(* Nobody is registered, nobody inside and no time received. *)
LEMMA ServiceInit == Init => IInv /\ NInv
<1> SUFFICES ASSUME Init PROVE IInv /\ NInv
  OBVIOUS
<1> USE NullIsOther, BoundsOK DEF Init
<1>1. 0 \in 0 .. MaxClients /\ 0 \in 0 .. MaxNitz /\ Cardinality({}) = 0
  BY FS_EmptySet
<1>2. TypeOK
  BY <1>1 DEF TypeOK, Ops
<1>3. RoleInv /\ CParts
  BY DEF RoleInv, CParts, ClientInv, FailedInv, NotedInv, LiveClientConnected
<1>4. Reading = {}
  BY DEF Reading, Inside
<1>5. LockNeverShort
  BY <1>1, <1>4 DEF LockNeverShort
<1>6. NParts
  BY BinderIsOther DEF NParts, PlaceInv, LatestInv, HeldInv, UnsentInv, DeliveredInv,
     NitzDeliveredOnce, NitzNeverAhead, Threads
<1> QED
  BY <1>2, <1>3, <1>5, <1>6 DEF IInv, NInv

(* The invariants hold in every state. *)
LEMMA ServiceHolds == Spec => [](IInv /\ NInv)
<1>1. IInv /\ NInv /\ [Next]_vars => IInv' /\ NInv'
  BY TypeStep, RoleStep, CountStep, ClientStep, NitzStep DEF IInv, NInv
<1> QED
  BY <1>1, ServiceInit, PTL DEF Spec

(* The lock, the callbacks and the threads' places stay in their ranges. *)
THEOREM RadioTypeCorrect == Spec => []TypeOK
<1>1. IInv => TypeOK
  BY DEF IInv
<1> QED
  BY <1>1, ServiceHolds, PTL

(* checkReturnStatus never resets the callbacks of a process that is alive,
   whichever process they had when its call failed, and although the lock that
   protects them may be gone while sendErrorResponse cleans up. *)
THEOREM NoLiveClientDropped == Spec => []LiveClientConnected
<1>1. IInv => LiveClientConnected
  BY DEF IInv, CParts
<1> QED
  BY <1>1, ServiceHolds, PTL

(* The copy of a NITZ time is made only when nobody took it and dropped once it
   was sent: no time reaches the framework twice. *)
THEOREM NitzSentOnce == Spec => []NitzDeliveredOnce
<1>1. NInv => NitzDeliveredOnce
  BY DEF NInv, NParts
<1> QED
  BY <1>1, ServiceHolds, PTL

(* A NITZ time never travels with a receive time from before it. *)
THEOREM NitzTimesOrdered == Spec => []NitzNeverAhead
<1>1. NInv => NitzNeverAhead
  BY DEF NInv, NParts
<1> QED
  BY <1>1, ServiceHolds, PTL

(* An error response takes another thread's read lock away only until it has
   reacquired one: in every other state each thread that uses the callbacks under
   the read lock is counted, and no writer gets in beside it. *)
THEOREM ReadersAreCounted == Spec => []LockNeverShort
<1>1. IInv => LockNeverShort
  BY DEF IInv
<1> QED
  BY <1>1, ServiceHolds, PTL
=============================================================================
