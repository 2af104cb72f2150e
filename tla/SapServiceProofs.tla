-------------------------- MODULE SapServiceProofs --------------------------
(***************************************************************************)
(* Proofs about module SapService for any number of client processes,      *)
(* message ids, tokens, addresses and vendor threads, as long as no client *)
(* process numbers its requests like an earlier one: the vendor's tokens   *)
(* are alive, every answer is the right one and given once, and no object  *)
(* is freed twice and none, nor any request, is forgotten.                 *)
(***************************************************************************)
EXTENDS SapService, SequenceTheorems, TLAPS

-----------------------------------------------------------------------------
(* pendingResponseQueue: enqueue puts a request in front, checkAndDequeue   *)
(* takes one off wherever it is.                                           *)

LEMMA PutFirst ==
  ASSUME NEW S, NEW q \in Seq(S), NEW e \in S, e \notin ToSet(q), IsInjective(q)
  PROVE  /\ <<e>> \o q \in Seq(S)
         /\ ToSet(<<e>> \o q) = ToSet(q) \cup {e}
         /\ IsInjective(<<e>> \o q)
  <1>. DEFINE n == <<e>> \o q
  <1>1. /\ n \in Seq(S) /\ Len(n) = Len(q) + 1 /\ n[1] = e
        /\ \A i \in 2 .. Len(q) + 1 : n[i] = q[i - 1]
    OBVIOUS
  <1>2. ToSet(n) = ToSet(q) \cup {e}
    <2>1. \A i \in 1 .. Len(q) : q[i] = n[i + 1] /\ i + 1 \in 1 .. Len(n)
      BY <1>1
    <2>2. \A i \in 1 .. Len(n) : n[i] = e \/ (i - 1 \in 1 .. Len(q) /\ n[i] = q[i - 1])
      BY <1>1
    <2>3. DOMAIN n = 1 .. Len(n) /\ DOMAIN q = 1 .. Len(q) /\ 1 \in 1 .. Len(n)
      BY <1>1
    <2>. HIDE DEF n
    <2>. QED BY <1>1, <2>1, <2>2, <2>3 DEF ToSet
  <1>3. IsInjective(n)
    <2>. SUFFICES ASSUME NEW i \in 1 .. Len(n), NEW j \in 1 .. Len(n), n[i] = n[j]
                  PROVE  i = j
      BY <1>1 DEF IsInjective
    <2>1. \A k \in 1 .. Len(q) : q[k] # e
      BY DEF ToSet
    <2>2. \A k, l \in 1 .. Len(q) : q[k] = q[l] => k = l
      BY DEF IsInjective
    <2>. QED BY <1>1, <2>1, <2>2
  <1>. QED BY <1>1, <1>2, <1>3

LEMMA TakeOff ==
  ASSUME NEW S, NEW q \in Seq(S), IsInjective(q), NEW k \in 1 .. Len(q)
  PROVE  /\ RemoveAt(q, k) \in Seq(S)
         /\ ToSet(RemoveAt(q, k)) = ToSet(q) \ {q[k]}
         /\ IsInjective(RemoveAt(q, k))
  <1>. DEFINE n == RemoveAt(q, k)
  <1>1. /\ n \in Seq(S) /\ Len(n) = Len(q) - 1
        /\ \A i \in 1 .. k - 1 : n[i] = q[i]
        /\ \A i \in k .. Len(q) - 1 : n[i] = q[i + 1]
    <2>. DEFINE pre == SubSeq(q, 1, k - 1)
                post == SubSeq(q, k + 1, Len(q))
    <2>1. /\ pre \in Seq(S) /\ Len(pre) = k - 1
          /\ \A i \in 1 .. k - 1 : pre[i] = q[i]
      <3>1. \A i \in 1 .. k - 1 : q[i] \in S
        OBVIOUS
      <3>. QED BY <3>1, SubSeqProperties
    <2>2. /\ post \in Seq(S) /\ Len(post) = Len(q) - k
          /\ \A i \in 1 .. Len(q) - k : post[i] = q[k + i]
      <3>1. \A i \in k + 1 .. Len(q) : q[i] \in S
        OBVIOUS
      <3>. QED BY <3>1, SubSeqProperties
    <2>3. n = pre \o post /\ Len(q) \in Nat
      BY DEF RemoveAt
    <2>4. /\ n \in Seq(S) /\ Len(n) = Len(pre) + Len(post)
          /\ \A i \in 1 .. Len(pre) : n[i] = pre[i]
          /\ \A i \in Len(pre) + 1 .. Len(pre) + Len(post) : n[i] = post[i - Len(pre)]
      <3>. HIDE DEF n, pre, post
      <3>1. pre \o post \in Seq(S)
        BY <2>1, <2>2, ConcatProperties
      <3>2. Len(pre \o post) = Len(pre) + Len(post)
        BY <2>1, <2>2, ConcatProperties
      <3>3. \A i \in 1 .. Len(pre) + Len(post) :
               (pre \o post)[i] = IF i <= Len(pre) THEN pre[i] ELSE post[i - Len(pre)]
        BY <2>1, <2>2, ConcatProperties
      <3>. QED BY <2>1, <2>2, <2>3, <3>1, <3>2, <3>3
    <2>. HIDE DEF n, pre, post
    <2>5. \A i \in k .. Len(q) - 1 : n[i] = q[i + 1]
      <3>. SUFFICES ASSUME NEW i \in k .. Len(q) - 1 PROVE n[i] = q[i + 1]
        OBVIOUS
      <3>1. i - (k - 1) \in 1 .. Len(q) - k /\ n[i] = post[i - (k - 1)]
        BY <2>1, <2>2, <2>3, <2>4
      <3>2. k + (i - (k - 1)) = i + 1
        BY <2>3
      <3>. QED BY <2>2, <3>1, <3>2
    <2>. QED BY <2>1, <2>2, <2>3, <2>4, <2>5
  <1>2. DOMAIN n = 1 .. Len(q) - 1 /\ DOMAIN q = 1 .. Len(q)
    BY <1>1
  <1>3. \A i, j \in 1 .. Len(q) : q[i] = q[j] => i = j
    BY DEF IsInjective
  <1>. HIDE DEF n
  <1>4. ToSet(n) = ToSet(q) \ {q[k]}
    <2>1. ASSUME NEW i \in 1 .. Len(q) - 1
          PROVE  \E j \in 1 .. Len(q) : n[i] = q[j] /\ j # k
      <3>0. Len(q) \in Nat
        OBVIOUS
      <3>1. CASE i < k
        <4>1. i \in 1 .. Len(q) /\ i \in 1 .. k - 1 /\ i # k
          BY <2>1, <3>0, <3>1
        <4>. QED BY <1>1, <4>1
      <3>2. CASE i >= k
        <4>1. i + 1 \in 1 .. Len(q) /\ i \in k .. Len(q) - 1 /\ i + 1 # k
          BY <2>1, <3>0, <3>2
        <4>. QED BY <1>1, <4>1
      <3>. QED BY <3>0, <3>1, <3>2
    <2>2. ASSUME NEW j \in 1 .. Len(q), j # k
          PROVE  \E i \in 1 .. Len(q) - 1 : n[i] = q[j]
      <3>1. CASE j < k
        <4>1. j \in 1 .. k - 1 /\ j \in 1 .. Len(q) - 1
          BY <2>2, <3>1
        <4>. QED BY <1>1, <4>1
      <3>2. CASE j > k
        <4>1. j - 1 \in k .. Len(q) - 1 /\ j - 1 \in 1 .. Len(q) - 1 /\ (j - 1) + 1 = j
          BY <2>2, <3>2
        <4>. QED BY <1>1, <4>1
      <3>. QED BY <2>2, <3>1, <3>2
    <2>3. ToSet(n) = {n[i] : i \in 1 .. Len(q) - 1} /\ ToSet(q) = {q[j] : j \in 1 .. Len(q)}
      BY <1>2 DEF ToSet
    <2>4. ToSet(n) \subseteq ToSet(q) \ {q[k]}
      BY <1>3, <2>1, <2>3
    <2>5. ToSet(q) \ {q[k]} \subseteq ToSet(n)
      BY <2>2, <2>3
    <2>. QED BY <2>4, <2>5
  <1>5. IsInjective(n)
    BY <1>1, <1>2, <1>3 DEF IsInjective
  <1>. QED BY <1>1, <1>4, <1>5 DEF n

(* The only entry with the key is the one that is found. *)
LEMMA OnlyMatch ==
  ASSUME NEW q, NEW m, NEW k \in 1 .. Len(q), k \in Nat, Matches(q[k], m),
         \A i \in 1 .. Len(q) : Matches(q[i], m) => i = k
  PROVE  SelectInSeq(q, LAMBDA a : Matches(a, m)) = k
  <1>1. {i \in 1 .. Len(q) : Matches(q[i], m)} = {k}
    OBVIOUS
  <1>2. Min({k}) = k
    BY DEF Min
  <1>3. SelectInSeq(q, LAMBDA a : Matches(a, m)) = Min({k})
    BY <1>1 DEF SelectInSeq
  <1>. QED BY <1>2, <1>3

-----------------------------------------------------------------------------
(* The inductive invariant. *)

Sent == Requests \ unsent

(* The message id and token of a request name it. *)
KeyInv == \A r, s \in Sent : SameKey(r, s) => r = s

(* A message carries one sent request; a queued request has a message of its
   own. *)
MemoryInv ==
  /\ \A m \in msgHeap : msg[m] \in Sent
  /\ \A m, n \in msgHeap : msg[m] = msg[n] => m = n
  /\ \A a \in reqHeap : curr[a] \in msgHeap
  /\ \A a, b \in reqHeap : curr[a] = curr[b] => a = b

(* Until onRequest, only the binder thread knows the message and the request. *)
BinderInv ==
  /\ bpc = "dispatch" => bmsg \in msgHeap /\ \A a \in reqHeap : curr[a] # bmsg
  /\ bpc = "queued" => /\ currRequest \in reqHeap /\ curr[currRequest] = bmsg
                       /\ \A t \in vendor : t[1] # currRequest
  /\ bpc # "queued" => currRequest = NULL
  /\ bpc \in {"dispatch", "queued"} => \A th \in Threads : hdr[th] # bmsg

(* The vendor's tokens are alive, its own, and not being completed. *)
VendorInv == \A t \in vendor :
  /\ t[1] \in reqHeap
  /\ msg[curr[t[1]]] = t[2]
  /\ \A th \in Threads : hdr[th] # curr[t[1]]

(* A thread that answers has its message to itself; the request stays queued
   until checkAndDequeue. *)
CallInv == \A th \in Threads :
  /\ pc[th] = "idle" => hdr[th] = NULL /\ rsp[th] = NULL
  /\ pc[th] \in {"dequeue", "freeHdr"} => hdr[th] # NULL
  /\ hdr[th] # NULL =>
        /\ hdr[th] \in msgHeap
        /\ rsp[th] = msg[hdr[th]] /\ about[th] = rsp[th]
        /\ \A o \in Threads \ {th} : hdr[o] # hdr[th]
        /\ pc[th] = "freeHdr" <=> \A a \in reqHeap : curr[a] # hdr[th]

(* sendFailedResponse answers a request that has no message any more. *)
FailInv == \A th \in Threads : hdr[th] = NULL /\ rsp[th] # NULL =>
  /\ th = Binder
  /\ rsp[th] \in Sent /\ answers[rsp[th]] = 0
  /\ \A m \in msgHeap : msg[m] # rsp[th]

(* A request whose message is alive has its answer only if the thread that
   gave it is about to free them. *)
AnswerInv ==
  /\ OneAnswer
  /\ \A r \in unsent : answers[r] = 0
  /\ \A m \in msgHeap :
        \/ answers[msg[m]] = 0
        \/ \E th \in Threads : hdr[th] = m /\ pc[th] \in {"dequeue", "freeHdr"}

TypeInv == TypeOK /\ pendingResponseQueue \in Seq(Addrs)

ObjectsInv ==
  /\ KeyInv /\ MemoryInv /\ BinderInv /\ VendorInv
  /\ CallInv /\ FailInv /\ AnswerInv /\ NothingLeaked

IInv == TypeInv /\ ObjectsInv

(* What the steps need of TypeInv. *)
Ranges ==
  /\ reqHeap \subseteq Addrs /\ curr \in [Addrs -> Msgs \cup {NULL}]
  /\ msgHeap \subseteq Msgs /\ msg \in [Msgs -> Requests \cup {NULL}]
  /\ vendor \subseteq Addrs \X Requests /\ answers \in [Requests -> Nat]
  /\ pc \in [Threads -> {"idle", "respond", "call", "reset", "dequeue", "freeHdr"}]
  /\ hdr \in [Threads -> Msgs \cup {NULL}]
  /\ rsp \in [Threads -> Requests \cup {NULL}] /\ about \in [Threads -> Requests \cup {NULL}]

-----------------------------------------------------------------------------
(* The invariant holds at first and is kept by every step: lemma SapTypes   *)
(* for the types, then one lemma for each group of actions.                *)

LEMMA SapInitInv == Init => IInv
  <1>. SUFFICES ASSUME Init PROVE IInv
    OBVIOUS
  <1>1. ToSet(pendingResponseQueue) = {} /\ IsInjective(pendingResponseQueue)
    BY DEF Init, ToSet, IsInjective
  <1>2. TypeInv
    BY <1>1, BoundsOK DEF Init, TypeInv, TypeOK
  <1>3. AnswerInv /\ KeyInv
    BY DEF Init, AnswerInv, OneAnswer, KeyInv, Sent
  <1>. QED BY <1>1, <1>2, <1>3, NamesDistinct
       DEF Init, IInv, ObjectsInv, MemoryInv, BinderInv, VendorInv, CallInv, FailInv, NothingLeaked

(* The entry checkAndDequeue finds is the one of the message: no other       *)
(* request has its key.                                                    *)
LEMMA FindsItsOwn ==
  ASSUME IInv, NEW th \in Threads, pc[th] = "dequeue"
  PROVE  \E k \in 1 .. Len(pendingResponseQueue) :
            /\ k # 0
            /\ SelectInSeq(pendingResponseQueue, LAMBDA a : Matches(a, hdr[th])) = k
            /\ curr[pendingResponseQueue[k]] = hdr[th]
            /\ pendingResponseQueue[k] \in reqHeap
  <1>. DEFINE q == pendingResponseQueue
  <1>1. hdr[th] # NULL /\ hdr[th] \in msgHeap /\ \E a \in reqHeap : curr[a] = hdr[th]
    BY DEF IInv, ObjectsInv, CallInv
  <1>2. q \in Seq(Addrs) /\ reqHeap = {q[i] : i \in 1 .. Len(q)} /\ IsInjective(q)
    BY DEF IInv, TypeInv, TypeOK, ToSet
  <1>3. PICK k \in 1 .. Len(q) : curr[q[k]] = hdr[th]
    BY <1>1, <1>2
  <1>4. \A i \in 1 .. Len(q) : q[i] \in reqHeap
    BY <1>2
  <1>5. ASSUME NEW i \in 1 .. Len(q), Matches(q[i], hdr[th])
        PROVE  i = k
    <2>1. msg[curr[q[i]]] = msg[hdr[th]]
      BY <1>1, <1>4, <1>5 DEF IInv, ObjectsInv, KeyInv, MemoryInv, Matches
    <2>2. q[i] = q[k]
      BY <1>1, <1>3, <1>4, <2>1 DEF IInv, ObjectsInv, MemoryInv
    <2>. QED BY <1>2, <2>2 DEF IsInjective
  <1>6. Matches(q[k], hdr[th]) /\ k \in Nat /\ k # 0
    BY <1>2, <1>3 DEF Matches, SameKey
  <1>7. SelectInSeq(q, LAMBDA a : Matches(a, hdr[th])) = k
    BY <1>5, <1>6, OnlyMatch
  <1>. QED BY <1>3, <1>4, <1>6, <1>7

(* Every variable keeps its range and the queue holds the allocated        *)
(* requests, each once.                                                    *)
LEMMA SapTypes == IInv /\ Next => TypeInv'
  <1>. SUFFICES ASSUME IInv, Next PROVE TypeInv'
    OBVIOUS
  <1>. USE DEF TypeInv, TypeOK
  <1>0. TypeInv
    BY DEF IInv
  <1>r. \A m \in msgHeap : msg[m] \in Requests
    BY DEF IInv, ObjectsInv, MemoryInv, Sent
  <1>1. ASSUME NEW c \in Clients, ClientDies(c)
        PROVE  TypeInv'
    BY <1>0, <1>1 DEF ClientDies, shared, memory, binder, frames
  <1>2. ASSUME NEW c \in Clients, SetCallback(c)
        PROVE  TypeInv'
    BY <1>0, <1>2 DEF SetCallback, shared, memory, binder, frames
  <1>3. ASSUME NEW r \in Requests, Encode(r)
        PROVE  TypeInv'
    BY <1>0, <1>3 DEF Encode, Sends, frames
  <1>4. ASSUME NEW r \in Requests, EncodeFails(r)
        PROVE  TypeInv'
    BY <1>0, <1>4 DEF EncodeFails, Sends, Goto, Threads, memory
  <1>5. ASSUME Enqueue
        PROVE  TypeInv'
    <2>1. PICK a \in Addrs \ reqHeap :
             /\ reqHeap' = reqHeap \cup {a}
             /\ curr' = [curr EXCEPT ![a] = bmsg]
             /\ pendingResponseQueue' = <<a>> \o pendingResponseQueue
             /\ currRequest' = a
      BY <1>5 DEF Enqueue
    <2>2. /\ pendingResponseQueue' \in Seq(Addrs)
          /\ ToSet(pendingResponseQueue') = reqHeap'
          /\ IsInjective(pendingResponseQueue')
      BY <1>0, <2>1, PutFirst
    <2>3. /\ reqHeap' \subseteq Addrs /\ curr' \in [Addrs -> Msgs \cup {NULL}]
          /\ currRequest' \in Addrs \cup {NULL} /\ bpc' = "queued"
      BY <1>0, <1>5, <2>1 DEF Enqueue
    <2>4. UNCHANGED <<rild, shared, msgHeap, msg, vendor, bmsg, frames>>
      BY <1>5 DEF Enqueue
    <2>. QED BY <1>0, <2>2, <2>3, <2>4 DEF shared, frames
  <1>6. ASSUME EnqueueFails
        PROVE  TypeInv'
    <2>1. msg[bmsg] \in Requests
      BY <1>6, <1>r DEF EnqueueFails, BinderAt, IInv, ObjectsInv, BinderInv
    <2>. QED BY <1>0, <1>6, <2>1 DEF EnqueueFails, frames
  <1>7. ASSUME OnRequest
        PROVE  TypeInv'
    <2>1. bmsg \in msgHeap /\ currRequest \in Addrs
      BY <1>0, <1>7 DEF OnRequest, BinderAt, IInv, ObjectsInv, BinderInv, MemoryInv
    <2>. QED BY <1>0, <1>7, <1>r, <2>1 DEF OnRequest, shared, frames
  <1>8. ASSUME OnRequestReturns
        PROVE  TypeInv'
    BY <1>0, <1>8 DEF OnRequestReturns, shared, memory, binder, frames
  <1>9. ASSUME FreePayload
        PROVE  TypeInv'
    BY <1>0, <1>9 DEF FreePayload, shared, memory, binder, frames
  <1>10. ASSUME FailedReturns
        PROVE  TypeInv'
    BY <1>0, <1>10 DEF FailedReturns, shared, memory, binder, frames
  <1>11. ASSUME NEW th \in Threads, VendorCompletes(th)
        PROVE  TypeInv'
    <2>1. PICK t \in vendor :
             /\ vendor' = vendor \ {t}
             /\ hdr' = [hdr EXCEPT ![th] = curr[t[1]]]
             /\ rsp' = [rsp EXCEPT ![th] = msg[curr[t[1]]]]
             /\ about' = [about EXCEPT ![th] = t[2]]
      BY <1>11 DEF VendorCompletes
    <2>2. /\ curr[t[1]] \in msgHeap /\ msg[curr[t[1]]] \in Requests /\ t[2] \in Requests
      BY <1>0, <1>r DEF IInv, ObjectsInv, VendorInv, MemoryInv
    <2>. QED BY <1>0, <1>11, <2>1, <2>2 DEF VendorCompletes, Goto, shared, binder
  <1>12. ASSUME NEW th \in Threads, VendorIndicates(th)
        PROVE  TypeInv'
    BY <1>0, <1>12, BoundsOK DEF VendorIndicates, Goto, memory, binder
  <1>13. ASSUME NEW th \in Threads, NoResponse(th)
        PROVE  TypeInv'
    <2>1. rsp[th] \in Requests
      BY <1>13, <1>r DEF NoResponse, IInv, ObjectsInv, CallInv
    <2>. QED BY <1>0, <1>13, <2>1 DEF NoResponse, After, Finish, Goto, memory, binder
  <1>14. ASSUME NEW th \in Threads, ProcessResponse(th)
        PROVE  TypeInv'
    BY <1>0, <1>14 DEF ProcessResponse, shared, memory, binder, frames, After, Finish, Goto
  <1>15. ASSUME NEW th \in Threads, CallCallback(th)
        PROVE  TypeInv'
    <2>1. answers' \in [Requests -> Nat]
      <3>1. CASE rsp[th] \in Requests
        BY <1>0, <1>15, <3>1 DEF CallCallback
      <3>2. CASE rsp[th] = NULL
        BY <1>0, <1>15, <3>2 DEF CallCallback
      <3>. QED BY <1>0, <3>1, <3>2
    <2>2. /\ pc' \in [Threads -> {"idle", "respond", "call", "reset", "dequeue", "freeHdr"}]
          /\ hdr' \in [Threads -> Msgs \cup {NULL}]
          /\ rsp' \in [Threads -> Requests \cup {NULL}]
          /\ about' \in [Threads -> Requests \cup {NULL}]
      BY <1>0, <1>15 DEF CallCallback, After, Finish, Goto
    <2>3. UNCHANGED <<rild, client, unsent, sapCallback, dropped, unsols, memory, binder>>
      BY <1>15 DEF CallCallback
    <2>. QED BY <1>0, <2>1, <2>2, <2>3 DEF memory, binder
  <1>16. ASSUME NEW th \in Threads, CheckReturnStatus(th)
        PROVE  TypeInv'
    BY <1>0, <1>16 DEF CheckReturnStatus, shared, memory, binder, frames, After, Finish, Goto
  <1>17. ASSUME NEW th \in Threads, CheckAndDequeue(th)
        PROVE  TypeInv'
    <2>1. PICK k \in 1 .. Len(pendingResponseQueue) :
             /\ k # 0
             /\ SelectInSeq(pendingResponseQueue, LAMBDA a : Matches(a, hdr[th])) = k
      BY <1>17, FindsItsOwn DEF CheckAndDequeue, At
    <2>2. /\ reqHeap' = reqHeap \ {pendingResponseQueue[k]}
          /\ pendingResponseQueue' = RemoveAt(pendingResponseQueue, k)
      BY <1>17, <2>1 DEF CheckAndDequeue
    <2>3. /\ pendingResponseQueue' \in Seq(Addrs)
          /\ ToSet(pendingResponseQueue') = reqHeap'
          /\ IsInjective(pendingResponseQueue')
      BY <1>0, <2>1, <2>2, TakeOff
    <2>. QED BY <1>0, <1>17, <2>2, <2>3 DEF CheckAndDequeue, Goto, shared, binder
  <1>18. ASSUME NEW th \in Threads, FreeMsgHeader(th)
        PROVE  TypeInv'
    BY <1>0, <1>18 DEF FreeMsgHeader, shared, memory, binder, frames, After, Finish, Goto
  <1>19. ASSUME Crash
        PROVE  TypeInv'
    <2>1. /\ ToSet(pendingResponseQueue') = reqHeap'
          /\ IsInjective(pendingResponseQueue')
          /\ pendingResponseQueue' \in Seq(Addrs)
      BY <1>19 DEF Crash, ToSet, IsInjective
    <2>. QED BY <1>0, <1>19, <2>1 DEF Crash
  <1>. QED BY <1>1, <1>2, <1>3, <1>4, <1>5, <1>6, <1>7, <1>8, <1>9, <1>10,
           <1>11, <1>12, <1>13, <1>14, <1>15, <1>16, <1>17, <1>18, <1>19
       DEF Next, BinderSteps, CallSteps

(* A process comes or goes, or onRequest returns. *)
LEMMA QuietStep ==
  ASSUME IInv, UNCHANGED <<unsent, answers, memory, frames>>, UNCHANGED binder \/ (bpc
         \notin {"dispatch", "queued"} /\ bpc' \notin {"dispatch", "queued"} /\
         currRequest' = currRequest)
  PROVE  ObjectsInv'
  <1>0. Ranges /\ ObjectsInv
    BY DEF IInv, TypeInv, TypeOK, Ranges
  <1>u. UNCHANGED <<unsent, answers, reqHeap, curr, msgHeap, msg, vendor, pc, hdr, rsp,
                    about, currRequest>>
    BY DEF memory, frames, binder
  <1>a. (bpc' = bpc /\ bmsg' = bmsg)
        \/ (bpc \notin {"dispatch", "queued"} /\ bpc' \notin {"dispatch", "queued"})
    BY DEF binder
  <1>1. KeyInv'
    BY <1>0, <1>u DEF ObjectsInv, KeyInv, SameKey, Sent
  <1>2. MemoryInv'
    BY <1>0, <1>u DEF Ranges, ObjectsInv, MemoryInv, Sent
  <1>3. BinderInv'
    BY <1>0, <1>u, <1>a DEF Ranges, ObjectsInv, BinderInv
  <1>4. VendorInv'
    BY <1>0, <1>u DEF Ranges, ObjectsInv, VendorInv
  <1>5. CallInv'
    BY <1>0, <1>u DEF Ranges, ObjectsInv, CallInv
  <1>6. FailInv'
    BY <1>0, <1>u DEF Ranges, ObjectsInv, FailInv, Sent
  <1>7. AnswerInv'
    BY <1>0, <1>u DEF Ranges, ObjectsInv, AnswerInv, OneAnswer
  <1>8. NothingLeaked'
    BY <1>0, <1>u, <1>a DEF Ranges, ObjectsInv, NothingLeaked
  <1>. QED BY <1>1, <1>2, <1>3, <1>4, <1>5, <1>6, <1>7, <1>8 DEF ObjectsInv

LEMMA EncodeStep ==
  ASSUME IInv, ~TokensRestart, NEW r \in Requests, Encode(r)
  PROVE  ObjectsInv'
  <1>0. Ranges /\ ObjectsInv
    BY DEF IInv, TypeInv, TypeOK, Ranges
  <1>a. PICK m \in Msgs \ msgHeap :
           msgHeap' = msgHeap \cup {m} /\ msg' = [msg EXCEPT ![m] = r] /\ bmsg' = m
    BY DEF Encode
  <1>b. bpc = "idle" /\ bpc' = "dispatch" /\ r \in unsent /\ unsent' = unsent \ {r} /\ m # NULL
    BY NamesDistinct DEF Encode, Sends, BinderAt
  <1>c. \A s \in Sent : ~SameKey(r, s)
    BY DEF Encode, Sends, Sent
  <1>u. UNCHANGED <<answers, pendingResponseQueue, reqHeap, curr, vendor, currRequest,
                    pc, hdr, rsp, about>>
    BY DEF Encode, frames
  <1>1. KeyInv'
    BY <1>0, <1>u, <1>b, <1>c DEF ObjectsInv, KeyInv, SameKey, Sent
  <1>2. MemoryInv'
    BY <1>0, <1>u, <1>a, <1>b DEF Ranges, ObjectsInv, MemoryInv, Sent
  <1>3. BinderInv'
    BY <1>0, <1>u, <1>a, <1>b DEF Ranges, ObjectsInv, BinderInv, MemoryInv, Sent,
       CallInv
  <1>4. VendorInv'
    BY <1>0, <1>u, <1>a DEF Ranges, ObjectsInv, VendorInv, MemoryInv, Sent
  <1>5. CallInv'
    BY <1>0, <1>u, <1>a DEF Ranges, ObjectsInv, CallInv
  <1>6. FailInv'
    BY <1>0, <1>u, <1>a, <1>b DEF Ranges, ObjectsInv, FailInv, Sent
  <1>7. AnswerInv'
    BY <1>0, <1>u, <1>a, <1>b DEF Ranges, ObjectsInv, AnswerInv, OneAnswer, MemoryInv,
       Sent
  <1>8. NothingLeaked'
    BY <1>0, <1>u, <1>a, <1>b DEF Ranges, ObjectsInv, NothingLeaked
  <1>. QED BY <1>1, <1>2, <1>3, <1>4, <1>5, <1>6, <1>7, <1>8 DEF ObjectsInv

LEMMA EncodeFailsStep ==
  ASSUME IInv, ~TokensRestart, NEW r \in Requests, EncodeFails(r)
  PROVE  ObjectsInv'
  <1>0. Ranges /\ ObjectsInv
    BY DEF IInv, TypeInv, TypeOK, Ranges
  <1>a. /\ Binder \in Threads /\ pc[Binder] = "idle" /\ pc' = [pc EXCEPT ![Binder] = "call"]
        /\ rsp' = [rsp EXCEPT ![Binder] = r] /\ about' = [about EXCEPT ![Binder] = r]
    BY DEF EncodeFails, Sends, BinderAt, Goto, Threads
  <1>b. bpc = "idle" /\ bpc' = "failing" /\ r \in unsent /\ unsent' = unsent \ {r}
    BY DEF EncodeFails, Sends, BinderAt
  <1>c. \A s \in Sent : ~SameKey(r, s)
    BY DEF EncodeFails, Sends, Sent
  <1>u. UNCHANGED <<answers, pendingResponseQueue, reqHeap, curr, msgHeap, msg,
                    vendor, bmsg, currRequest, hdr>>
    BY DEF EncodeFails, memory
  <1>1. KeyInv'
    BY <1>0, <1>u, <1>b, <1>c DEF ObjectsInv, KeyInv, SameKey, Sent
  <1>2. MemoryInv'
    BY <1>0, <1>u, <1>b DEF Ranges, ObjectsInv, MemoryInv, Sent
  <1>3. BinderInv'
    BY <1>0, <1>u, <1>b DEF Ranges, ObjectsInv, BinderInv
  <1>4. VendorInv'
    BY <1>0, <1>u DEF Ranges, ObjectsInv, VendorInv
  <1>5. CallInv'
    BY <1>0, <1>u, <1>a DEF Ranges, ObjectsInv, CallInv
  <1>6. FailInv'
    BY <1>0, <1>u, <1>a, <1>b DEF Ranges, ObjectsInv, FailInv, Sent, MemoryInv,
       AnswerInv, OneAnswer
  <1>7. AnswerInv'
    BY <1>0, <1>u, <1>a, <1>b DEF Ranges, ObjectsInv, AnswerInv, OneAnswer, CallInv
  <1>8. NothingLeaked'
    BY <1>0, <1>u, <1>b DEF Ranges, ObjectsInv, NothingLeaked
  <1>. QED BY <1>1, <1>2, <1>3, <1>4, <1>5, <1>6, <1>7, <1>8 DEF ObjectsInv

LEMMA EnqueueStep ==
  ASSUME IInv, Enqueue
  PROVE  ObjectsInv'
  <1>0. Ranges /\ ObjectsInv
    BY DEF IInv, TypeInv, TypeOK, Ranges
  <1>a. PICK a \in Addrs \ reqHeap :
           /\ reqHeap' = reqHeap \cup {a} /\ curr' = [curr EXCEPT ![a] = bmsg]
           /\ currRequest' = a
    BY DEF Enqueue
  <1>b. bpc = "dispatch" /\ bpc' = "queued"
    BY DEF Enqueue, BinderAt
  <1>u. UNCHANGED <<unsent, answers, msgHeap, msg, vendor, bmsg, pc, hdr, rsp, about>>
    BY DEF Enqueue, shared, frames
  <1>1. KeyInv'
    BY <1>0, <1>u DEF ObjectsInv, KeyInv, SameKey, Sent
  <1>2. MemoryInv'
    BY <1>0, <1>u, <1>a, <1>b DEF Ranges, ObjectsInv, MemoryInv, Sent, BinderInv
  <1>3. BinderInv'
    BY <1>0, <1>u, <1>a, <1>b DEF Ranges, ObjectsInv, BinderInv, VendorInv
  <1>4. VendorInv'
    BY <1>0, <1>u, <1>a DEF Ranges, ObjectsInv, VendorInv
  <1>5. CallInv'
    BY <1>0, <1>u, <1>a, <1>b DEF Ranges, ObjectsInv, CallInv, BinderInv
  <1>6. FailInv'
    BY <1>0, <1>u DEF Ranges, ObjectsInv, FailInv, Sent
  <1>7. AnswerInv'
    BY <1>0, <1>u DEF Ranges, ObjectsInv, AnswerInv, OneAnswer
  <1>8. NothingLeaked'
    BY <1>0, <1>u, <1>a, <1>b, NamesDistinct DEF Ranges, ObjectsInv, NothingLeaked,
       BinderInv
  <1>. QED BY <1>1, <1>2, <1>3, <1>4, <1>5, <1>6, <1>7, <1>8 DEF ObjectsInv

LEMMA EnqueueFailsStep ==
  ASSUME IInv, EnqueueFails
  PROVE  ObjectsInv'
  <1>0. Ranges /\ ObjectsInv
    BY DEF IInv, TypeInv, TypeOK, Ranges
  <1>a. bpc = "dispatch" /\ bpc' = "free" /\ msgHeap' = msgHeap \ {bmsg}
    BY DEF EnqueueFails, BinderAt
  <1>u. UNCHANGED <<unsent, answers, pendingResponseQueue, reqHeap, curr, msg, vendor,
                    bmsg, currRequest, pc, hdr, rsp, about>>
    BY DEF EnqueueFails, frames
  <1>1. KeyInv'
    BY <1>0, <1>u DEF ObjectsInv, KeyInv, SameKey, Sent
  <1>2. MemoryInv'
    BY <1>0, <1>u, <1>a DEF Ranges, ObjectsInv, MemoryInv, Sent, BinderInv
  <1>3. BinderInv'
    BY <1>0, <1>u, <1>a DEF Ranges, ObjectsInv, BinderInv
  <1>4. VendorInv'
    BY <1>0, <1>u DEF Ranges, ObjectsInv, VendorInv
  <1>5. CallInv'
    BY <1>0, <1>u, <1>a DEF Ranges, ObjectsInv, CallInv, BinderInv
  <1>6. FailInv'
    BY <1>0, <1>u, <1>a DEF Ranges, ObjectsInv, FailInv, Sent
  <1>7. AnswerInv'
    BY <1>0, <1>u, <1>a DEF Ranges, ObjectsInv, AnswerInv, OneAnswer
  <1>8. NothingLeaked'
    BY <1>0, <1>u, <1>a DEF Ranges, ObjectsInv, NothingLeaked
  <1>. QED BY <1>1, <1>2, <1>3, <1>4, <1>5, <1>6, <1>7, <1>8 DEF ObjectsInv

LEMMA OnRequestStep ==
  ASSUME IInv, OnRequest
  PROVE  ObjectsInv'
  <1>0. Ranges /\ ObjectsInv
    BY DEF IInv, TypeInv, TypeOK, Ranges
  <1>a. bpc = "queued" /\ bpc' = "inVendor" /\ currRequest' = NULL
        /\ vendor' = vendor \cup {<<currRequest, msg[bmsg]>>}
    BY DEF OnRequest, BinderAt
  <1>u. UNCHANGED <<unsent, answers, pendingResponseQueue, reqHeap, curr, msgHeap,
                    msg, bmsg, pc, hdr, rsp, about>>
    BY DEF OnRequest, shared, frames
  <1>1. KeyInv'
    BY <1>0, <1>u DEF ObjectsInv, KeyInv, SameKey, Sent
  <1>2. MemoryInv'
    BY <1>0, <1>u DEF Ranges, ObjectsInv, MemoryInv, Sent
  <1>3. BinderInv'
    BY <1>0, <1>u, <1>a DEF Ranges, ObjectsInv, BinderInv
  <1>4. VendorInv'
    BY <1>0, <1>u, <1>a DEF Ranges, ObjectsInv, VendorInv, BinderInv
  <1>5. CallInv'
    BY <1>0, <1>u DEF Ranges, ObjectsInv, CallInv
  <1>6. FailInv'
    BY <1>0, <1>u DEF Ranges, ObjectsInv, FailInv, Sent
  <1>7. AnswerInv'
    BY <1>0, <1>u DEF Ranges, ObjectsInv, AnswerInv, OneAnswer
  <1>8. NothingLeaked'
    <2>1. <<currRequest, msg[bmsg]>> \in vendor' /\ \A t \in vendor : t \in vendor'
      BY <1>a
    <2>2. <<currRequest, msg[bmsg]>>[1] = currRequest
      OBVIOUS
    <2>. QED BY <1>0, <1>u, <1>a, <2>1, <2>2 DEF ObjectsInv, NothingLeaked
  <1>. QED BY <1>1, <1>2, <1>3, <1>4, <1>5, <1>6, <1>7, <1>8 DEF ObjectsInv

(* The token leads to the request's own message, and the thread takes it over. *)
LEMMA CompletesStep ==
  ASSUME IInv, NEW th \in Threads, VendorCompletes(th)
  PROVE  ObjectsInv'
  <1>0. Ranges /\ ObjectsInv
    BY DEF IInv, TypeInv, TypeOK, Ranges
  <1>a. PICK t \in vendor :
           /\ vendor' = vendor \ {t} /\ hdr' = [hdr EXCEPT ![th] = curr[t[1]]]
           /\ rsp' = [rsp EXCEPT ![th] = msg[curr[t[1]]]] /\ about' = [about EXCEPT ![th] = t[2]]
    BY DEF VendorCompletes
  <1>b. pc[th] = "idle" /\ pc' = [pc EXCEPT ![th] = "respond"]
        /\ (th = Binder => bpc \notin {"dispatch", "queued"})
    BY DEF VendorCompletes, MayCall, At, Goto
  <1>c. /\ t[1] \in reqHeap /\ curr[t[1]] \in msgHeap /\ curr[t[1]] # NULL
        /\ msg[curr[t[1]]] = t[2] /\ t = <<t[1], t[2]>> /\ hdr[th] = NULL
    BY <1>0, <1>b, NamesDistinct DEF Ranges, ObjectsInv, VendorInv, MemoryInv, CallInv
  <1>u. UNCHANGED <<unsent, answers, pendingResponseQueue, reqHeap, curr, msgHeap,
                    msg, bpc, bmsg, currRequest>>
    BY DEF VendorCompletes, shared, binder
  <1>1. KeyInv'
    BY <1>0, <1>u DEF ObjectsInv, KeyInv, SameKey, Sent
  <1>2. MemoryInv'
    BY <1>0, <1>u DEF Ranges, ObjectsInv, MemoryInv, Sent
  <1>3. BinderInv'
    BY <1>0, <1>u, <1>a, <1>b, <1>c DEF Ranges, ObjectsInv, BinderInv, MemoryInv, Sent
  <1>4. VendorInv'
    BY <1>0, <1>u, <1>a, <1>c DEF Ranges, ObjectsInv, VendorInv, MemoryInv, Sent
  <1>5. CallInv'
    BY <1>0, <1>u, <1>a, <1>b, <1>c DEF Ranges, ObjectsInv, CallInv, VendorInv
  <1>6. FailInv'
    BY <1>0, <1>u, <1>a, <1>c DEF Ranges, ObjectsInv, FailInv, Sent
  <1>7. AnswerInv'
    BY <1>0, <1>u, <1>a, <1>b, <1>c DEF Ranges, ObjectsInv, AnswerInv, OneAnswer
  <1>8. NothingLeaked'
    <2>1. hdr'[th] = curr[t[1]] /\ \A o \in Threads : hdr[o] # NULL => hdr'[o] = hdr[o]
      BY <1>0, <1>a, <1>c DEF Ranges
    <2>2. ASSUME NEW m \in msgHeap
          PROVE  \/ \E a \in reqHeap : curr[a] = m
                 \/ bpc = "dispatch" /\ bmsg = m
                 \/ \E o \in Threads : hdr'[o] = m
      <3>1. m # NULL
        BY <1>0, NamesDistinct DEF Ranges
      <3>. QED BY <1>0, <2>1, <3>1 DEF ObjectsInv, NothingLeaked
    <2>3. ASSUME NEW a \in reqHeap
          PROVE  \/ \E u \in vendor' : u[1] = a
                 \/ currRequest = a
                 \/ \E o \in Threads : hdr'[o] # NULL /\ hdr'[o] = curr[a]
      <3>1. CASE a = t[1]
        BY <1>c, <2>1, <3>1
      <3>2. CASE a # t[1]
        BY <1>0, <1>a, <2>1, <3>2 DEF ObjectsInv, NothingLeaked
      <3>. QED BY <3>1, <3>2
    <2>. QED BY <1>u, <2>2, <2>3 DEF NothingLeaked
  <1>. QED BY <1>1, <1>2, <1>3, <1>4, <1>5, <1>6, <1>7, <1>8 DEF ObjectsInv

LEMMA IndicatesStep ==
  ASSUME IInv, NEW th \in Threads, VendorIndicates(th)
  PROVE  ObjectsInv'
  <1>0. Ranges /\ ObjectsInv
    BY DEF IInv, TypeInv, TypeOK, Ranges
  <1>a. pc[th] = "idle" /\ pc' = [pc EXCEPT ![th] = "respond"]
    BY DEF VendorIndicates, MayCall, At, Goto
  <1>u. UNCHANGED <<unsent, answers, pendingResponseQueue, reqHeap, curr, msgHeap,
                    msg, vendor, bpc, bmsg, currRequest, hdr, rsp, about>>
    BY DEF VendorIndicates, memory, binder
  <1>1. KeyInv'
    BY <1>0, <1>u DEF ObjectsInv, KeyInv, SameKey, Sent
  <1>2. MemoryInv'
    BY <1>0, <1>u DEF Ranges, ObjectsInv, MemoryInv, Sent
  <1>3. BinderInv'
    BY <1>0, <1>u DEF Ranges, ObjectsInv, BinderInv
  <1>4. VendorInv'
    BY <1>0, <1>u DEF Ranges, ObjectsInv, VendorInv
  <1>5. CallInv'
    BY <1>0, <1>u, <1>a DEF Ranges, ObjectsInv, CallInv
  <1>6. FailInv'
    BY <1>0, <1>u, <1>a DEF Ranges, ObjectsInv, FailInv, Sent
  <1>7. AnswerInv'
    BY <1>0, <1>u, <1>a DEF Ranges, ObjectsInv, AnswerInv, OneAnswer, CallInv
  <1>8. NothingLeaked'
    BY <1>0, <1>u DEF Ranges, ObjectsInv, NothingLeaked
  <1>. QED BY <1>1, <1>2, <1>3, <1>4, <1>5, <1>6, <1>7, <1>8 DEF ObjectsInv

(* A thread that answers goes on, without an answer so far or for good. *)
LEMMA GoesOnStep ==
  ASSUME IInv, NEW th \in Threads, pc[th] \in {"respond", "call", "reset"}, UNCHANGED
         <<unsent, answers, memory, binder>>, After(th) \/ \E p \in {"call", "reset"}
         : Goto(th, p) /\ UNCHANGED <<hdr, rsp, about>>
  PROVE  ObjectsInv'
  <1>0. Ranges /\ ObjectsInv
    BY DEF IInv, TypeInv, TypeOK, Ranges
  <1>u. UNCHANGED <<unsent, answers, pendingResponseQueue, reqHeap, curr, msgHeap, msg, vendor,
                    bpc, bmsg, currRequest>>
    BY DEF memory, binder
  <1>a. /\ \E p \in {"idle", "call", "reset", "dequeue"} :
               pc' = [pc EXCEPT ![th] = p] /\ (p = "idle" => rsp'[th] = NULL /\ hdr[th] = NULL)
                                         /\ (p = "dequeue" => hdr[th] # NULL)
        /\ hdr' = hdr
        /\ \A o \in Threads : rsp'[o] = rsp[o] \/ (o = th /\ rsp'[o] = NULL /\ hdr[o] = NULL)
        /\ \A o \in Threads : hdr[o] # NULL => about'[o] = about[o]
    BY <1>0 DEF After, Finish, Goto, Ranges
  <1>1. KeyInv'
    BY <1>0, <1>u DEF ObjectsInv, KeyInv, SameKey, Sent
  <1>2. MemoryInv'
    BY <1>0, <1>u DEF Ranges, ObjectsInv, MemoryInv, Sent
  <1>3. BinderInv'
    BY <1>0, <1>u, <1>a DEF Ranges, ObjectsInv, BinderInv
  <1>4. VendorInv'
    BY <1>0, <1>u, <1>a DEF Ranges, ObjectsInv, VendorInv
  <1>5. CallInv'
    BY <1>0, <1>u, <1>a DEF Ranges, ObjectsInv, CallInv
  <1>6. FailInv'
    BY <1>0, <1>u, <1>a DEF Ranges, ObjectsInv, FailInv, Sent
  <1>7. AnswerInv'
    BY <1>0, <1>u, <1>a DEF Ranges, ObjectsInv, AnswerInv, OneAnswer
  <1>8. NothingLeaked'
    BY <1>0, <1>u, <1>a DEF Ranges, ObjectsInv, NothingLeaked
  <1>. QED BY <1>1, <1>2, <1>3, <1>4, <1>5, <1>6, <1>7, <1>8 DEF ObjectsInv

(* The answer: nobody else can give one to the same request. *)
LEMMA AnswersStep ==
  ASSUME IInv, NEW th \in Threads, pc[th] = "call", After(th), UNCHANGED <<unsent,
         memory, binder>>, answers' = IF rsp[th] = NULL THEN answers ELSE [answers
         EXCEPT ![rsp[th]] = @ + 1]
  PROVE  ObjectsInv'
  <1>0. Ranges /\ ObjectsInv
    BY DEF IInv, TypeInv, TypeOK, Ranges
  <1>u. UNCHANGED <<unsent, pendingResponseQueue, reqHeap, curr, msgHeap, msg, vendor,
                    bpc, bmsg, currRequest>>
    BY DEF memory, binder
  <1>a. /\ \E p \in {"idle", "dequeue"} :
               pc' = [pc EXCEPT ![th] = p] /\ (p = "idle" => rsp'[th] = NULL /\ hdr[th] = NULL)
                                         /\ (p = "dequeue" => hdr[th] # NULL)
        /\ hdr' = hdr
        /\ \A o \in Threads : rsp'[o] = rsp[o] \/ (o = th /\ rsp'[o] = NULL /\ hdr[o] = NULL)
        /\ \A o \in Threads : hdr[o] # NULL => about'[o] = about[o]
        /\ (hdr[th] = NULL => rsp'[th] = NULL)
    BY <1>0 DEF After, Finish, Goto, Ranges
  <1>b. rsp[th] # NULL => rsp[th] \in Sent /\ answers[rsp[th]] = 0
    <2>1. CASE hdr[th] = NULL
      BY <1>0, <2>1 DEF ObjectsInv, FailInv
    <2>2. CASE hdr[th] # NULL
      <3>1. hdr[th] \in msgHeap /\ rsp[th] = msg[hdr[th]]
        BY <1>0, <2>2 DEF ObjectsInv, CallInv
      <3>2. \A o \in Threads : hdr[o] = hdr[th] => o = th
        BY <1>0, <2>2 DEF ObjectsInv, CallInv
      <3>. QED BY <1>0, <3>1, <3>2 DEF ObjectsInv, MemoryInv, AnswerInv
    <2>. QED BY <2>1, <2>2
  <1>c. \A r \in Requests : r # rsp[th] => answers'[r] = answers[r]
    BY <1>0 DEF Ranges
  <1>d. rsp[th] # NULL => answers'[rsp[th]] = 1
    BY <1>0, <1>b DEF Ranges, Sent
  <1>1. KeyInv'
    BY <1>0, <1>u DEF ObjectsInv, KeyInv, SameKey, Sent
  <1>2. MemoryInv'
    BY <1>0, <1>u DEF Ranges, ObjectsInv, MemoryInv, Sent
  <1>3. BinderInv'
    BY <1>0, <1>u, <1>a DEF Ranges, ObjectsInv, BinderInv
  <1>4. VendorInv'
    BY <1>0, <1>u, <1>a DEF Ranges, ObjectsInv, VendorInv
  <1>5. CallInv'
    BY <1>0, <1>u, <1>a DEF Ranges, ObjectsInv, CallInv
  <1>6. FailInv'
    <2>. SUFFICES ASSUME NEW o \in Threads, hdr'[o] = NULL, rsp'[o] # NULL
                  PROVE  /\ o = Binder
                         /\ rsp'[o] \in Sent' /\ answers'[rsp'[o]] = 0
                         /\ \A m \in msgHeap' : msg'[m] # rsp'[o]
      BY DEF FailInv
    <2>1. rsp'[o] = rsp[o] /\ hdr[o] = NULL
      BY <1>a
    <2>2. /\ o = Binder /\ rsp[o] \in Sent /\ answers[rsp[o]] = 0
          /\ \A m \in msgHeap : msg[m] # rsp[o]
      BY <1>0, <2>1 DEF ObjectsInv, FailInv
    <2>3. CASE hdr[th] = NULL
      <3>1. rsp[th] # rsp[o]
        BY <1>0, <1>a, <2>1, <2>2, <2>3 DEF ObjectsInv, FailInv
      <3>. QED BY <1>u, <1>c, <2>1, <2>2, <3>1 DEF Sent
    <2>4. CASE hdr[th] # NULL
      <3>1. rsp[th] # rsp[o]
        BY <1>0, <2>2, <2>4 DEF ObjectsInv, CallInv
      <3>. QED BY <1>u, <1>c, <2>1, <2>2, <3>1 DEF Sent
    <2>. QED BY <2>3, <2>4
  <1>7. AnswerInv'
    <2>1. OneAnswer'
      BY <1>0, <1>c, <1>d DEF ObjectsInv, AnswerInv, OneAnswer
    <2>2. \A r \in unsent' : answers'[r] = 0
      BY <1>0, <1>u, <1>b, <1>c, <2>1 DEF Ranges, ObjectsInv, AnswerInv, Sent
    <2>3. ASSUME NEW m \in msgHeap
          PROVE  \/ answers'[msg[m]] = 0
                 \/ \E o \in Threads : hdr'[o] = m /\ pc'[o] \in {"dequeue", "freeHdr"}
      <3>1. msg[m] \in Requests
        BY <1>0 DEF ObjectsInv, MemoryInv, Sent
      <3>2. CASE rsp[th] # NULL /\ msg[m] = rsp[th]
        <4>1. hdr[th] # NULL
          BY <1>0, <3>2 DEF ObjectsInv, FailInv
        <4>2. hdr[th] = m
          BY <1>0, <3>2, <4>1 DEF ObjectsInv, CallInv, MemoryInv
        <4>. QED BY <1>0, <1>a, <4>1, <4>2 DEF Ranges
      <3>3. CASE ~(rsp[th] # NULL /\ msg[m] = rsp[th])
        <4>1. answers'[msg[m]] = answers[msg[m]]
          BY <1>c, <3>1, <3>3
        <4>. QED BY <1>0, <1>a, <4>1 DEF Ranges, ObjectsInv, AnswerInv
      <3>. QED BY <3>2, <3>3
    <2>. QED BY <1>u, <2>1, <2>2, <2>3 DEF AnswerInv
  <1>8. NothingLeaked'
    BY <1>0, <1>u, <1>a DEF Ranges, ObjectsInv, NothingLeaked
  <1>. QED BY <1>1, <1>2, <1>3, <1>4, <1>5, <1>6, <1>7, <1>8 DEF ObjectsInv

(* The thread frees the request of its own message. *)
LEMMA DequeueStep ==
  ASSUME IInv, NEW th \in Threads, CheckAndDequeue(th)
  PROVE  ObjectsInv'
  <1>0. Ranges /\ ObjectsInv
    BY DEF IInv, TypeInv, TypeOK, Ranges
  <1>a. pc[th] = "dequeue" /\ pc' = [pc EXCEPT ![th] = "freeHdr"]
    BY DEF CheckAndDequeue, At, Goto
  <1>b. PICK a \in reqHeap : curr[a] = hdr[th] /\ reqHeap' = reqHeap \ {a}
    <2>1. PICK k \in 1 .. Len(pendingResponseQueue) :
             /\ k # 0
             /\ SelectInSeq(pendingResponseQueue, LAMBDA a : Matches(a, hdr[th])) = k
             /\ curr[pendingResponseQueue[k]] = hdr[th]
             /\ pendingResponseQueue[k] \in reqHeap
      BY <1>a, FindsItsOwn
    <2>2. reqHeap' = reqHeap \ {pendingResponseQueue[k]}
      BY <2>1 DEF CheckAndDequeue
    <2>. QED BY <2>1, <2>2
  <1>c. hdr[th] # NULL /\ hdr[th] \in msgHeap
    BY <1>0, <1>a DEF ObjectsInv, CallInv
  <1>u. UNCHANGED <<unsent, answers, curr, msgHeap, msg, vendor, bpc, bmsg,
                    currRequest, hdr, rsp, about>>
    BY DEF CheckAndDequeue, shared, binder
  <1>1. KeyInv'
    BY <1>0, <1>u DEF ObjectsInv, KeyInv, SameKey, Sent
  <1>2. MemoryInv'
    BY <1>0, <1>u, <1>b DEF Ranges, ObjectsInv, MemoryInv, Sent
  <1>3. BinderInv'
    BY <1>0, <1>u, <1>b, <1>c DEF Ranges, ObjectsInv, BinderInv
  <1>4. VendorInv'
    BY <1>0, <1>u, <1>b DEF Ranges, ObjectsInv, VendorInv
  <1>5. CallInv'
    BY <1>0, <1>u, <1>a, <1>b, <1>c DEF Ranges, ObjectsInv, CallInv, MemoryInv, Sent
  <1>6. FailInv'
    BY <1>0, <1>u, <1>a DEF Ranges, ObjectsInv, FailInv, Sent
  <1>7. AnswerInv'
    BY <1>0, <1>u, <1>a DEF Ranges, ObjectsInv, AnswerInv, OneAnswer
  <1>8. NothingLeaked'
    BY <1>0, <1>u, <1>a, <1>b, <1>c DEF Ranges, ObjectsInv, NothingLeaked, MemoryInv,
       Sent
  <1>. QED BY <1>1, <1>2, <1>3, <1>4, <1>5, <1>6, <1>7, <1>8 DEF ObjectsInv

LEMMA FreeMsgStep ==
  ASSUME IInv, NEW th \in Threads, FreeMsgHeader(th)
  PROVE  ObjectsInv'
  <1>0. Ranges /\ ObjectsInv
    BY DEF IInv, TypeInv, TypeOK, Ranges
  <1>a. /\ pc[th] = "freeHdr" /\ msgHeap' = msgHeap \ {hdr[th]}
        /\ pc' = [pc EXCEPT ![th] = "idle"] /\ hdr' = [hdr EXCEPT ![th] = NULL]
        /\ rsp' = [rsp EXCEPT ![th] = NULL] /\ about' = [about EXCEPT ![th] = NULL]
    BY DEF FreeMsgHeader, At, Finish, Goto
  <1>b. hdr[th] # NULL /\ \A a \in reqHeap : curr[a] # hdr[th]
    BY <1>0, <1>a DEF ObjectsInv, CallInv
  <1>c. \A o \in Threads \ {th} : hdr[o] # hdr[th]
    BY <1>0, <1>b DEF ObjectsInv, CallInv
  <1>u. UNCHANGED <<unsent, answers, pendingResponseQueue, reqHeap, curr, msg, vendor,
                    bpc, bmsg, currRequest>>
    BY DEF FreeMsgHeader, shared, binder
  <1>1. KeyInv'
    BY <1>0, <1>u DEF ObjectsInv, KeyInv, SameKey, Sent
  <1>2. MemoryInv'
    BY <1>0, <1>u, <1>a, <1>b DEF Ranges, ObjectsInv, MemoryInv, Sent
  <1>3. BinderInv'
    BY <1>0, <1>u, <1>a, <1>b, <1>c, NamesDistinct DEF Ranges, ObjectsInv, BinderInv,
       MemoryInv, Sent
  <1>4. VendorInv'
    BY <1>0, <1>u, <1>a, <1>b, NamesDistinct DEF Ranges, ObjectsInv, VendorInv,
       MemoryInv, Sent
  <1>5. CallInv'
    BY <1>0, <1>u, <1>a, <1>b, <1>c DEF Ranges, ObjectsInv, CallInv
  <1>6. FailInv'
    BY <1>0, <1>u, <1>a DEF Ranges, ObjectsInv, FailInv, Sent
  <1>7. AnswerInv'
    BY <1>0, <1>u, <1>a, <1>b DEF Ranges, ObjectsInv, AnswerInv, OneAnswer
  <1>8. NothingLeaked'
    BY <1>0, <1>u, <1>a, <1>b DEF Ranges, ObjectsInv, NothingLeaked
  <1>. QED BY <1>1, <1>2, <1>3, <1>4, <1>5, <1>6, <1>7, <1>8 DEF ObjectsInv

(* A crash forgets everything but what the clients have got. *)
LEMMA CrashStep ==
  ASSUME IInv, Crash
  PROVE  ObjectsInv'
  <1>1. /\ reqHeap' = {} /\ msgHeap' = {} /\ vendor' = {} /\ UNCHANGED <<unsent, answers>>
        /\ bpc' = "idle" /\ currRequest' = NULL
        /\ \A th \in Threads : pc'[th] = "idle" /\ hdr'[th] = NULL /\ rsp'[th] = NULL
    BY DEF Crash
  <1>2. KeyInv' /\ AnswerInv'
    BY <1>1 DEF IInv, ObjectsInv, KeyInv, Sent, AnswerInv, OneAnswer
  <1>3. MemoryInv' /\ BinderInv' /\ VendorInv' /\ CallInv' /\ FailInv' /\ NothingLeaked'
    BY <1>1 DEF MemoryInv, BinderInv, VendorInv, CallInv, FailInv, NothingLeaked
  <1>. QED BY <1>2, <1>3 DEF ObjectsInv

(* Every step keeps the invariant, and so it holds. *)
LEMMA ObjectsStep ==
  ASSUME IInv, ~TokensRestart, [Next]_vars
  PROVE  ObjectsInv'
  <1>1. ASSUME NEW c \in Clients, ClientDies(c) \/ SetCallback(c)
        PROVE  ObjectsInv'
    <2>1. UNCHANGED <<unsent, answers, memory, frames, binder>>
      BY <1>1 DEF ClientDies, SetCallback
    <2>. QED BY <2>1, QuietStep
  <1>2. ASSUME NEW r \in Requests, Encode(r) \/ EncodeFails(r)
        PROVE  ObjectsInv'
    BY <1>2, EncodeStep, EncodeFailsStep
  <1>3. CASE Enqueue \/ EnqueueFails \/ OnRequest
    BY <1>3, EnqueueStep, EnqueueFailsStep, OnRequestStep
  <1>4. CASE OnRequestReturns \/ FreePayload \/ FailedReturns
    <2>1. /\ UNCHANGED <<unsent, answers, memory, frames, currRequest>>
          /\ bpc \notin {"dispatch", "queued"} /\ bpc' \notin {"dispatch", "queued"}
      BY <1>4 DEF OnRequestReturns, FreePayload, FailedReturns, BinderAt, shared
    <2>. QED BY <2>1, QuietStep
  <1>5. ASSUME NEW th \in Threads, VendorCompletes(th) \/ VendorIndicates(th)
        PROVE  ObjectsInv'
    BY <1>5, CompletesStep, IndicatesStep
  <1>6. ASSUME NEW th \in Threads, NoResponse(th) \/ ProcessResponse(th) \/ CheckReturnStatus(th)
        PROVE  ObjectsInv'
    <2>1. UNCHANGED <<unsent, answers, memory, binder>> /\ pc[th] \in {"respond", "call", "reset"}
      BY <1>6 DEF NoResponse, ProcessResponse, CheckReturnStatus, At, shared
    <2>2. After(th) \/ \E p \in {"call", "reset"} : Goto(th, p) /\ UNCHANGED <<hdr, rsp, about>>
      BY <1>6 DEF NoResponse, ProcessResponse, CheckReturnStatus
    <2>. QED BY <2>1, <2>2, GoesOnStep
  <1>7. ASSUME NEW th \in Threads, CallCallback(th)
        PROVE  ObjectsInv'
    <2>1. UNCHANGED <<unsent, memory, binder>> /\ pc[th] = "call"
      BY <1>7 DEF CallCallback, At
    <2>2. CASE client[sapCallback] = "dead"
      <3>1. UNCHANGED answers /\ Goto(th, "reset") /\ UNCHANGED <<hdr, rsp, about>>
        BY <1>7, <2>2 DEF CallCallback
      <3>. QED BY <2>1, <3>1, GoesOnStep
    <2>3. CASE client[sapCallback] # "dead"
      <3>1. /\ After(th)
            /\ answers' = IF rsp[th] = NULL THEN answers ELSE [answers EXCEPT ![rsp[th]] = @ + 1]
        BY <1>7, <2>3 DEF CallCallback
      <3>. QED BY <2>1, <3>1, AnswersStep
    <2>. QED BY <2>2, <2>3
  <1>8. ASSUME NEW th \in Threads, CheckAndDequeue(th) \/ FreeMsgHeader(th)
        PROVE  ObjectsInv'
    BY <1>8, DequeueStep, FreeMsgStep
  <1>9. CASE Crash
    BY <1>9, CrashStep
  <1>10. CASE UNCHANGED vars
    BY <1>10, QuietStep DEF vars, shared
  <1>. QED BY <1>1, <1>2, <1>3, <1>4, <1>5, <1>6, <1>7, <1>8, <1>9, <1>10
       DEF Next, BinderSteps, CallSteps

LEMMA SapHolds == ~TokensRestart => (Spec => []IInv)
  <1>. SUFFICES ASSUME ~TokensRestart PROVE Spec => []IInv
    OBVIOUS
  <1>1. IInv /\ UNCHANGED vars => TypeInv'
    BY DEF IInv, TypeInv, TypeOK, vars, shared, memory, binder, frames
  <1>2. IInv /\ [Next]_vars => IInv'
    BY <1>1, SapTypes, ObjectsStep DEF IInv
  <1>. QED BY <1>2, SapInitInv, PTL DEF Spec

-----------------------------------------------------------------------------
(* The theorems. *)

(* checkAndDequeue frees by id and token and the vendor names an address:   *)
(* even so every token the vendor holds is an allocated request, its own.  *)
THEOREM VendorTokensLive == ~TokensRestart => (Spec => []TokensAlive)
  <1>1. IInv => TokensAlive
    BY DEF IInv, ObjectsInv, VendorInv, MemoryInv, TokensAlive
  <1>. QED BY <1>1, SapHolds, PTL

(* A thread in onRequestComplete answers the request the vendor completed,   *)
(* from a message that it alone frees.                                      *)
THEOREM SapAnswersAreRight == ~TokensRestart => (Spec => []AnswersItsOwn)
  <1>1. IInv => AnswersItsOwn
    BY DEF IInv, ObjectsInv, CallInv, AnswerInv, AnswersItsOwn
  <1>. QED BY <1>1, SapHolds, PTL

(* No request is answered twice, neither by the vendor's threads nor by     *)
(* sendFailedResponse.                                                      *)
THEOREM SapAnsweredAtMostOnce == ~TokensRestart => (Spec => []OneAnswer)
  <1>1. IInv => OneAnswer
    BY DEF IInv, ObjectsInv, AnswerInv
  <1>. QED BY <1>1, SapHolds, PTL

(* Every allocated SapSocketRequest and MsgHeader is reached by someone who  *)
(* will free it, whatever allocation fails and whoever dies.               *)
THEOREM NoSapLeak == ~TokensRestart => (Spec => []NothingLeaked)
  <1>1. IInv => NothingLeaked
    BY DEF IInv, ObjectsInv
  <1>. QED BY <1>1, SapHolds, PTL

-----------------------------------------------------------------------------
(* No request is forgotten.  A client that sent one has registered, and so   *)
(* setCallback never brings back a client that is gone.                     *)

SentInv == \A r \in Sent : client[r.client] # "new"

LEMMA SentStep ==
  ASSUME TypeOK, SentInv, [Next]_vars
  PROVE  SentInv'
  <1>1. CASE \E r \in Requests : Encode(r) \/ EncodeFails(r)
    BY <1>1 DEF Encode, EncodeFails, Sends, SentInv, Sent
  <1>2. CASE \E c \in Clients : ClientDies(c) \/ SetCallback(c)
    <2>1. \A r \in Requests : r.client \in Clients
      BY DEF Requests
    <2>. QED BY <1>2, <2>1 DEF ClientDies, SetCallback, SentInv, Sent, TypeOK
  <1>3. CASE \/ BinderSteps \/ Crash \/ UNCHANGED vars
             \/ \E th \in Threads : VendorCompletes(th) \/ VendorIndicates(th) \/ CallSteps(th)
    <2>1. UNCHANGED <<unsent, client>>
      BY <1>3 DEF BinderSteps, Enqueue, EnqueueFails, OnRequest, OnRequestReturns, FreePayload,
         FailedReturns, Crash, VendorCompletes, VendorIndicates, CallSteps, NoResponse,
         ProcessResponse, CallCallback, CheckReturnStatus, CheckAndDequeue, FreeMsgHeader,
         shared, vars
    <2>. QED BY <2>1 DEF SentInv, Sent
  <1>. QED BY <1>1, <1>2, <1>3 DEF Next

LEMMA GoneStays ==
  ASSUME TypeOK, SentInv, [Next]_vars, NEW r \in Sent, Gone(r)
  PROVE  Gone(r)'
  <1>0. r.client \in Clients /\ r.client # NULL /\ client[r.client] # "new"
    BY NullDistinct DEF Requests, Sent, SentInv
  <1>1. ASSUME NEW c \in Clients, SetCallback(c) PROVE Gone(r)'
    BY <1>0, <1>1 DEF SetCallback, BinderAt, Gone, TypeOK
  <1>2. ASSUME NEW c \in Clients, ClientDies(c) PROVE Gone(r)'
    BY <1>0, <1>2 DEF ClientDies, Gone, TypeOK
  <1>3. CASE Crash
    BY <1>3 DEF Crash, Gone
  <1>4. ASSUME NEW th \in Threads, CheckReturnStatus(th) PROVE Gone(r)'
    BY <1>0, <1>4 DEF CheckReturnStatus, Gone
  <1>5. CASE \/ BinderSteps \/ UNCHANGED vars
             \/ \E q \in Requests : Encode(q) \/ EncodeFails(q)
             \/ \E th \in Threads : \/ VendorCompletes(th) \/ VendorIndicates(th)
                                    \/ NoResponse(th) \/ ProcessResponse(th) \/ CallCallback(th)
                                    \/ CheckAndDequeue(th) \/ FreeMsgHeader(th)
    <2>1. UNCHANGED <<rild, client, sapCallback>>
      BY <1>5 DEF BinderSteps, Enqueue, EnqueueFails, OnRequest, OnRequestReturns, FreePayload,
         FailedReturns, Encode, EncodeFails, Sends, VendorCompletes, VendorIndicates, NoResponse,
         ProcessResponse, CallCallback, CheckAndDequeue, FreeMsgHeader, shared, vars
    <2>. QED BY <2>1 DEF Gone
  <1>. QED BY <1>1, <1>2, <1>3, <1>4, <1>5 DEF Next, CallSteps

(* What has become of a request stays so. *)
Settled(r) == answers[r] > 0 \/ r \in dropped \/ Gone(r)

LEMMA SettledStays ==
  ASSUME TypeOK, SentInv, [Next]_vars, NEW r \in Sent, Settled(r)
  PROVE  Settled(r)'
  <1>1. r \in Requests /\ answers[r] \in Nat
    BY DEF Sent, TypeOK
  <1>2. dropped \subseteq dropped' /\ (answers[r] > 0 => answers'[r] > 0)
    <2>1. ASSUME NEW th \in Threads, CallCallback(th)
          PROVE  dropped \subseteq dropped' /\ (answers[r] > 0 => answers'[r] > 0)
      BY <1>1, <2>1 DEF CallCallback, TypeOK
    <2>2. CASE EnqueueFails \/ \E th \in Threads : NoResponse(th)
      BY <2>2 DEF EnqueueFails, NoResponse
    <2>3. CASE \/ UNCHANGED vars \/ Crash \/ Enqueue \/ OnRequest \/ OnRequestReturns
               \/ FreePayload \/ FailedReturns
               \/ \E c \in Clients : ClientDies(c) \/ SetCallback(c)
               \/ \E q \in Requests : Encode(q) \/ EncodeFails(q)
               \/ \E th \in Threads : \/ VendorCompletes(th) \/ VendorIndicates(th)
                                      \/ ProcessResponse(th) \/ CheckReturnStatus(th)
                                      \/ CheckAndDequeue(th) \/ FreeMsgHeader(th)
      BY <2>3 DEF Enqueue, OnRequest, OnRequestReturns, FreePayload, FailedReturns, Crash,
         ClientDies, SetCallback, Encode, EncodeFails, Sends, VendorCompletes, VendorIndicates,
         ProcessResponse, CheckReturnStatus, CheckAndDequeue, FreeMsgHeader, shared, vars
    <2>. QED BY <2>1, <2>2, <2>3 DEF Next, BinderSteps, CallSteps
  <1>. QED BY <1>2, GoneStays DEF Settled

(* The binder thread's request reaches the vendor or is dropped. *)
LEMMA BinderHands ==
  ASSUME IInv, [Next]_vars, NEW r \in Sent,
         bpc \in {"dispatch", "queued"}, msg[bmsg] = r
  PROVE  InHand(r)' \/ Settled(r)'
  <1>1. CASE Enqueue
    BY <1>1 DEF Enqueue, shared, frames, InHand
  <1>2. CASE EnqueueFails
    BY <1>2 DEF EnqueueFails, Settled
  <1>3. CASE OnRequest
    <2>1. <<currRequest, r>> \in vendor'
      BY <1>3 DEF OnRequest
    <2>. QED BY <2>1 DEF InHand
  <1>4. CASE Crash
    BY <1>4 DEF Crash, Settled, Gone
  <1>5. ASSUME NEW th \in Threads, VendorCompletes(th)
        PROVE  InHand(r)'
    BY <1>5 DEF VendorCompletes, binder, InHand
  <1>6. CASE \/ UNCHANGED vars
             \/ \E c \in Clients : ClientDies(c)
             \/ \E th \in Threads : VendorIndicates(th) \/ CallSteps(th)
    <2>1. UNCHANGED <<bpc, bmsg, msg>>
      BY <1>6 DEF ClientDies, VendorIndicates, CallSteps, NoResponse, ProcessResponse,
         CallCallback, CheckReturnStatus, CheckAndDequeue, FreeMsgHeader, binder, memory, vars
    <2>. QED BY <2>1 DEF InHand
  <1>7. /\ ~OnRequestReturns /\ ~FreePayload /\ ~FailedReturns
        /\ \A c \in Clients : ~SetCallback(c)
        /\ \A q \in Requests : ~Encode(q) /\ ~EncodeFails(q)
    BY DEF OnRequestReturns, FreePayload, FailedReturns, SetCallback, Encode, EncodeFails,
       Sends, BinderAt
  <1>. QED BY <1>1, <1>2, <1>3, <1>4, <1>5, <1>6, <1>7 DEF Next, BinderSteps

(* The vendor's request is in its hands until a thread calls back with it. *)
LEMMA VendorHands ==
  ASSUME IInv, [Next]_vars, NEW r \in Sent, NEW t \in vendor, t[2] = r
  PROVE  InHand(r)' \/ Settled(r)'
  <1>0. Ranges /\ msg[curr[t[1]]] = r
    BY DEF IInv, ObjectsInv, VendorInv, TypeInv, TypeOK, Ranges
  <1>1. ASSUME NEW th \in Threads, VendorCompletes(th)
        PROVE  InHand(r)'
    <2>1. PICK u \in vendor : /\ vendor' = vendor \ {u}
                              /\ rsp' = [rsp EXCEPT ![th] = msg[curr[u[1]]]]
      BY <1>1 DEF VendorCompletes
    <2>2. CASE u = t
      <3>1. rsp'[th] = r /\ pc'[th] = "respond"
        BY <1>0, <1>1, <2>1, <2>2 DEF VendorCompletes, Goto, Ranges
      <3>. QED BY <3>1 DEF InHand
    <2>3. CASE u # t
      BY <2>1, <2>3 DEF InHand
    <2>. QED BY <2>2, <2>3
  <1>2. CASE Crash
    BY <1>2 DEF Crash, Settled, Gone
  <1>3. CASE \/ UNCHANGED vars \/ BinderSteps
             \/ \E c \in Clients : ClientDies(c) \/ SetCallback(c)
             \/ \E q \in Requests : Encode(q) \/ EncodeFails(q)
             \/ \E th \in Threads : VendorIndicates(th) \/ CallSteps(th)
    <2>1. vendor \subseteq vendor'
      BY <1>3 DEF BinderSteps, Enqueue, EnqueueFails, OnRequest, OnRequestReturns, FreePayload,
         FailedReturns, ClientDies, SetCallback, Encode, EncodeFails, VendorIndicates, CallSteps,
         NoResponse, ProcessResponse, CallCallback, CheckReturnStatus, CheckAndDequeue,
         FreeMsgHeader, memory, vars
    <2>. QED BY <2>1 DEF InHand
  <1>. QED BY <1>1, <1>2, <1>3 DEF Next

(* A thread that has a response calls the client with it, unless there is no *)
(* memory or no client for it. *)
LEMMA ThreadHands ==
  ASSUME IInv, SentInv, [Next]_vars, NEW r \in Sent,
         NEW th \in Threads, pc[th] \in {"respond", "call"}, rsp[th] = r
  PROVE  InHand(r)' \/ Settled(r)'
  <1>0. Ranges /\ r \in Requests /\ r # NULL /\ r.client \in Clients /\ r.client # NULL
    BY NullDistinct DEF IInv, TypeInv, TypeOK, Ranges, Sent, Requests
  <1>1. CASE NoResponse(th)
    BY <1>1 DEF NoResponse, Settled
  <1>2. CASE ProcessResponse(th)
    <2>1. CASE sapCallback = NULL
      BY <1>0, <1>2, <2>1 DEF ProcessResponse, shared, Settled, Gone
    <2>2. CASE sapCallback # NULL
      BY <1>0, <1>2, <2>2 DEF ProcessResponse, Goto, InHand, Ranges
    <2>. QED BY <2>1, <2>2
  <1>3. CASE CallCallback(th)
    <2>1. CASE client[sapCallback] = "dead"
      <3>1. UNCHANGED <<client, sapCallback>> /\ (sapCallback = r.client => client[r.client] = "dead")
        BY <1>3, <2>1 DEF CallCallback
      <3>. QED BY <3>1 DEF Settled, Gone
    <2>2. CASE client[sapCallback] # "dead"
      <3>1. answers' = [answers EXCEPT ![r] = @ + 1]
        BY <1>0, <1>3, <2>2 DEF CallCallback
      <3>. QED BY <1>0, <3>1 DEF Settled, Ranges
    <2>. QED BY <2>1, <2>2
  <1>4. CASE Crash
    BY <1>4 DEF Crash, Settled, Gone
  <1>5. ASSUME NEW o \in Threads,
               \/ VendorCompletes(o) \/ VendorIndicates(o)
               \/ o # th /\ (NoResponse(o) \/ ProcessResponse(o) \/ CallCallback(o))
               \/ CheckReturnStatus(o) \/ CheckAndDequeue(o) \/ FreeMsgHeader(o)
        PROVE  InHand(r)'
    <2>1. o # th
      BY <1>5 DEF VendorCompletes, VendorIndicates, MayCall, CheckReturnStatus,
         CheckAndDequeue, FreeMsgHeader, At
    <2>2. pc'[th] = pc[th] /\ rsp'[th] = rsp[th]
      BY <1>0, <1>5, <2>1 DEF Ranges, VendorCompletes, VendorIndicates, NoResponse,
         ProcessResponse, CallCallback, CheckReturnStatus, CheckAndDequeue, FreeMsgHeader,
         After, Finish, Goto
    <2>. QED BY <2>2 DEF InHand
  <1>6. ASSUME NEW q \in Requests, Encode(q) \/ EncodeFails(q)
        PROVE  InHand(r)'
    <2>1. pc'[th] = pc[th] /\ rsp'[th] = rsp[th]
      BY <1>0, <1>6 DEF Ranges, Encode, EncodeFails, Sends, BinderAt, Goto, frames
    <2>. QED BY <2>1 DEF InHand
  <1>7. CASE \/ UNCHANGED vars \/ BinderSteps
             \/ \E c \in Clients : ClientDies(c) \/ SetCallback(c)
    <2>1. UNCHANGED <<pc, rsp>>
      BY <1>7 DEF BinderSteps, Enqueue, EnqueueFails, OnRequest, OnRequestReturns, FreePayload,
         FailedReturns, ClientDies, SetCallback, frames, vars
    <2>. QED BY <2>1 DEF InHand
  <1>. QED BY <1>1, <1>2, <1>3, <1>4, <1>5, <1>6, <1>7 DEF Next, CallSteps

(* A request that is sent is at once with the binder thread. *)
LEMMA SentInHand ==
  ASSUME TypeOK, NEW r \in Requests, Encode(r) \/ EncodeFails(r)
  PROVE  InHand(r)' /\ unsent' = unsent \ {r}
  <1>1. CASE Encode(r)
    <2>1. PICK m \in Msgs : msg' = [msg EXCEPT ![m] = r] /\ bmsg' = m
      BY <1>1 DEF Encode
    <2>. QED BY <1>1, <2>1 DEF Encode, Sends, InHand, TypeOK
  <1>2. CASE EncodeFails(r)
    <2>1. pc'[Binder] = "call" /\ rsp'[Binder] = r /\ Binder \in Threads
      BY <1>2 DEF EncodeFails, Goto, TypeOK, Threads
    <2>. QED BY <1>2, <2>1 DEF EncodeFails, Sends, InHand
  <1>. QED BY <1>1, <1>2

LEMMA ForgottenStep ==
  ASSUME IInv, SentInv, NoRequestForgotten, [Next]_vars
  PROVE  NoRequestForgotten'
  <1>. SUFFICES ASSUME NEW r \in Requests \ unsent'
                PROVE  InHand(r)' \/ Settled(r)'
    BY DEF NoRequestForgotten, Settled
  <1>0. TypeOK
    BY DEF IInv, TypeInv
  <1>1. CASE r \in Sent
    <2>1. CASE Settled(r)
      BY <1>0, <1>1, <2>1, SettledStays
    <2>2. CASE InHand(r)
      BY <1>1, <2>2, BinderHands, VendorHands, ThreadHands DEF InHand
    <2>. QED BY <1>1, <2>1, <2>2 DEF NoRequestForgotten, Settled, Sent
  <1>2. CASE r \notin Sent
    <2>1. \E q \in Requests : Encode(q) \/ EncodeFails(q)
      <3>1. ASSUME \/ BinderSteps \/ Crash \/ UNCHANGED vars
                   \/ \E c \in Clients : ClientDies(c) \/ SetCallback(c)
                   \/ \E th \in Threads : VendorCompletes(th) \/ VendorIndicates(th) \/ CallSteps(th)
            PROVE  unsent' = unsent
        BY <3>1 DEF BinderSteps, Enqueue, EnqueueFails, OnRequest, OnRequestReturns, FreePayload,
           FailedReturns, Crash, ClientDies, SetCallback, VendorCompletes, VendorIndicates,
           CallSteps, NoResponse, ProcessResponse, CallCallback, CheckReturnStatus,
           CheckAndDequeue, FreeMsgHeader, shared, vars
      <3>. QED BY <1>2, <3>1 DEF Next, Sent
    <2>2. PICK q \in Requests : Encode(q) \/ EncodeFails(q)
      BY <2>1
    <2>3. InHand(q)' /\ unsent' = unsent \ {q}
      BY <1>0, <2>2, SentInHand
    <2>. QED BY <1>2, <2>3 DEF Sent
  <1>. QED BY <1>1, <1>2

(* A sent request whose client is still there is answered, lost for want of *)
(* memory, or on its way: with the binder thread, the vendor or a thread    *)
(* that will call back with it.                                             *)
THEOREM NoSapRequestForgotten == ~TokensRestart => (Spec => []NoRequestForgotten)
  <1>. SUFFICES ASSUME ~TokensRestart PROVE Spec => []NoRequestForgotten
    OBVIOUS
  <1>1. Init => SentInv /\ NoRequestForgotten
    BY DEF Init, SentInv, Sent, NoRequestForgotten
  <1>2. IInv /\ SentInv /\ NoRequestForgotten /\ [Next]_vars
        => SentInv' /\ NoRequestForgotten'
    BY SentStep, ForgottenStep DEF IInv, TypeInv
  <1>. QED BY <1>1, <1>2, SapHolds, PTL DEF Spec

-----------------------------------------------------------------------------
(* The service the clients see. *)

(* An answer is the first to a request that was sent; every other step sends *)
(* one request or changes neither.                                          *)
LEMMA ServiceStep ==
  ASSUME IInv, [Next]_vars
  PROVE  [Abstract!Next]_(Abstract!vars)
  <1>1. ASSUME NEW r \in Requests, r \in unsent, unsent' = unsent \ {r}, answers' = answers
        PROVE  Abstract!Next
    <2>1. Requests \ unsent' = (Requests \ unsent) \cup {r}
      BY <1>1
    <2>. QED BY <1>1, <2>1 DEF Abstract!Next, Abstract!Send
  <1>2. ASSUME NEW r \in Sent, answers[r] = 0, unsent' = unsent,
               answers' = [answers EXCEPT ![r] = @ + 1]
        PROVE  Abstract!Next
    <2>1. r \in Requests \ unsent /\ Requests \ unsent' = Requests \ unsent
      BY <1>2 DEF Sent
    <2>2. answers[r] + 1 = 1 /\ answers' = [answers EXCEPT ![r] = answers[r] + 1]
      BY <1>2
    <2>3. answers[r] = 0 /\ answers' = [answers EXCEPT ![r] = 1]
      BY <1>2, <2>2
    <2>4. r \in Requests /\ Abstract!Answer(r)
      BY <2>1, <2>3 DEF Abstract!Answer
    <2>. QED BY <2>4 DEF Abstract!Next
  <1>3. ASSUME unsent' = unsent, answers' = answers PROVE UNCHANGED Abstract!vars
    BY <1>3 DEF Abstract!vars
  <1>4. ASSUME NEW r \in Requests, Encode(r) \/ EncodeFails(r) PROVE Abstract!Next
    BY <1>1, <1>4 DEF Encode, EncodeFails, Sends
  <1>5. ASSUME NEW th \in Threads, CallCallback(th) PROVE [Abstract!Next]_(Abstract!vars)
    <2>1. unsent' = unsent /\ pc[th] = "call"
      BY <1>5 DEF CallCallback, At
    <2>2. CASE rsp[th] = NULL \/ client[sapCallback] = "dead"
      BY <1>3, <1>5, <2>1, <2>2 DEF CallCallback
    <2>3. CASE rsp[th] # NULL /\ client[sapCallback] # "dead"
      <3>1. answers' = [answers EXCEPT ![rsp[th]] = @ + 1]
        BY <1>5, <2>3 DEF CallCallback
      <3>2. rsp[th] \in Sent /\ answers[rsp[th]] = 0
        <4>1. CASE hdr[th] = NULL
          BY <2>3, <4>1 DEF IInv, ObjectsInv, FailInv
        <4>2. CASE hdr[th] # NULL
          <5>1. /\ hdr[th] \in msgHeap /\ rsp[th] = msg[hdr[th]]
                /\ \A o \in Threads \ {th} : hdr[o] # hdr[th]
            BY <4>2 DEF IInv, ObjectsInv, CallInv
          <5>2. msg[hdr[th]] \in Sent
            BY <5>1 DEF IInv, ObjectsInv, MemoryInv
          <5>3. \/ answers[msg[hdr[th]]] = 0
                \/ \E o \in Threads : hdr[o] = hdr[th] /\ pc[o] \in {"dequeue", "freeHdr"}
            BY <5>1 DEF IInv, ObjectsInv, AnswerInv
          <5>. QED BY <2>1, <5>1, <5>2, <5>3
        <4>. QED BY <4>1, <4>2
      <3>. QED BY <1>2, <2>1, <3>1, <3>2
    <2>. QED BY <2>2, <2>3
  <1>6. ASSUME \/ \E c \in Clients : ClientDies(c) \/ SetCallback(c)
               \/ BinderSteps \/ Crash
               \/ \E th \in Threads : \/ VendorCompletes(th) \/ VendorIndicates(th)
                                      \/ NoResponse(th) \/ ProcessResponse(th)
                                      \/ CheckReturnStatus(th) \/ CheckAndDequeue(th)
                                      \/ FreeMsgHeader(th)
               \/ UNCHANGED vars
        PROVE  unsent' = unsent /\ answers' = answers
    BY <1>6 DEF ClientDies, SetCallback, BinderSteps, Enqueue, EnqueueFails, OnRequest,
       OnRequestReturns, FreePayload, FailedReturns, Crash, VendorCompletes, VendorIndicates,
       NoResponse, ProcessResponse, CheckReturnStatus, CheckAndDequeue, FreeMsgHeader,
       shared, vars
  <1>. QED BY <1>3, <1>4, <1>5, <1>6 DEF Next, CallSteps

(* However its memory and its callback are shared, the SIM access service    *)
(* answers each request that was sent, and answers it once.                 *)
THEOREM SapIsRequestService == ~TokensRestart => (Spec => ImplementsRequestService)
  <1>. SUFFICES ASSUME ~TokensRestart PROVE Spec => ImplementsRequestService
    OBVIOUS
  <1>1. Init => Abstract!Init
    BY DEF Init, Abstract!Init
  <1>2. IInv /\ [Next]_vars => [Abstract!Next]_(Abstract!vars)
    BY ServiceStep
  <1>. QED BY <1>1, <1>2, SapHolds, PTL DEF Spec, ImplementsRequestService, Abstract!Spec

=============================================================================
