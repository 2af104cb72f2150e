----------------------------- MODULE SapService ------------------------------
(***************************************************************************)
(* The SIM access profile service of libril, one SIM slot.  A request of   *)
(* the Bluetooth process arrives on the one binder thread; createMsgHeader *)
(* and dispatchRequest allocate a MsgHeader and a SapSocketRequest for it, *)
(* pendingResponseQueue keeps the latter, and the vendor gets its address  *)
(* as RIL_Token.  OnRequestComplete looks the request up again by message  *)
(* id and token, not by address, and frees both objects.                   *)
(*                                                                         *)
(* Nothing here takes a lock but the queue.  A freed object keeps its      *)
(* content until its address is allocated again, or was reused by another  *)
(* allocation of the process: using it goes on with the old content, or    *)
(* crashes rild (Crash).                                                   *)
(*                                                                         *)
(* Source: libril/sap_service.cpp, RilSapSocket.cpp, rilSocketQueue.h.     *)
(***************************************************************************)
EXTENDS Naturals, Sequences, SequencesExt

CONSTANTS
    MaxClients,      \* bound: processes hosting the ISapCallback, one after another
    Ids, Tokens,     \* message ids and the tokens clients number requests with
    Addrs,           \* addresses of SapSocketRequest objects
    Msgs,            \* addresses of MsgHeader objects
    VendorThreads,
    Binder,
    NULL,
    TokensRestart,   \* a new client process numbers its requests like the last
    MaxUnsol         \* bound: unsolicited responses of the vendor

ASSUME NamesDistinct == Binder \notin VendorThreads /\ NULL \notin Addrs \cup Msgs
ASSUME BoundsOK == TokensRestart \in BOOLEAN /\ MaxUnsol \in Nat /\ MaxClients \in Nat

VARIABLES
    rild,            \* "up" or "crashed"
    client,          \* each client process: "new", "registered", "dead"
    unsent,          \* requests not sent yet
    sapCallback,     \* the client behind sapImpl->sapCallback, or NULL
    pendingResponseQueue,  \* addresses, front first
    reqHeap, curr,   \* allocated SapSocketRequests; request->curr
    msgHeap, msg,    \* allocated MsgHeaders; id and token of a MsgHeader
    vendor,          \* tokens the vendor holds, with the request each was given for
    bpc, bmsg, currRequest,  \* the binder thread in addPayloadAndDispatchRequest
    pc, hdr, rsp,    \* a thread in onRequestComplete: place, MsgHeader, response
    about,           \* the request the vendor completes by the call
    answers,         \* responses a client process got to each request
    dropped,         \* history: requests lost for want of memory
    unsols           \* unsolicited responses so far

shared == <<client, unsent, sapCallback, answers, dropped, unsols>>
memory == <<pendingResponseQueue, reqHeap, curr, msgHeap, msg, vendor>>
binder == <<bpc, bmsg, currRequest>>
frames == <<pc, hdr, rsp, about>>
vars == <<rild, shared, memory, binder, frames>>

Threads == VendorThreads \cup {Binder}

Clients == 1..MaxClients

Requests == [client : Clients, id : Ids, token : Tokens]

ASSUME NullDistinct == NULL \notin Clients \cup Requests

SameKey(r, s) == r.id = s.id /\ r.token = s.token

Init ==
    /\ sapCallback = NULL
    /\ pendingResponseQueue = <<>>
    /\ reqHeap = {} /\ curr = [a \in Addrs |-> NULL]
    /\ msgHeap = {} /\ msg = [m \in Msgs |-> NULL]
    /\ vendor = {}
    /\ bpc = "idle" /\ bmsg = NULL /\ currRequest = NULL
    /\ pc = [th \in Threads |-> "idle"]
    /\ hdr = [th \in Threads |-> NULL]
    /\ rsp = [th \in Threads |-> NULL]
    /\ about = [th \in Threads |-> NULL]
    /\ rild = "up"
    /\ client = [c \in Clients |-> "new"]
    /\ unsent = Requests
    /\ answers = [r \in Requests |-> 0]
    /\ dropped = {} /\ unsols = 0

At(th, place) == rild = "up" /\ pc[th] = place
Goto(th, place) == pc' = [pc EXCEPT ![th] = place]
BinderAt(place) == rild = "up" /\ bpc = place /\ pc[Binder] = "idle"

Finish(th) ==
    /\ Goto(th, "idle")
    /\ hdr' = [hdr EXCEPT ![th] = NULL]
    /\ rsp' = [rsp EXCEPT ![th] = NULL]
    /\ about' = [about EXCEPT ![th] = NULL]

-----------------------------------------------------------------------------
(* The client processes: each registers its callback first; init starts the
   next one when it has died. *)

ClientDies(c) ==
    /\ client[c] = "registered"
    /\ client' = [client EXCEPT ![c] = "dead"]
    /\ UNCHANGED <<rild, unsent, sapCallback, answers, dropped, unsols, memory, binder, frames>>

SetCallback(c) ==
    /\ BinderAt("idle")
    /\ client[c] = "new" /\ \A d \in 1..(c - 1) : client[d] = "dead"
    /\ client' = [client EXCEPT ![c] = "registered"]
    /\ sapCallback' = c
    /\ UNCHANGED <<rild, unsent, answers, dropped, unsols, memory, binder, frames>>

-----------------------------------------------------------------------------
(* A request on the binder thread. *)

Sends(r) ==
    /\ BinderAt("idle")
    /\ r \in unsent /\ client[r.client] = "registered"
    /\ TokensRestart \/ \A s \in Requests \ unsent : ~SameKey(r, s)
    /\ unsent' = unsent \ {r}

(* connectReq ... setTransferProtocolReq: the MsgHeader, the encoded arguments
   and the payload could be allocated. *)
Encode(r) ==
    /\ Sends(r)
    /\ \E m \in Msgs \ msgHeap :
          /\ msgHeap' = msgHeap \cup {m}
          /\ msg' = [msg EXCEPT ![m] = r]
          /\ bmsg' = m
    /\ bpc' = "dispatch"
    /\ UNCHANGED <<rild, client, sapCallback, answers, dropped, unsols,
                   pendingResponseQueue, reqHeap, curr, vendor, currRequest, frames>>

(* Mutants: the return after sendFailedResponse is missing; no answer is sent. *)
EncodeFailsNoReturn(r) ==
    /\ Sends(r)
    /\ \E m \in Msgs \ msgHeap :
          /\ msgHeap' = msgHeap \cup {m} /\ msg' = [msg EXCEPT ![m] = r] /\ bmsg' = m
    /\ bpc' = "dispatch"
    /\ Goto(Binder, "call")
    /\ rsp' = [rsp EXCEPT ![Binder] = r] /\ about' = [about EXCEPT ![Binder] = r]
    /\ UNCHANGED <<rild, client, sapCallback, answers, dropped, unsols,
                   pendingResponseQueue, reqHeap, curr, vendor, currRequest, hdr>>

EncodeFailsSilent(r) ==
    /\ Sends(r)
    /\ UNCHANGED <<rild, client, sapCallback, answers, dropped, unsols, memory, binder, frames>>

(* They could not: sendFailedResponse frees what there is and answers. *)
EncodeFails(r) ==
    /\ Sends(r)
    /\ bpc' = "failing"
    /\ Goto(Binder, "call")
    /\ rsp' = [rsp EXCEPT ![Binder] = r]
    /\ about' = [about EXCEPT ![Binder] = r]
    /\ UNCHANGED <<rild, client, sapCallback, answers, dropped, unsols, memory, bmsg, currRequest, hdr>>

(* dispatchRequest: the SapSocketRequest goes to the front of the queue. *)
Enqueue ==
    /\ BinderAt("dispatch")
    /\ \E a \in Addrs \ reqHeap :
          /\ reqHeap' = reqHeap \cup {a}
          /\ curr' = [curr EXCEPT ![a] = bmsg]
          /\ pendingResponseQueue' = <<a>> \o pendingResponseQueue
          /\ currRequest' = a
    /\ bpc' = "queued"
    /\ UNCHANGED <<rild, shared, msgHeap, msg, vendor, bmsg, frames>>

(* Mutant: the MsgHeader is not freed. *)
EnqueueFailsLeaks ==
    /\ BinderAt("dispatch")
    /\ dropped' = dropped \cup {msg[bmsg]}
    /\ bpc' = "free"
    /\ UNCHANGED <<rild, client, unsent, sapCallback, answers, unsols, memory, bmsg, currRequest, frames>>

(* dispatchRequest: no memory for it; the MsgHeader is freed, nobody answers. *)
EnqueueFails ==
    /\ BinderAt("dispatch")
    /\ msgHeap' = msgHeap \ {bmsg}
    /\ dropped' = dropped \cup {msg[bmsg]}
    /\ bpc' = "free"
    /\ UNCHANGED <<rild, client, unsent, sapCallback, answers, unsols, pendingResponseQueue,
                   reqHeap, curr, msg, vendor, bmsg, currRequest, frames>>

(* uimFuncs->onRequest is called with the SapSocketRequest as the token. *)
OnRequest ==
    /\ BinderAt("queued")
    /\ vendor' = vendor \cup {<<currRequest, msg[bmsg]>>}
    /\ currRequest' = NULL
    /\ bpc' = "inVendor"
    /\ UNCHANGED <<rild, shared, pendingResponseQueue, reqHeap, curr, msgHeap, msg, bmsg, frames>>

OnRequestReturns ==
    /\ BinderAt("inVendor")
    /\ bpc' = "free"
    /\ UNCHANGED <<rild, shared, memory, bmsg, currRequest, frames>>

(* Mutant: the MsgHeader is freed with its payload. *)
FreePayloadAndMsg ==
    /\ BinderAt("free")
    /\ msgHeap' = msgHeap \ {bmsg}
    /\ bpc' = "idle" /\ bmsg' = NULL
    /\ UNCHANGED <<rild, shared, pendingResponseQueue, reqHeap, curr, msg, vendor, currRequest, frames>>

(* free(msg->payload), whether or not msg is still allocated. *)
FreePayload ==
    /\ BinderAt("free")
    /\ bpc' = "idle" /\ bmsg' = NULL
    /\ UNCHANGED <<rild, shared, memory, currRequest, frames>>

(* A request that failed has nothing left to free. *)
FailedReturns ==
    /\ BinderAt("failing")
    /\ bpc' = "idle"
    /\ UNCHANGED <<rild, shared, memory, bmsg, currRequest, frames>>

-----------------------------------------------------------------------------
(* The vendor's calls, on its own threads or inside onRequest. *)

MayCall(th) == At(th, "idle") /\ (th = Binder => bpc = "inVendor")

(* sOnRequestComplete, onRequestComplete: the response is built from
   request->curr. *)
VendorCompletes(th) ==
    /\ MayCall(th)
    /\ \E t \in vendor :
          /\ vendor' = vendor \ {t}
          /\ hdr' = [hdr EXCEPT ![th] = curr[t[1]]]
          /\ rsp' = [rsp EXCEPT ![th] = msg[curr[t[1]]]]
          /\ about' = [about EXCEPT ![th] = t[2]]
    /\ Goto(th, "respond")
    /\ UNCHANGED <<rild, shared, pendingResponseQueue, reqHeap, curr, msgHeap, msg, binder>>

(* onUnsolicitedResponse: the same way to the callback without a request. *)
VendorIndicates(th) ==
    /\ MayCall(th)
    /\ unsols < MaxUnsol /\ unsols' = unsols + 1
    /\ Goto(th, "respond")
    /\ UNCHANGED <<rild, client, unsent, sapCallback, answers, dropped, memory, binder, hdr, rsp, about>>

After(th) == IF hdr[th] = NULL THEN Finish(th) ELSE Goto(th, "dequeue") /\ UNCHANGED <<hdr, rsp, about>>

(* onRequestComplete has no memory for the response: no answer, but the request
   is freed. *)
NoResponse(th) ==
    /\ At(th, "respond") /\ hdr[th] # NULL
    /\ dropped' = dropped \cup {rsp[th]}
    /\ After(th)
    /\ UNCHANGED <<rild, client, unsent, sapCallback, answers, unsols, memory, binder>>

(* Mutant: a response that cannot be decoded is not answered as failed. *)
ProcessResponseUndecoded(th) ==
    /\ At(th, "respond")
    /\ \/ After(th)
       \/ sapCallback # NULL /\ Goto(th, "call") /\ UNCHANGED <<hdr, rsp, about>>
    /\ UNCHANGED <<rild, shared, memory, binder>>

(* processResponse tests sapCallback once ... *)
ProcessResponse(th) ==
    /\ At(th, "respond")
    /\ IF sapCallback = NULL THEN After(th)
       ELSE Goto(th, "call") /\ UNCHANGED <<hdr, rsp, about>>
    /\ UNCHANGED <<rild, shared, memory, binder>>

(* ... and reads it again for the call; so does sendFailedResponse, untested.
   What the response says (decoded, converted or a failure) is left out; so is
   the token that goes with it, which onUnsolicitedResponse leaves undefined: an
   indication that cannot be decoded would go out as a failed response with it. *)
CallCallback(th) ==
    /\ At(th, "call") /\ sapCallback # NULL
    /\ IF client[sapCallback] = "dead"
       THEN Goto(th, "reset") /\ UNCHANGED <<hdr, rsp, about, answers>>
       ELSE /\ After(th)
            /\ answers' = IF rsp[th] = NULL THEN answers
                          ELSE [answers EXCEPT ![rsp[th]] = @ + 1]
    /\ UNCHANGED <<rild, client, unsent, sapCallback, dropped, unsols, memory, binder>>

(* checkReturnStatus of a call that failed. *)
CheckReturnStatus(th) ==
    /\ At(th, "reset")
    /\ sapCallback' = NULL
    /\ After(th)
    /\ UNCHANGED <<rild, client, unsent, answers, dropped, unsols, memory, binder>>

Matches(a, m) == SameKey(msg[curr[a]], msg[m])

(* Mutant: the token is not compared. *)
CheckAndDequeueId(th) ==
    /\ At(th, "dequeue")
    /\ LET i == SelectInSeq(pendingResponseQueue, LAMBDA a : msg[curr[a]].id = msg[hdr[th]].id) IN
       IF i = 0 THEN UNCHANGED <<pendingResponseQueue, reqHeap>>
       ELSE /\ reqHeap' = reqHeap \ {pendingResponseQueue[i]}
            /\ pendingResponseQueue' = RemoveAt(pendingResponseQueue, i)
    /\ Goto(th, "freeHdr")
    /\ UNCHANGED <<rild, shared, curr, msgHeap, msg, vendor, binder, hdr, rsp, about>>

(* checkAndDequeue: the first entry with the id and the token is taken off and
   freed, one critical section; without one nothing happens. *)
CheckAndDequeue(th) ==
    /\ At(th, "dequeue")
    /\ LET i == SelectInSeq(pendingResponseQueue, LAMBDA a : Matches(a, hdr[th])) IN
       IF i = 0 THEN UNCHANGED <<pendingResponseQueue, reqHeap>>
       ELSE /\ reqHeap' = reqHeap \ {pendingResponseQueue[i]}
            /\ pendingResponseQueue' = RemoveAt(pendingResponseQueue, i)
    /\ Goto(th, "freeHdr")
    /\ UNCHANGED <<rild, shared, curr, msgHeap, msg, vendor, binder, hdr, rsp, about>>

FreeMsgHeader(th) ==
    /\ At(th, "freeHdr")
    /\ msgHeap' = msgHeap \ {hdr[th]}
    /\ Finish(th)
    /\ UNCHANGED <<rild, shared, pendingResponseQueue, reqHeap, curr, msg, vendor, binder>>

-----------------------------------------------------------------------------
(* A step that uses memory it does not own, or the callback that is gone, may
   end the process (init starts it again: Init). *)

Misuse ==
    \/ bpc = "free" /\ bmsg \notin msgHeap
    \/ \E th \in Threads : pc[th] = "call" /\ sapCallback = NULL
    \/ \E t \in vendor : t[1] \notin reqHeap \/ curr[t[1]] \notin msgHeap
    \/ \E th \in Threads : hdr[th] # NULL /\ hdr[th] \notin msgHeap
    \/ \E th \in Threads, a \in Addrs : pc[th] = "dequeue" /\ a \in reqHeap /\ curr[a] \notin msgHeap

Crash ==
    /\ rild = "up" /\ Misuse
    /\ rild' = "crashed"
    /\ sapCallback' = NULL
    /\ pendingResponseQueue' = <<>>
    /\ reqHeap' = {} /\ curr' = [a \in Addrs |-> NULL]
    /\ msgHeap' = {} /\ msg' = [m \in Msgs |-> NULL]
    /\ vendor' = {}
    /\ bpc' = "idle" /\ bmsg' = NULL /\ currRequest' = NULL
    /\ pc' = [th \in Threads |-> "idle"]
    /\ hdr' = [th \in Threads |-> NULL]
    /\ rsp' = [th \in Threads |-> NULL]
    /\ about' = [th \in Threads |-> NULL]
    /\ UNCHANGED <<client, unsent, answers, dropped, unsols>>

BinderSteps == Enqueue \/ EnqueueFails \/ OnRequest \/ OnRequestReturns
               \/ FreePayload \/ FailedReturns

CallSteps(th) == NoResponse(th) \/ ProcessResponse(th) \/ CallCallback(th) \/ CheckReturnStatus(th)
                 \/ CheckAndDequeue(th) \/ FreeMsgHeader(th)

Next ==
    \/ \E c \in Clients : ClientDies(c) \/ SetCallback(c)
    \/ \E r \in Requests : Encode(r) \/ EncodeFails(r)
    \/ BinderSteps
    \/ \E th \in Threads : VendorCompletes(th) \/ VendorIndicates(th) \/ CallSteps(th)
    \/ Crash

Spec == Init /\ [][Next]_vars

(* Threads inside libril go on, a call through a callback that is gone crashes,
   and the vendor completes every request (strong: its threads may be busy). *)
FairSpec ==
    /\ Spec
    /\ WF_vars(BinderSteps) /\ WF_vars(Crash)
    /\ \A th \in Threads : WF_vars(CallSteps(th))
    /\ SF_vars(\E th \in Threads : VendorCompletes(th))

-----------------------------------------------------------------------------
(* Properties. *)

(* Ranges; the queue holds the allocated SapSocketRequests, each once. *)
TypeOK ==
    /\ rild \in {"up", "crashed"}
    /\ client \in [Clients -> {"new", "registered", "dead"}]
    /\ unsent \subseteq Requests /\ sapCallback \in Clients \cup {NULL}
    /\ ToSet(pendingResponseQueue) = reqHeap /\ IsInjective(pendingResponseQueue)
    /\ reqHeap \subseteq Addrs /\ curr \in [Addrs -> Msgs \cup {NULL}]
    /\ msgHeap \subseteq Msgs /\ msg \in [Msgs -> Requests \cup {NULL}]
    /\ vendor \subseteq Addrs \X Requests
    /\ bpc \in {"idle", "dispatch", "queued", "inVendor", "free", "failing"}
    /\ bmsg \in Msgs \cup {NULL} /\ currRequest \in Addrs \cup {NULL}
    /\ pc \in [Threads -> {"idle", "respond", "call", "reset", "dequeue", "freeHdr"}]
    /\ hdr \in [Threads -> Msgs \cup {NULL}]
    /\ rsp \in [Threads -> Requests \cup {NULL}] /\ about \in [Threads -> Requests \cup {NULL}]
    /\ answers \in [Requests -> Nat] /\ dropped \subseteq Requests /\ unsols \in 0..MaxUnsol

(* checkAndDequeue frees by id and token and the vendor names an address: every
   token the vendor holds is an allocated request, its own, with its message. *)
TokensAlive == \A t \in vendor :
    /\ t[1] \in reqHeap
    /\ curr[t[1]] \in msgHeap
    /\ msg[curr[t[1]]] = t[2]

(* The client gets the response to the request the vendor completed, from a
   message no other thread frees. *)
AnswersItsOwn == \A th \in Threads : hdr[th] # NULL =>
    /\ rsp[th] = about[th]
    /\ hdr[th] \in msgHeap
    /\ \A o \in Threads \ {th} : hdr[o] # hdr[th]

(* A request is answered at most once: by sendFailedResponse or by the vendor. *)
OneAnswer == \A r \in Requests : answers[r] <= 1

(* For the Bluetooth processes, with requests looked up by id and token and a
   callback that changes hands, it is a service that answers a sent request once. *)
Abstract == INSTANCE RequestService WITH sent <- Requests \ unsent
ImplementsRequestService == Abstract!Spec

(* Every allocated object is reached by someone who will free it. *)
NothingLeaked ==
    /\ \A m \in msgHeap :
          \/ \E a \in reqHeap : curr[a] = m
          \/ bpc = "dispatch" /\ bmsg = m
          \/ \E th \in Threads : hdr[th] = m
    /\ \A a \in reqHeap :
          \/ \E t \in vendor : t[1] = a
          \/ currRequest = a
          \/ \E th \in Threads : hdr[th] # NULL /\ hdr[th] = curr[a]

(* Nothing more comes to the client: rild or the client died, or its callback is
   no longer the one registered. *)
Gone(r) == rild = "crashed" \/ client[r.client] = "dead" \/ sapCallback # r.client

(* The binder thread has it before onRequest, the vendor, or a thread that is
   about to call back with the response to it. *)
InHand(r) ==
    \/ bpc \in {"dispatch", "queued"} /\ msg[bmsg] = r
    \/ \E t \in vendor : t[2] = r
    \/ \E th \in Threads : pc[th] \in {"respond", "call"} /\ rsp[th] = r

(* No path of the service ends a request without a response to a client that is
   still there, but the two where memory ran out and the code does not say so. *)
NoRequestForgotten == \A r \in Requests \ unsent :
    answers[r] > 0 \/ r \in dropped \/ Gone(r) \/ InHand(r)

(* And so a request the service got is answered in the end. *)
EveryRequestAnswered == \A r \in Requests :
    r \notin unsent ~> (answers[r] > 0 \/ r \in dropped \/ Gone(r))

(* checkReturnStatus: "Remote process (SapRilReceiver.java) hosting the callback
   must be dead. Reset the callback object": a callback that is reset belongs to
   a process that died. *)
ResetsDeadCallback ==
    [][\A c \in Clients : sapCallback = c /\ sapCallback' = NULL /\ rild' = "up" => client[c] = "dead"]_vars
=============================================================================
