---------------------------- MODULE RilRequests -----------------------------
(***************************************************************************)
(* The pending requests of libril: a request of the framework arrives on   *)
(* the one binder thread, gets a RequestInfo on s_pendingRequests and is   *)
(* handed to the vendor RIL, whose threads acknowledge and complete it.    *)
(* The RIL_Token the vendor gets IS the address of the RequestInfo, and    *)
(* the list is searched by address; a freed address is handed out again.   *)
(*                                                                         *)
(* Source: libril/ril.cpp (addRequestToList, checkAndDequeueRequestInfo-   *)
(* IfAck, RIL_onRequestAck, RIL_onRequestComplete) and the dispatch        *)
(* helpers and request methods of libril/ril_service.cpp, which differ     *)
(* only in how they marshal their arguments.                               *)
(***************************************************************************)
EXTENDS Integers, FiniteSets

CONSTANTS
    Serials,            \* requests of the framework, each sent once
    Addrs,              \* addresses calloc hands out for RequestInfo
    VendorThreads,      \* threads of the vendor RIL
    Binder,             \* the thread of configureRpcThreadpool(1, true)
    NULL,
    ManualSelection,    \* serials of RIL_REQUEST_SET_NETWORK_SELECTION_MANUAL
    MarshalFails,       \* calloc may fail, and copying the arguments
    VendorAnswersAll    \* the vendor also completes ManualSelection requests

ASSUME NamesDistinct == Binder \notin VendorThreads /\ NULL \notin Addrs \cup Serials
ASSUME ManualOK == ManualSelection \subseteq Serials
ASSUME SwitchesOK == MarshalFails \in BOOLEAN /\ VendorAnswersAll \in BOOLEAN

VARIABLES
    unsent,             \* serials the framework has not sent yet
    s_pendingRequests,  \* the list, as the set of its addresses
    heap,               \* addresses of allocated RequestInfo objects
    token,              \* pRI->token of the object at an address (stays after free)
    wasAckSent,         \* pRI->wasAckSent
    vendor,             \* tokens the vendor holds: <<address, serial>>
    toAck,              \* those it may still acknowledge
    pc,                 \* where each thread is
    pRI,                \* the RequestInfo a thread works on
    call,               \* the serial the thread's call is about
    answers, acks       \* [Serials -> number of responses, acknowledgements sent]

vars == <<unsent, s_pendingRequests, heap, token, wasAckSent, vendor, toAck,
          pc, pRI, call, answers, acks>>

Threads == VendorThreads \cup {Binder}

Init ==
    /\ unsent = Serials
    /\ s_pendingRequests = {} /\ heap = {}
    /\ token \in [Addrs -> {NULL}]
    /\ wasAckSent = [a \in Addrs |-> FALSE]
    /\ vendor = {} /\ toAck = {}
    /\ pc = [th \in Threads |-> "idle"]
    /\ pRI = [th \in Threads |-> NULL]
    /\ call = [th \in Threads |-> NULL]
    /\ answers = [s \in Serials |-> 0]
    /\ acks = [s \in Serials |-> 0]

At(th, place) == pc[th] = place
Goto(th, place) == pc' = [pc EXCEPT ![th] = place]
Work(th, a, s) == pRI' = [pRI EXCEPT ![th] = a] /\ call' = [call EXCEPT ![th] = s]

-----------------------------------------------------------------------------
(* The binder thread. *)

(* addRequestToList: calloc (all fields zero), then the front of the list. *)
AddRequestToList(s) ==
    /\ At(Binder, "idle") /\ s \in unsent
    /\ \E a \in Addrs \ heap :
          /\ heap' = heap \cup {a}
          /\ token' = [token EXCEPT ![a] = s]
          /\ wasAckSent' = [wasAckSent EXCEPT ![a] = FALSE]
          /\ s_pendingRequests' = s_pendingRequests \cup {a}
          /\ Work(Binder, a, s)
    /\ unsent' = unsent \ {s}
    /\ Goto(Binder, "marshal")
    /\ UNCHANGED <<vendor, toAck, answers, acks>>

(* addRequestToList returns NULL (no memory, or a request number it does not
   know); no method answers the framework then. *)
AddRequestFails(s) ==
    /\ At(Binder, "idle") /\ s \in unsent /\ MarshalFails
    /\ unsent' = unsent \ {s}
    /\ UNCHANGED <<s_pendingRequests, heap, token, wasAckSent, vendor, toAck,
                   pc, pRI, call, answers, acks>>

(* Mutants: the return after sendErrorResponse missing; no error response. *)
MarshalErrorNoReturn ==
    /\ At(Binder, "marshal") /\ MarshalFails
    /\ answers[token[pRI[Binder]]] = 0
    /\ answers' = [answers EXCEPT ![token[pRI[Binder]]] = @ + 1]
    /\ UNCHANGED <<unsent, s_pendingRequests, heap, token, wasAckSent, vendor, toAck,
                   pc, pRI, call, acks>>

MarshalErrorSilent ==
    /\ At(Binder, "marshal") /\ MarshalFails
    /\ Goto(Binder, "idle") /\ Work(Binder, NULL, NULL)
    /\ UNCHANGED <<unsent, s_pendingRequests, heap, token, wasAckSent, vendor, toAck, answers, acks>>

(* A dispatch helper cannot copy an argument: sendErrorResponse answers, and
   the helper returns without taking the request off the list. *)
MarshalError ==
    /\ At(Binder, "marshal") /\ MarshalFails
    /\ answers' = [answers EXCEPT ![token[pRI[Binder]]] = @ + 1]
    /\ Goto(Binder, "idle") /\ Work(Binder, NULL, NULL)
    /\ UNCHANGED <<unsent, s_pendingRequests, heap, token, wasAckSent, vendor, toAck, acks>>

(* Mutant: the vendor answers a manual selection too, as any other request. *)
CallOnRequestBoth ==
    /\ At(Binder, "marshal")
    /\ LET t == <<pRI[Binder], call[Binder]>> IN
       /\ vendor' = vendor \cup {t} /\ toAck' = toAck \cup {t}
       /\ IF call[Binder] \in ManualSelection
          THEN Goto(Binder, "complete") /\ UNCHANGED <<pRI, call>>
          ELSE Goto(Binder, "idle") /\ Work(Binder, NULL, NULL)
    /\ UNCHANGED <<unsent, s_pendingRequests, heap, token, wasAckSent, answers, acks>>

(* Mutant: dispatchStrings waits for the vendor to answer a manual selection. *)
CallOnRequestForgets ==
    /\ At(Binder, "marshal")
    /\ LET t == <<pRI[Binder], call[Binder]>> IN
       IF call[Binder] \in ManualSelection /\ ~VendorAnswersAll
       THEN UNCHANGED <<vendor, toAck>>
       ELSE vendor' = vendor \cup {t} /\ toAck' = toAck \cup {t}
    /\ Goto(Binder, "idle") /\ Work(Binder, NULL, NULL)
    /\ UNCHANGED <<unsent, s_pendingRequests, heap, token, wasAckSent, answers, acks>>

(* CALL_ONREQUEST: from here the vendor's threads may use the token.  For
   RIL_REQUEST_SET_NETWORK_SELECTION_MANUAL dispatchStrings then completes the
   request itself: "Qualcomm's RIL doesn't seem to issue any callbacks". *)
CallOnRequest ==
    /\ At(Binder, "marshal")
    /\ LET t == <<pRI[Binder], call[Binder]>> IN
       IF call[Binder] \in ManualSelection
       THEN /\ vendor' = IF VendorAnswersAll THEN vendor \cup {t} ELSE vendor
            /\ Goto(Binder, "complete") /\ UNCHANGED <<pRI, call, toAck>>
       ELSE /\ vendor' = vendor \cup {t} /\ toAck' = toAck \cup {t}
            /\ Goto(Binder, "idle") /\ Work(Binder, NULL, NULL)
    /\ UNCHANGED <<unsent, s_pendingRequests, heap, token, wasAckSent, answers, acks>>

-----------------------------------------------------------------------------
(* The vendor's calls, on any of its threads or, from inside onRequest, on the
   binder thread itself.  One thread may complete a request that another is
   acknowledging. *)

VendorAcks(th) ==
    /\ At(th, "idle")
    /\ \E t \in toAck :
          /\ toAck' = toAck \ {t}
          /\ Work(th, t[1], t[2])
    /\ Goto(th, "ack")
    /\ UNCHANGED <<unsent, s_pendingRequests, heap, token, wasAckSent, vendor, answers, acks>>

VendorCompletes(th) ==
    /\ At(th, "idle")
    /\ \E t \in vendor :
          /\ vendor' = vendor \ {t}
          /\ toAck' = toAck \ {t}
          /\ Work(th, t[1], t[2])
    /\ Goto(th, "complete")
    /\ UNCHANGED <<unsent, s_pendingRequests, heap, token, wasAckSent, answers, acks>>

(* checkAndDequeueRequestInfoIfAck(pRI, true), one critical section. *)
AckFinds(th) ==
    /\ At(th, "ack")
    /\ IF pRI[th] \in s_pendingRequests
       THEN /\ wasAckSent' = [wasAckSent EXCEPT ![pRI[th]] = TRUE]
            /\ Goto(th, "sendAck") /\ UNCHANGED <<pRI, call>>
       ELSE /\ Goto(th, "idle") /\ Work(th, NULL, NULL) /\ UNCHANGED wasAckSent
    /\ UNCHANGED <<unsent, s_pendingRequests, heap, token, vendor, toAck, answers, acks>>

(* RIL_onRequestAck reads pRI->token after the mutex was released: of the object,
   of what is left of it after free, or of the next request at that address. *)
SendAck(th) ==
    /\ At(th, "sendAck")
    /\ acks' = [acks EXCEPT ![token[pRI[th]]] = @ + 1]
    /\ Goto(th, "idle") /\ Work(th, NULL, NULL)
    /\ UNCHANGED <<unsent, s_pendingRequests, heap, token, wasAckSent, vendor, toAck, answers>>

(* Mutant: what is taken off the list is freed before it is answered. *)
CompleteFindsFrees(th) ==
    /\ At(th, "complete")
    /\ IF pRI[th] \in s_pendingRequests
       THEN /\ s_pendingRequests' = s_pendingRequests \ {pRI[th]}
            /\ heap' = heap \ {pRI[th]}
            /\ Goto(th, "respond") /\ UNCHANGED <<pRI, call>>
       ELSE Goto(th, "idle") /\ Work(th, NULL, NULL) /\ UNCHANGED <<s_pendingRequests, heap>>
    /\ UNCHANGED <<unsent, token, wasAckSent, vendor, toAck, answers, acks>>

(* checkAndDequeueRequestInfoIfAck(pRI, false), one critical section. *)
CompleteFinds(th) ==
    /\ At(th, "complete")
    /\ IF pRI[th] \in s_pendingRequests
       THEN /\ s_pendingRequests' = s_pendingRequests \ {pRI[th]}
            /\ Goto(th, "respond") /\ UNCHANGED <<pRI, call>>
       ELSE /\ Goto(th, "idle") /\ Work(th, NULL, NULL) /\ UNCHANGED s_pendingRequests
    /\ UNCHANGED <<unsent, heap, token, wasAckSent, vendor, toAck, answers, acks>>

(* responseFunction with pRI->token. *)
Respond(th) ==
    /\ At(th, "respond")
    /\ answers' = [answers EXCEPT ![token[pRI[th]]] = @ + 1]
    /\ Goto(th, "free")
    /\ UNCHANGED <<unsent, s_pendingRequests, heap, token, wasAckSent, vendor, toAck, pRI, call, acks>>

FreeRequest(th) ==
    /\ At(th, "free")
    /\ heap' = heap \ {pRI[th]}
    /\ Goto(th, "idle") /\ Work(th, NULL, NULL)
    /\ UNCHANGED <<unsent, s_pendingRequests, token, wasAckSent, vendor, toAck, answers, acks>>

-----------------------------------------------------------------------------
BinderSteps == MarshalError \/ CallOnRequest

CallSteps(th) == AckFinds(th) \/ SendAck(th) \/ CompleteFinds(th) \/ Respond(th) \/ FreeRequest(th)

Next ==
    \/ \E s \in Serials : AddRequestToList(s) \/ AddRequestFails(s)
    \/ BinderSteps
    \/ \E th \in Threads : VendorAcks(th) \/ VendorCompletes(th) \/ CallSteps(th)

Spec == Init /\ [][Next]_vars

(* Threads inside libril go on, the binder thread takes what the framework sends,
   and the vendor completes every request it was given: it must find time for
   it (strong fairness), since a thread may be busy with acknowledgements. *)
FairSpec ==
    /\ Spec
    /\ WF_vars(BinderSteps)
    /\ \A th \in Threads : WF_vars(CallSteps(th))
    /\ SF_vars(\E th \in Threads : VendorCompletes(th))

-----------------------------------------------------------------------------
(* Properties. *)

(* Ranges of the request list's data and of the threads' places. *)
TypeOK ==
    /\ unsent \subseteq Serials
    /\ heap \subseteq Addrs /\ s_pendingRequests \subseteq Addrs
    /\ token \in [Addrs -> Serials \cup {NULL}]
    /\ wasAckSent \in [Addrs -> BOOLEAN]
    /\ vendor \subseteq Addrs \X Serials /\ toAck \subseteq Addrs \X Serials
    /\ pc \in [Threads -> {"idle", "marshal", "ack", "sendAck", "complete", "respond", "free"}]
    /\ pRI \in [Threads -> Addrs \cup {NULL}]
    /\ call \in [Threads -> Serials \cup {NULL}]
    /\ answers \in [Serials -> Nat] /\ acks \in [Serials -> Nat]

(* The framework, which matches a response to its request by serial, gets at
   most one response to a request. *)
OneAnswer == \A s \in Serials : answers[s] <= 1

(* For the framework the list of pending requests, with its reused addresses and
   its three ways to answer, is a service that answers a sent request once. *)
Abstract == INSTANCE RequestService WITH Requests <- Serials, sent <- Serials \ unsent
ImplementsRequestService == Abstract!Spec

(* A token is an address, and addresses are reused: what RIL_onRequestComplete
   took off the list and is about to answer is the request it was called for. *)
AnswersItsOwn == \A th \in Threads : pc[th] \in {"respond", "free"} =>
    /\ pRI[th] \in heap
    /\ token[pRI[th]] = call[th]

(* RIL_onRequestAck reads pRI after the mutex was released, while another thread
   may complete, free and replace the request.  Until the request has its answer
   what is read is the request the acknowledgement is for; one that goes astray
   comes from a request that no longer needs it. *)
AcksItsOwn == \A th \in Threads : pc[th] = "sendAck" =>
    \/ pRI[th] \in heap /\ token[pRI[th]] = call[th]
    \/ answers[call[th]] > 0

(* No RequestInfo is left behind: an unanswered one is with the vendor or with
   a thread that will dispatch or answer it, and an answered one is about to be
   freed, or is one sendErrorResponse answered without taking it off the list. *)
NoRequestForgotten == \A a \in heap :
    IF answers[token[a]] = 0
    THEN \/ a \in s_pendingRequests /\ <<a, token[a]>> \in vendor
         \/ \E th \in Threads : /\ pc[th] \in {"marshal", "complete", "respond"}
                               /\ pRI[th] = a /\ call[th] = token[a]
    ELSE \/ \E th \in Threads : pc[th] = "free" /\ pRI[th] = a
         \/ a \in s_pendingRequests

(* Every request that got onto the list is answered. *)
EveryRequestAnswered ==
    \A s \in Serials : (\E a \in s_pendingRequests : token[a] = s) ~> answers[s] > 0

(* ril.h: "Subsequent calls to RIL_onRequestComplete for this request with other
   results will be tolerated but ignored": a call whose request was answered
   before takes nothing off the list. *)
LateCompleteIgnored ==
    [][\A th \in Threads :
          pc[th] = "complete" /\ pc'[th] = "respond" => answers[call[th]] = 0]_vars
=============================================================================
