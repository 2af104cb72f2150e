------------------------ MODULE RilRequestsProofs -------------------------
(***************************************************************************)
(* Proofs about module RilRequests for any number of requests, addresses   *)
(* and vendor threads, and with or without marshalling failures: while the *)
(* vendor completes each token once, also while it is being acknowledged,  *)
(* and leaves manual network selection to dispatchStrings, an answer never *)
(* reaches another request although addresses are reused.                  *)
(***************************************************************************)
EXTENDS RilRequests, TLAPS

(* The vendor behaves as the comment in dispatchStrings expects. *)
WellBehaved == ~VendorAnswersAll

(* Places in which a thread alone may take a request off the list or free it. *)
Owning == {"marshal", "complete", "respond", "free"}

Owns(th, a) == pRI[th] = a /\ pc[th] \in Owning

(* Only the binder thread dispatches. *)
RoleInv == \A th \in VendorThreads : pc[th] # "marshal"

(* Distinct live objects are distinct requests, and all of them were sent. *)
HeapInv ==
    /\ s_pendingRequests \subseteq heap
    /\ \A a \in heap : token[a] \in Serials /\ token[a] \notin unsent
    /\ \A a, b \in heap : token[a] = token[b] => a = b
    /\ \A s \in unsent : answers[s] = 0

(* A token in the vendor's hands is a pending request nobody has answered and
   nobody else is about to take. *)
VendorInv ==
    /\ toAck \subseteq vendor
    /\ \A t \in vendor : /\ t[1] \in s_pendingRequests
                         /\ token[t[1]] = t[2]
                         /\ answers[t[2]] = 0
                         /\ \A th \in Threads : ~Owns(th, t[1])

(* A thread that owns a request owns it alone, and it is still the request the
   thread's call is about. *)
OwnerInv == \A th \in Threads : pc[th] \in Owning =>
    /\ pRI[th] \in heap
    /\ token[pRI[th]] = call[th]
    /\ pc[th] \in {"marshal", "complete"} <=> pRI[th] \in s_pendingRequests
    /\ pc[th] # "free" => answers[call[th]] = 0
    /\ \A other \in Threads : other # th => ~Owns(other, pRI[th])

(* A request that is being acknowledged is with the vendor or with the thread that
   completes it, or has its answer; what is read at its address is then a serial,
   if only of the next request there. *)
AckInv == \A th \in Threads : pc[th] \in {"ack", "sendAck"} =>
    /\ pRI[th] \in Addrs /\ call[th] \in Serials /\ token[pRI[th]] \in Serials
    /\ \/ <<pRI[th], call[th]>> \in vendor
       \/ \E other \in Threads : /\ pc[other] \in {"complete", "respond"}
                                 /\ pRI[other] = pRI[th] /\ call[other] = call[th]
       \/ answers[call[th]] > 0

(* The inductive invariant. *)
IInv == /\ TypeOK /\ RoleInv /\ HeapInv /\ VendorInv /\ OwnerInv /\ AckInv /\ OneAnswer

-----------------------------------------------------------------------------
(* The request list starts empty and in order. *)
LEMMA RequestsInit == Init => IInv
  BY NamesDistinct DEF Init, IInv, TypeOK, RoleInv, HeapInv, VendorInv, OwnerInv, AckInv, OneAnswer,
     Threads, Owning, Owns

(* Every step of the binder thread, of the vendor and of a completing thread
   keeps it. *)
LEMMA RequestsStep == ASSUME WellBehaved, IInv, [Next]_vars PROVE IInv'
<1> USE NamesDistinct, ManualOK
<1> USE DEF IInv, TypeOK, RoleInv, Threads, Owning, Owns, At, Goto, Work
<1>0. ASSUME NEW s \in Serials, AddRequestFails(s) PROVE IInv'
  BY <1>0 DEF AddRequestFails, HeapInv, VendorInv, OwnerInv, AckInv, OneAnswer
<1>1. ASSUME NEW s \in Serials, AddRequestToList(s) PROVE IInv'
  <2>1. TypeOK'
    BY <1>1 DEF AddRequestToList
  <2>2. RoleInv'
    BY <1>1 DEF AddRequestToList
  <2>3. HeapInv'
    BY <1>1 DEF AddRequestToList, HeapInv, OwnerInv, VendorInv
  <2>4. VendorInv'
    BY <1>1 DEF AddRequestToList, VendorInv, OwnerInv, HeapInv, AckInv
  <2>5. OwnerInv'
    BY <1>1 DEF AddRequestToList, OwnerInv, VendorInv, HeapInv
  <2>6. AckInv'
    BY <1>1 DEF AddRequestToList, AckInv, VendorInv
  <2>7. OneAnswer'
    BY <1>1 DEF AddRequestToList, OneAnswer, OwnerInv, HeapInv
  <2> QED
    BY <2>1, <2>2, <2>3, <2>4, <2>5, <2>6, <2>7
<1>2. CASE MarshalError
  <2>1. TypeOK'
    BY <1>2 DEF MarshalError, HeapInv, OwnerInv, AckInv, VendorInv
  <2>2. RoleInv'
    BY <1>2 DEF MarshalError
  <2>3. HeapInv'
    BY <1>2 DEF MarshalError, HeapInv, OwnerInv, VendorInv
  <2>4. VendorInv'
    BY <1>2 DEF MarshalError, VendorInv, OwnerInv, HeapInv, AckInv
  <2>5. OwnerInv'
    BY <1>2 DEF MarshalError, OwnerInv, VendorInv, HeapInv
  <2>6. AckInv'
    BY <1>2 DEF MarshalError, AckInv, VendorInv
  <2>7. OneAnswer'
    BY <1>2 DEF MarshalError, OneAnswer, OwnerInv, HeapInv
  <2> QED
    BY <2>1, <2>2, <2>3, <2>4, <2>5, <2>6, <2>7
<1>3. CASE CallOnRequest
  <2>1. TypeOK'
    BY <1>3 DEF CallOnRequest, WellBehaved, HeapInv, OwnerInv, AckInv, VendorInv
  <2>2. RoleInv'
    BY <1>3 DEF CallOnRequest, WellBehaved
  <2>3. HeapInv'
    BY <1>3 DEF CallOnRequest, WellBehaved, HeapInv, OwnerInv, VendorInv
  <2>4. VendorInv'
    BY <1>3 DEF CallOnRequest, WellBehaved, VendorInv, OwnerInv, HeapInv, AckInv
  <2>5. OwnerInv'
    BY <1>3 DEF CallOnRequest, WellBehaved, OwnerInv, VendorInv, HeapInv
  <2>6. AckInv'
    BY <1>3 DEF CallOnRequest, WellBehaved, AckInv, VendorInv
  <2>7. OneAnswer'
    BY <1>3 DEF CallOnRequest, WellBehaved, OneAnswer, OwnerInv, HeapInv
  <2> QED
    BY <2>1, <2>2, <2>3, <2>4, <2>5, <2>6, <2>7
<1>4. ASSUME NEW th \in Threads, VendorAcks(th) PROVE IInv'
  <2>1. TypeOK'
    BY <1>4 DEF VendorAcks
  <2>2. RoleInv'
    BY <1>4 DEF VendorAcks
  <2>3. HeapInv'
    BY <1>4 DEF VendorAcks, HeapInv, OwnerInv, VendorInv
  <2>4. VendorInv'
    BY <1>4 DEF VendorAcks, VendorInv, OwnerInv, HeapInv, AckInv
  <2>5. OwnerInv'
    BY <1>4 DEF VendorAcks, OwnerInv, VendorInv, HeapInv
  <2>6. AckInv'
    BY <1>4 DEF VendorAcks, AckInv, VendorInv
  <2>7. OneAnswer'
    BY <1>4 DEF VendorAcks, OneAnswer, OwnerInv, HeapInv
  <2> QED
    BY <2>1, <2>2, <2>3, <2>4, <2>5, <2>6, <2>7
<1>5. ASSUME NEW th \in Threads, VendorCompletes(th) PROVE IInv'
  <2>1. TypeOK'
    BY <1>5 DEF VendorCompletes, WellBehaved
  <2>2. RoleInv'
    BY <1>5 DEF VendorCompletes, WellBehaved
  <2>3. HeapInv'
    BY <1>5 DEF VendorCompletes, WellBehaved, HeapInv, OwnerInv, VendorInv
  <2>4. VendorInv'
    BY <1>5 DEF VendorCompletes, WellBehaved, VendorInv, OwnerInv, HeapInv, AckInv
  <2>5. OwnerInv'
    BY <1>5 DEF VendorCompletes, WellBehaved, OwnerInv, VendorInv, HeapInv
  <2>6. AckInv'
    BY <1>5 DEF VendorCompletes, WellBehaved, AckInv, VendorInv
  <2>7. OneAnswer'
    BY <1>5 DEF VendorCompletes, WellBehaved, OneAnswer, OwnerInv, HeapInv
  <2> QED
    BY <2>1, <2>2, <2>3, <2>4, <2>5, <2>6, <2>7
<1>6. ASSUME NEW th \in Threads, AckFinds(th) PROVE IInv'
  <2>1. TypeOK'
    BY <1>6 DEF AckFinds
  <2>2. RoleInv'
    BY <1>6 DEF AckFinds
  <2>3. HeapInv'
    BY <1>6 DEF AckFinds, HeapInv, OwnerInv, VendorInv
  <2>4. VendorInv'
    BY <1>6 DEF AckFinds, VendorInv, OwnerInv, HeapInv, AckInv
  <2>5. OwnerInv'
    BY <1>6 DEF AckFinds, OwnerInv, VendorInv, HeapInv
  <2>6. AckInv'
    BY <1>6 DEF AckFinds, AckInv, VendorInv
  <2>7. OneAnswer'
    BY <1>6 DEF AckFinds, OneAnswer, OwnerInv, HeapInv
  <2> QED
    BY <2>1, <2>2, <2>3, <2>4, <2>5, <2>6, <2>7
<1>7. ASSUME NEW th \in Threads, SendAck(th) PROVE IInv'
  <2>1. TypeOK'
    <3>1. token[pRI[th]] \in Serials
      BY <1>7 DEF SendAck, HeapInv, AckInv, VendorInv
    <3> QED
      BY <3>1, <1>7 DEF SendAck
  <2>2. RoleInv'
    BY <1>7 DEF SendAck
  <2>3. HeapInv'
    BY <1>7 DEF SendAck, HeapInv, OwnerInv, VendorInv
  <2>4. VendorInv'
    BY <1>7 DEF SendAck, VendorInv, OwnerInv, HeapInv, AckInv
  <2>5. OwnerInv'
    BY <1>7 DEF SendAck, OwnerInv, VendorInv, HeapInv
  <2>6. AckInv'
    BY <1>7 DEF SendAck, AckInv, VendorInv
  <2>7. OneAnswer'
    BY <1>7 DEF SendAck, OneAnswer, OwnerInv, HeapInv
  <2> QED
    BY <2>1, <2>2, <2>3, <2>4, <2>5, <2>6, <2>7
<1>8. ASSUME NEW th \in Threads, CompleteFinds(th) PROVE IInv'
  <2>1. TypeOK'
    BY <1>8 DEF CompleteFinds
  <2>2. RoleInv'
    BY <1>8 DEF CompleteFinds
  <2>3. HeapInv'
    BY <1>8 DEF CompleteFinds, HeapInv, OwnerInv, VendorInv
  <2>4. VendorInv'
    BY <1>8 DEF CompleteFinds, VendorInv, OwnerInv, HeapInv, AckInv
  <2>5. OwnerInv'
    BY <1>8 DEF CompleteFinds, OwnerInv, VendorInv, HeapInv
  <2>6. AckInv'
    <3>1. /\ UNCHANGED <<token, vendor, answers>>
          /\ th \in Threads /\ pc[th] = "complete" /\ pc'[th] \notin {"ack", "sendAck"}
          /\ \A other \in Threads : other # th => UNCHANGED <<pc[other], pRI[other], call[other]>>
      BY <1>8 DEF CompleteFinds
    <3>2. pc'[th] = "respond" /\ UNCHANGED <<pRI, call>>
      BY <1>8 DEF CompleteFinds, OwnerInv
    <3> QED
      BY <3>1, <3>2 DEF AckInv
  <2>7. OneAnswer'
    BY <1>8 DEF CompleteFinds, OneAnswer, OwnerInv, HeapInv
  <2> QED
    BY <2>1, <2>2, <2>3, <2>4, <2>5, <2>6, <2>7
<1>9. ASSUME NEW th \in Threads, Respond(th) PROVE IInv'
  <2>1. TypeOK'
    BY <1>9 DEF Respond, HeapInv, OwnerInv, AckInv, VendorInv
  <2>2. RoleInv'
    BY <1>9 DEF Respond
  <2>3. HeapInv'
    BY <1>9 DEF Respond, HeapInv, OwnerInv, VendorInv
  <2>4. VendorInv'
    BY <1>9 DEF Respond, VendorInv, OwnerInv, HeapInv, AckInv
  <2>5. OwnerInv'
    BY <1>9 DEF Respond, OwnerInv, VendorInv, HeapInv
  <2>6. AckInv'
    <3>1. /\ UNCHANGED <<token, vendor, pRI, call>>
          /\ pc[th] = "respond" /\ pc'[th] = "free"
          /\ \A other \in Threads : other # th => UNCHANGED pc[other]
      BY <1>9 DEF Respond
    <3>2. token[pRI[th]] = call[th] /\ call[th] \in Serials
      BY <3>1 DEF OwnerInv, HeapInv
    <3>3. answers'[call[th]] > 0 /\ \A s \in Serials : answers[s] > 0 => answers'[s] > 0
      BY <1>9, <3>2 DEF Respond
    <3> QED
      BY <3>1, <3>2, <3>3 DEF AckInv
  <2>7. OneAnswer'
    BY <1>9 DEF Respond, OneAnswer, OwnerInv, HeapInv
  <2> QED
    BY <2>1, <2>2, <2>3, <2>4, <2>5, <2>6, <2>7
<1>10. ASSUME NEW th \in Threads, FreeRequest(th) PROVE IInv'
  <2>1. TypeOK'
    BY <1>10 DEF FreeRequest
  <2>2. RoleInv'
    BY <1>10 DEF FreeRequest
  <2>3. HeapInv'
    BY <1>10 DEF FreeRequest, HeapInv, OwnerInv, VendorInv
  <2>4. VendorInv'
    BY <1>10 DEF FreeRequest, VendorInv, OwnerInv, HeapInv, AckInv
  <2>5. OwnerInv'
    BY <1>10 DEF FreeRequest, OwnerInv, VendorInv, HeapInv
  <2>6. AckInv'
    BY <1>10 DEF FreeRequest, AckInv, VendorInv
  <2>7. OneAnswer'
    BY <1>10 DEF FreeRequest, OneAnswer, OwnerInv, HeapInv
  <2> QED
    BY <2>1, <2>2, <2>3, <2>4, <2>5, <2>6, <2>7
<1>11. CASE UNCHANGED vars
  BY <1>11 DEF vars, HeapInv, VendorInv, OwnerInv, AckInv, OneAnswer
<1> QED
  BY <1>0, <1>1, <1>2, <1>3, <1>4, <1>5, <1>6, <1>7, <1>8, <1>9, <1>10, <1>11
     DEF Next, BinderSteps, CallSteps

(* The invariant holds in every state. *)
LEMMA RequestsHold == WellBehaved => (Spec => []IInv)
<1> SUFFICES ASSUME WellBehaved PROVE Spec => []IInv
  OBVIOUS
<1>1. IInv /\ [Next]_vars => IInv'
  BY RequestsStep
<1> QED
  BY <1>1, RequestsInit, PTL DEF Spec

(* No request is answered twice, also when dispatchStrings completes one itself
   and when sendErrorResponse leaves one on the list. *)
THEOREM AnsweredAtMostOnce == WellBehaved => (Spec => []OneAnswer)
<1>1. IInv => OneAnswer
  BY DEF IInv
<1> QED
  BY <1>1, RequestsHold, PTL

(* RIL_onRequestComplete answers the request the token was issued for. *)
THEOREM AnswersAreRight == WellBehaved => (Spec => []AnswersItsOwn)
<1>1. IInv => AnswersItsOwn
  BY DEF IInv, OwnerInv, Owning, AnswersItsOwn
<1> QED
  BY <1>1, RequestsHold, PTL

(* RIL_onRequestAck reads the RequestInfo it was called for as long as that request
   is unanswered; the vendor may complete it at any moment on another thread. *)
THEOREM AcksAreRight == WellBehaved => (Spec => []AcksItsOwn)
<1>1. IInv => AcksItsOwn
  BY DEF IInv, AckInv, VendorInv, OwnerInv, Owning, HeapInv, AcksItsOwn
<1> QED
  BY <1>1, RequestsHold, PTL

(* A response is the first to a request that was sent; every other step sends
   one request or changes neither. *)
LEMMA ServiceStep ==
  ASSUME WellBehaved, IInv, [Next]_vars
  PROVE  [Abstract!Next]_(Abstract!vars)
<1> DEFINE Sends(s) == s \in unsent /\ unsent' = unsent \ {s} /\ answers' = answers
           Answers(s) == /\ s \notin unsent /\ answers[s] = 0
                         /\ answers' = [answers EXCEPT ![s] = @ + 1] /\ unsent' = unsent
<1>1. ASSUME NEW s \in Serials, Sends(s) PROVE Abstract!Next
  <2>1. Serials \ unsent' = (Serials \ unsent) \cup {s}
    BY <1>1
  <2> QED
    BY <1>1, <2>1 DEF Abstract!Next, Abstract!Send
<1>2. ASSUME NEW s \in Serials, Answers(s) PROVE Abstract!Next
  <2>1. s \in Serials \ unsent /\ Serials \ unsent' = Serials \ unsent
    BY <1>2
  <2>2. answers[s] + 1 = 1 /\ answers' = [answers EXCEPT ![s] = answers[s] + 1]
    BY <1>2
  <2>3. answers[s] = 0 /\ answers' = [answers EXCEPT ![s] = 1]
    BY <1>2, <2>2
  <2>4. Abstract!Answer(s)
    BY <2>1, <2>3 DEF Abstract!Answer
  <2> QED
    BY <2>4 DEF Abstract!Next
<1>3. ASSUME answers' = answers, unsent' = unsent PROVE UNCHANGED Abstract!vars
  BY <1>3 DEF Abstract!vars
<1>4. ASSUME NEW s \in Serials, AddRequestToList(s) \/ AddRequestFails(s) PROVE Sends(s)
  BY <1>4 DEF AddRequestToList, AddRequestFails
<1>5. ASSUME NEW th \in Threads, pRI[th] \in heap, pc[th] \in {"marshal", "respond"},
             answers' = [answers EXCEPT ![token[pRI[th]]] = @ + 1], unsent' = unsent
      PROVE  \E s \in Serials : Answers(s)
  <2>1. token[pRI[th]] \in Serials /\ token[pRI[th]] \notin unsent
    BY <1>5 DEF IInv, HeapInv
  <2>2. answers[token[pRI[th]]] = 0
    BY <1>5 DEF IInv, OwnerInv, Owning
  <2> QED
    BY <1>5, <2>1, <2>2
<1>6. CASE MarshalError
  <2>1. pc[Binder] = "marshal" /\ Binder \in Threads
    BY <1>6 DEF MarshalError, At, Threads
  <2>2. pRI[Binder] \in heap
    BY <2>1 DEF IInv, OwnerInv, Owning
  <2> QED
    BY <1>2, <1>5, <1>6, <2>1, <2>2 DEF MarshalError
<1>7. ASSUME NEW th \in Threads, Respond(th) PROVE Abstract!Next
  <2>1. pc[th] = "respond"
    BY <1>7 DEF Respond, At
  <2>2. pRI[th] \in heap
    BY <2>1 DEF IInv, OwnerInv, Owning
  <2> QED
    BY <1>2, <1>5, <1>7, <2>1, <2>2 DEF Respond
<1>8. ASSUME \/ CallOnRequest
             \/ \E th \in Threads : VendorAcks(th) \/ VendorCompletes(th) \/ AckFinds(th)
                                      \/ SendAck(th) \/ CompleteFinds(th) \/ FreeRequest(th)
             \/ UNCHANGED vars
      PROVE  answers' = answers /\ unsent' = unsent
  BY <1>8 DEF CallOnRequest, VendorAcks, VendorCompletes, AckFinds, SendAck, CompleteFinds,
     FreeRequest, vars
<1> HIDE DEF Sends, Answers
<1> QED
  BY <1>1, <1>3, <1>4, <1>6, <1>7, <1>8 DEF Next, BinderSteps, CallSteps

(* With its reused tokens and its three ways to answer, libril is a service that
   answers each request that was sent, and answers it once. *)
THEOREM AnswersOnce == WellBehaved => (Spec => ImplementsRequestService)
<1> SUFFICES ASSUME WellBehaved PROVE Spec => ImplementsRequestService
  OBVIOUS
<1>1. Init => Abstract!Init
  BY DEF Init, Abstract!Init
<1>2. IInv /\ [Next]_vars => [Abstract!Next]_(Abstract!vars)
  BY ServiceStep
<1> QED
  BY <1>1, <1>2, RequestsHold, PTL DEF Spec, ImplementsRequestService, Abstract!Spec

(* The steps that move neither a request nor a token, or only the count of
   acknowledgements: an answer that was due still is. *)
LEMMA KeepsHolders ==
  ASSUME UNCHANGED <<heap, token, answers, s_pendingRequests>>, vendor \subseteq vendor',
         NoRequestForgotten,
         \A th \in Threads : pc[th] \in Owning => UNCHANGED <<pc[th], pRI[th], call[th]>>
  PROVE  NoRequestForgotten'
  BY DEF NoRequestForgotten, Owning

LEMMA ForgottenStep ==
  ASSUME WellBehaved, IInv, NoRequestForgotten, [Next]_vars
  PROVE  NoRequestForgotten'
<1> USE NamesDistinct
<1> USE DEF At, Goto, Work
<1>0. /\ TypeOK /\ RoleInv /\ HeapInv /\ VendorInv /\ OwnerInv /\ AckInv
      /\ Binder \in Threads
  BY DEF IInv, Threads
<1>1. ASSUME NEW s \in Serials, AddRequestFails(s) \/ AddRequestToList(s)
      PROVE  NoRequestForgotten'
  <2>1. CASE AddRequestFails(s)
    BY <1>1, <2>1, KeepsHolders DEF AddRequestFails
  <2>2. CASE AddRequestToList(s)
    <3>1. PICK a \in Addrs \ heap : /\ heap' = heap \cup {a}
                                    /\ token' = [token EXCEPT ![a] = s]
                                    /\ Work(Binder, a, s)
      BY <2>2 DEF AddRequestToList
    <3>2. /\ pc[Binder] = "idle" /\ pc' = [pc EXCEPT ![Binder] = "marshal"]
          /\ s_pendingRequests \subseteq s_pendingRequests'
          /\ UNCHANGED <<vendor, answers>> /\ s \in unsent
      BY <2>2 DEF AddRequestToList
    <3>3. answers'[s] = 0 /\ token'[a] = s
      BY <3>1, <3>2, <1>0 DEF HeapInv, TypeOK
    <3>4. pc'[Binder] = "marshal" /\ pRI'[Binder] = a /\ call'[Binder] = s
      BY <3>1, <3>2, <1>0 DEF TypeOK
    <3>5. \A b \in heap : b # a /\ token'[b] = token[b]
      BY <3>1, <1>0 DEF TypeOK
    <3>6. \A th \in Threads : th # Binder => UNCHANGED <<pc[th], pRI[th], call[th]>>
      BY <3>1, <3>2, <1>0 DEF TypeOK
    <3> QED
      BY <3>1, <3>2, <3>3, <3>4, <3>5, <3>6, <1>0 DEF NoRequestForgotten
  <2> QED
    BY <1>1, <2>1, <2>2
<1>2. CASE MarshalError
  <2> DEFINE b == pRI[Binder]
  <2>1. /\ b \in heap /\ b \in s_pendingRequests /\ pc[Binder] = "marshal"
        /\ token[b] \in Serials
        /\ answers' = [answers EXCEPT ![token[b]] = @ + 1]
        /\ UNCHANGED <<heap, token, s_pendingRequests, vendor>>
        /\ pc' = [pc EXCEPT ![Binder] = "idle"]
        /\ pRI' = [pRI EXCEPT ![Binder] = NULL] /\ call' = [call EXCEPT ![Binder] = NULL]
    BY <1>2, <1>0 DEF MarshalError, OwnerInv, Owning, HeapInv
  <2>2. answers'[token[b]] # 0
    BY <2>1, <1>0 DEF TypeOK
  <2>3. \A a \in heap \ {b} : token[a] # token[b] /\ answers'[token[a]] = answers[token[a]]
    BY <2>1, <1>0 DEF HeapInv, TypeOK
  <2>4. \A th \in Threads : th # Binder => UNCHANGED <<pc[th], pRI[th], call[th]>>
    BY <2>1, <1>0 DEF TypeOK
  <2> QED
    BY <2>1, <2>2, <2>3, <2>4 DEF NoRequestForgotten
<1>3. CASE CallOnRequest
  <2> DEFINE b == pRI[Binder]
             t == <<pRI[Binder], call[Binder]>>
  <2>1. /\ b \in heap /\ b \in s_pendingRequests /\ pc[Binder] = "marshal"
        /\ call[Binder] = token[b] /\ vendor \subseteq vendor'
        /\ UNCHANGED <<heap, token, s_pendingRequests, answers>>
    BY <1>3, <1>0 DEF CallOnRequest, OwnerInv, Owning
  <2>2. \/ /\ pc' = [pc EXCEPT ![Binder] = "complete"] /\ UNCHANGED <<pRI, call>>
        \/ /\ t \in vendor' /\ pc' = [pc EXCEPT ![Binder] = "idle"]
           /\ pRI' = [pRI EXCEPT ![Binder] = NULL] /\ call' = [call EXCEPT ![Binder] = NULL]
    BY <1>3 DEF CallOnRequest
  <2>3. \A th \in Threads : th # Binder => UNCHANGED <<pc[th], pRI[th], call[th]>>
    BY <2>2, <1>0 DEF TypeOK
  <2>4. \/ pc'[Binder] = "complete" /\ UNCHANGED <<pRI, call>>
        \/ <<b, token[b]>> \in vendor'
    BY <2>1, <2>2, <1>0 DEF TypeOK
  <2> QED
    BY <2>1, <2>3, <2>4 DEF NoRequestForgotten
<1>4. ASSUME NEW th \in Threads, VendorAcks(th) \/ AckFinds(th) \/ SendAck(th)
      PROVE  NoRequestForgotten'
  <2>1. /\ UNCHANGED <<heap, token, answers, s_pendingRequests, vendor>>
        /\ pc[th] \notin Owning
    BY <1>4 DEF VendorAcks, AckFinds, SendAck, Owning
  <2>2. \A other \in Threads : other # th => UNCHANGED <<pc[other], pRI[other], call[other]>>
    BY <1>4, <1>0 DEF VendorAcks, AckFinds, SendAck, TypeOK
  <2> QED
    BY <2>1, <2>2, KeepsHolders
<1>5. ASSUME NEW th \in Threads, VendorCompletes(th)
      PROVE  NoRequestForgotten'
  <2>1. PICK t \in vendor : /\ vendor' = vendor \ {t}
                            /\ Work(th, t[1], t[2])
    BY <1>5 DEF VendorCompletes
  <2>2. /\ pc[th] = "idle" /\ pc' = [pc EXCEPT ![th] = "complete"]
        /\ UNCHANGED <<heap, token, answers, s_pendingRequests>>
    BY <1>5 DEF VendorCompletes
  <2>3. pc'[th] = "complete" /\ pRI'[th] = t[1] /\ call'[th] = t[2]
    BY <2>1, <2>2, <1>0 DEF TypeOK
  <2>4. t = <<t[1], t[2]>> /\ token[t[1]] = t[2]
    BY <2>1, <1>0 DEF TypeOK, VendorInv
  <2>5. \A other \in Threads : other # th => UNCHANGED <<pc[other], pRI[other], call[other]>>
    BY <2>1, <2>2, <1>0 DEF TypeOK
  <2>6. ASSUME NEW a \in heap, <<a, token[a]>> \in vendor
        PROVE  \/ <<a, token[a]>> \in vendor'
               \/ pRI'[th] = a /\ call'[th] = token[a]
    BY <2>1, <2>3, <2>4, <2>6
  <2> QED
    BY <2>2, <2>3, <2>5, <2>6 DEF NoRequestForgotten
<1>6. ASSUME NEW th \in Threads, CompleteFinds(th)
      PROVE  NoRequestForgotten'
  <2> DEFINE b == pRI[th]
  <2>1. /\ pc[th] = "complete" /\ b \in s_pendingRequests /\ b \in heap
        /\ s_pendingRequests' = s_pendingRequests \ {b}
        /\ pc' = [pc EXCEPT ![th] = "respond"]
        /\ UNCHANGED <<heap, token, answers, vendor, pRI, call>>
        /\ answers[token[b]] = 0 /\ call[th] = token[b]
    BY <1>6, <1>0 DEF CompleteFinds, OwnerInv, Owning
  <2>2. \A other \in Threads : other # th => UNCHANGED pc[other]
    BY <2>1, <1>0 DEF TypeOK
  <2>3. pc'[th] = "respond"
    BY <2>1, <1>0 DEF TypeOK
  <2> QED
    BY <2>1, <2>2, <2>3 DEF NoRequestForgotten
<1>7. ASSUME NEW th \in Threads, Respond(th)
      PROVE  NoRequestForgotten'
  <2> DEFINE b == pRI[th]
  <2>1. /\ pc[th] = "respond" /\ b \in heap /\ token[b] \in Serials
        /\ answers' = [answers EXCEPT ![token[b]] = @ + 1]
        /\ pc' = [pc EXCEPT ![th] = "free"]
        /\ UNCHANGED <<heap, token, s_pendingRequests, vendor, pRI, call>>
    BY <1>7, <1>0 DEF Respond, OwnerInv, Owning, HeapInv
  <2>2. answers'[token[b]] # 0 /\ pc'[th] = "free" /\ pRI'[th] = b
    BY <2>1, <1>0 DEF TypeOK
  <2>3. \A a \in heap \ {b} : token[a] # token[b] /\ answers'[token[a]] = answers[token[a]]
    BY <2>1, <1>0 DEF HeapInv, TypeOK
  <2>4. \A other \in Threads : other # th => UNCHANGED <<pc[other], pRI[other], call[other]>>
    BY <2>1, <1>0 DEF TypeOK
  <2> QED
    BY <2>1, <2>2, <2>3, <2>4 DEF NoRequestForgotten
<1>8. ASSUME NEW th \in Threads, FreeRequest(th)
      PROVE  NoRequestForgotten'
  <2>1. /\ pc[th] = "free" /\ heap' = heap \ {pRI[th]}
        /\ pc' = [pc EXCEPT ![th] = "idle"]
        /\ pRI' = [pRI EXCEPT ![th] = NULL] /\ call' = [call EXCEPT ![th] = NULL]
        /\ UNCHANGED <<token, answers, s_pendingRequests, vendor>>
    BY <1>8 DEF FreeRequest
  <2>2. \A other \in Threads : other # th => UNCHANGED <<pc[other], pRI[other], call[other]>>
    BY <2>1, <1>0 DEF TypeOK
  <2> QED
    BY <2>1, <2>2 DEF NoRequestForgotten
<1>9. CASE UNCHANGED vars
  BY <1>9, KeepsHolders DEF vars
<1> QED
  BY <1>1, <1>2, <1>3, <1>4, <1>5, <1>6, <1>7, <1>8, <1>9
     DEF Next, BinderSteps, CallSteps

(* Whatever the marshalling does and whoever completes, no request on the list
   is left without somebody who will answer it, and no answered RequestInfo
   stays allocated but those sendErrorResponse leaves on the list. *)
THEOREM NoneForgotten == WellBehaved => (Spec => []NoRequestForgotten)
<1> SUFFICES ASSUME WellBehaved PROVE Spec => []NoRequestForgotten
  OBVIOUS
<1>1. Init => NoRequestForgotten
  BY DEF Init, NoRequestForgotten
<1>2. IInv /\ NoRequestForgotten /\ [Next]_vars => NoRequestForgotten'
  BY ForgottenStep
<1> QED
  BY <1>1, <1>2, RequestsHold, PTL DEF Spec
=============================================================================
