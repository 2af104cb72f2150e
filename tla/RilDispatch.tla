---------------------------- MODULE RilDispatch ----------------------------
(* The radio service at work: a client calls a method, the binder thread   *)
(* runs its script (RilCommands), the vendor library gets the request and  *)
(* answers it, possibly before onRequest has returned, possibly with a     *)
(* payload of the wrong shape, and sends unsolicited messages; the client  *)
(* may be replaced by one of another interface version at any time.        *)
(*                                                                         *)
(* One request is outstanding at a time: the pairing of many requests with *)
(* their answers is RilRequests.                                           *)
EXTENDS RilCommands, FiniteSets

CONSTANTS
  Versions,   \* the interface versions of the vendor library to look at
  Methods,    \* the methods the client calls, of DOMAIN MethodsOf(version)
  Unsols      \* the unsolicited messages the vendor sends

ASSUME VersionsOK == Versions \subseteq Nat

VARIABLES
  version,    \* s_vendorFunctions->version
  client,     \* mRadioResponse: "none", "v1_0" or "v1_1"
  oem,        \* whether an OEM hook client has set its callbacks
  binder,     \* the binder thread: "idle", "marshal", "onRequest" or "crashed"
  method,     \* the method of the current call
  script,     \* the script it runs, <<>> if none
  step,       \* the step it is at
  heap,       \* the memory taken and not freed, as <<method, argument>>
  request,    \* "none", "listed", "sent", "refused" or "answered"
  answers,    \* callbacks invoked for the current request, with their error
  lost,       \* answers given while no client could take them
  told        \* the indication just delivered, "none" if the last was dropped

callers == <<version, client, oem>>
vars == <<version, client, oem, binder, method, script, step, heap, request,
          answers, lost, told>>

Errors == {"SUCCESS", "GENERIC_FAILURE"}
Payloads == {"absent", "phantom", "misfit", "fits"}

Scripts == [v \in Versions |-> MethodsOf(v)]

TypeOK ==
  /\ version \in Versions
  /\ client \in {"none", "v1_0", "v1_1"} /\ oem \in BOOLEAN
  /\ binder \in {"idle", "marshal", "onRequest", "crashed"}
  /\ method \in Methods \cup {"none"}
  /\ request \in {"none", "listed", "sent", "refused", "answered"}
  /\ lost \in 0..2

Idle ==
  /\ binder = "idle" /\ method = "none" /\ script = <<>> /\ step = 0
  /\ heap = {} /\ request = "none" /\ answers = <<>> /\ lost = 0
  /\ told = "none"

Init == /\ version \in Versions /\ client = "none" /\ oem = FALSE /\ Idle

(***************************************************************************)
(* The clients.                                                            *)
(***************************************************************************)
SetResponseFunctions(c) ==
  /\ binder # "crashed"
  /\ client' = c /\ told' = "none"
  /\ UNCHANGED <<version, oem, binder, method, script, step, heap, request,
                 answers, lost>>

OemSetResponseFunctions ==
  /\ binder # "crashed" /\ ~oem
  /\ oem' = TRUE /\ told' = "none"
  /\ UNCHANGED <<version, client, binder, method, script, step, heap, request,
                 answers, lost>>

(***************************************************************************)
(* Answers. A response function finds the client's callback, and turns a   *)
(* success whose payload it refuses into INVALID_RESPONSE.                 *)
(***************************************************************************)
Callback(answer) ==
  IF answer.oem THEN IF oem THEN answer.v1_0 ELSE "none"
  ELSE IF client = "none" THEN "none" ELSE answer[client]

Respond(error, payload) ==
  LET answer == Answers[Commands[script.request]]
      callback == Callback(answer)
      given == IF error = "SUCCESS" /\ payload \in answer.rejects
               THEN "INVALID_RESPONSE" ELSE error
  IN IF callback = "none"
     THEN lost' = lost + 1 /\ UNCHANGED answers
     ELSE answers' = Append(answers, [callback |-> callback, error |-> given])
          /\ UNCHANGED lost

(***************************************************************************)
(* The binder thread.                                                      *)
(***************************************************************************)
(* Mutant: changeIccPin2ForApp makes the request of changeIccPinForApp. *)
CallCopied(m) ==
  /\ binder = "idle" /\ request = "none"
  /\ \E s \in Scripts[version][IF m = "changeIccPin2ForApp" THEN "changeIccPinForApp" ELSE m] :
       script' = s
  /\ method' = m /\ step' = 1 /\ binder' = "marshal" /\ request' = "listed"
  /\ told' = "none"
  /\ UNCHANGED <<callers, heap, answers, lost>>

(* addRequestToList, then the method's own steps. *)
Call(m) ==
  /\ binder = "idle" /\ request = "none"
  /\ \E s \in Scripts[version][m] :
       script' = s
  /\ method' = m /\ step' = 1 /\ binder' = "marshal" /\ request' = "listed"
  /\ told' = "none"
  /\ UNCHANGED <<callers, heap, answers, lost>>

(* addRequestToList has no memory: the method gives up without an answer,  *)
(* or hands NULL to sendErrorResponse.                                     *)
CallUnlisted(m) ==
  /\ binder = "idle" /\ request = "none"
  /\ \E s \in Scripts[version][m] :
       binder' = IF s.checked THEN "idle" ELSE "crashed"
  /\ told' = "none"
  /\ UNCHANGED <<callers, method, script, step, heap, request, answers, lost>>

Current == script.steps[step]
InSteps == binder = "marshal" /\ step <= Len(script.steps)

StepTakes ==
  /\ InSteps /\ script.sent
  /\ heap' = heap \cup {<<method, a>> : a \in Current.takes}
  /\ step' = step + 1
  /\ UNCHANGED <<callers, binder, method, script, request, answers, lost, told>>

(* An empty string is passed on as NULL. *)
StepSkips ==
  /\ InSteps /\ script.sent /\ Current.empty
  /\ step' = step + 1
  /\ UNCHANGED <<callers, binder, method, script, heap, request, answers, lost, told>>

StepFails ==
  /\ InSteps
  /\ \E error \in Current.errors : Respond(error, "absent")
  /\ heap' = heap \ {<<method, a>> : a \in Current.undo}
  /\ binder' = "idle" /\ request' = "refused"
  /\ UNCHANGED <<callers, method, script, step, told>>

OnRequest ==
  /\ binder = "marshal" /\ step = Len(script.steps) + 1
  /\ binder' = "onRequest" /\ request' = "sent"
  /\ UNCHANGED <<callers, method, script, step, heap, answers, lost, told>>

(* Mutant: success is reported whether or not the vendor has answered. *)
OnRequestReturnsTwice ==
  /\ binder = "onRequest"
  /\ binder' = "idle"
  /\ heap' = heap \ {<<method, a>> : a \in script.frees}
  /\ IF script.fake
     THEN Respond("SUCCESS", "absent") /\ request' = "answered"
     ELSE UNCHANGED <<request, answers, lost>>
  /\ UNCHANGED <<callers, method, script, step, told>>

(* Mutant: the copies of a request answered meanwhile are not freed. *)
OnRequestReturnsKeeping ==
  /\ binder = "onRequest"
  /\ binder' = "idle"
  /\ heap' = IF request = "sent" THEN heap \ {<<method, a>> : a \in script.frees}
             ELSE heap
  /\ IF script.fake /\ request = "sent"
     THEN Respond("SUCCESS", "absent") /\ request' = "answered"
     ELSE UNCHANGED <<request, answers, lost>>
  /\ UNCHANGED <<callers, method, script, step, told>>

(* onRequest returns: the copies are freed, and dispatchStrings reports    *)
(* success for a manual network selection, which counts only if the        *)
(* request is still pending.                                               *)
OnRequestReturns ==
  /\ binder = "onRequest"
  /\ binder' = "idle"
  /\ heap' = heap \ {<<method, a>> : a \in script.frees}
  /\ IF script.fake /\ request = "sent"
     THEN Respond("SUCCESS", "absent") /\ request' = "answered"
     ELSE UNCHANGED <<request, answers, lost>>
  /\ UNCHANGED <<callers, method, script, step, told>>

(* The call and its answer are over. What is still allocated is out of     *)
(* reach, no later step depends on it: it is not carried over.             *)
Forget ==
  /\ binder = "idle" /\ request \in {"refused", "answered"}
  /\ request' = "none" /\ answers' = <<>> /\ lost' = 0
  /\ method' = "none" /\ script' = <<>> /\ step' = 0 /\ heap' = {}
  /\ UNCHANGED <<callers, binder, told>>

(***************************************************************************)
(* The vendor library.                                                     *)
(***************************************************************************)
(* RIL_onRequestComplete: a request that is no longer pending is ignored. *)
VendorCompletes ==
  /\ binder # "crashed" /\ request = "sent"
  /\ \E error \in Errors, payload \in Payloads : Respond(error, payload)
  /\ request' = "answered"
  /\ UNCHANGED <<callers, binder, method, script, step, heap, told>>

(* Mutant: the result of the cast to the 1.1 interface is not looked at. *)
UnsolicitedUncast(u, payload) ==
  /\ binder = "idle" /\ request = "none" /\ UnsolCommands[u] # "none"
  /\ LET i == Indications[UnsolCommands[u]]
         heard == (IF i.oem THEN oem ELSE client # "none") /\ payload \in i.accepts
     IN told' = (IF heard THEN i.callback ELSE "none") /\ UNCHANGED binder
  /\ UNCHANGED <<callers, method, script, step, heap, request, answers, lost>>

(* RIL_onUnsolicitedResponse: a message without a function is dropped; the *)
(* cast of a 1.0 client to the 1.1 interface succeeds with a null pointer, *)
(* which keepaliveStatus calls. Nothing here but the client is shared with *)
(* a call, so messages are looked at between calls.                        *)
Unsolicited(u, payload) ==
  /\ binder = "idle" /\ request = "none" /\ UnsolCommands[u] # "none"
  /\ LET i == Indications[UnsolCommands[u]]
         present == IF i.oem THEN oem
                    ELSE client # "none" /\ (i.only11 /\ ~i.cast => client = "v1_1")
         heard == present /\ payload \in i.accepts
     IN IF heard /\ i.cast /\ client = "v1_0"
        THEN binder' = "crashed" /\ told' = "none"
        ELSE told' = (IF heard THEN i.callback ELSE "none") /\ UNCHANGED binder
  /\ UNCHANGED <<callers, method, script, step, heap, request, answers, lost>>

(* The daemon dies with its memory; init starts it again. *)
Restart ==
  /\ binder = "crashed"
  /\ version' = version /\ client' = "none" /\ oem' = FALSE
  /\ binder' = "idle" /\ method' = "none" /\ script' = <<>> /\ step' = 0
  /\ heap' = {} /\ request' = "none" /\ answers' = <<>> /\ lost' = 0
  /\ told' = "none"

Next ==
  \/ \E c \in {"none", "v1_0", "v1_1"} : SetResponseFunctions(c)
  \/ OemSetResponseFunctions
  \/ \E m \in Methods : Call(m) \/ CallUnlisted(m)
  \/ StepTakes \/ StepSkips \/ StepFails
  \/ OnRequest \/ OnRequestReturns \/ Forget
  \/ VendorCompletes
  \/ \E u \in Unsols, p \in Payloads \cup {"empty"} : Unsolicited(u, p)
  \/ Restart

Spec == Init /\ [][Next]_vars

(***************************************************************************)
(* Properties.                                                             *)
(***************************************************************************)
(* The methods known to keep memory (see README). *)
Leaking == {"setCarrierInfoForImsiEncryption"}

(* Whatever step of a method fails, and whether or not the request is      *)
(* sent, nothing the method took is left when it returns                   *)
(* (memsetAndFreeStrings and free on every path).                          *)
NothingLeaked ==
  binder = "idle" => \A h \in heap : h[1] \in Leaking

(* The request of a call that is over was answered exactly once, by the    *)
(* method itself, by the vendor or by the success dispatchStrings makes up.*)
AnsweredOnce ==
  /\ Len(answers) + lost = IF request \in {"refused", "answered"} THEN 1 ELSE 0
  /\ \A i \in DOMAIN answers :
       request = "refused" => answers[i].error # "SUCCESS"

(* The callback a client waits for after a method: the method's name, with *)
(* two historical exceptions.                                              *)
Promised(m) ==
  CASE m = "getImsiForApp" -> {"getIMSIForApp"}
    [] m = "hangup" -> {"hangupConnection"}
    [] m = "setSimCardPower" -> {"setSimCardPower", "setSimCardPower_1_1"}
    [] m = "setSimCardPower_1_1" -> {"setSimCardPower", "setSimCardPower_1_1"}
    [] OTHER -> {m}

ReachesMethod(m) == \A i \in DOMAIN answers : answers[i].callback \in Promised(m)

(* The answer to every method but one is given to the callback of that     *)
(* method: method, request code, response function and callback, four      *)
(* tables kept by hand, agree.                                             *)
Misrouted == {"hangupForegroundResumeBackground"}

AnswerReachesMethod == method \notin Misrouted => ReachesMethod(method)

(* "responses for those requests coming back from the vendor code": the    *)
(* same for every method.                                                  *)
EveryAnswerReachesMethod == ReachesMethod(method)

Api11 == {"startNetworkScan", "stopNetworkScan", "startKeepalive", "stopKeepalive",
          "setCarrierInfoForImsiEncryption", "setSimCardPower_1_1",
          "networkScanResult", "carrierInfoForImsiEncryption", "keepaliveStatus"}

(* A 1.0 client is never called on a 1.1 callback, by an answer or by an   *)
(* indication, even when it replaced a 1.1 client after the call.          *)
OldClientSafe ==
  [][client = "v1_0" =>
       /\ told' \notin Api11
       /\ Len(answers') > Len(answers) =>
            answers'[Len(answers')].callback \notin Api11]_vars

(***************************************************************************)
(* What the properties need of the tables. The tables are finite: TLC      *)
(* evaluates these for every method, request and message (MCRilDispatch),  *)
(* and the proofs take them as hypotheses.                                 *)
(***************************************************************************)
ScriptsOf(m) == UNION {Scripts[v][m] : v \in Versions}

TakenBefore(s, i) == UNION {s.steps[j].takes : j \in 1..(i - 1)}

(* A step that fails frees what the steps before it took, and what all of  *)
(* them took is freed once onRequest has returned.                         *)
FreesWhatItTook(s) ==
  /\ \A i \in 1..Len(s.steps) :
       s.sent /\ s.steps[i].errors # {} => TakenBefore(s, i) \subseteq s.steps[i].undo
  /\ TakenBefore(s, Len(s.steps) + 1) \subseteq s.frees

ScriptsFree == \A m \in Methods \ Leaking : \A s \in ScriptsOf(m) : FreesWhatItTook(s)

(* A method that gives up never reports success. *)
FailuresAreErrors ==
  \A m \in Methods : \A s \in ScriptsOf(m) : \A i \in 1..Len(s.steps) :
     "SUCCESS" \notin s.steps[i].errors

(* A response function of the 1.1 interface has no callback for a 1.0      *)
(* client, and no OEM hook is one.                                         *)
AnswersFit10 ==
  \A m \in Methods : \A s \in ScriptsOf(m) :
     Answers[Commands[s.request]].v1_0 \notin Api11

(* The callbacks a request's response function knows are those its method  *)
(* promises.                                                               *)
AnswersNamed ==
  \A m \in Methods \ Misrouted : \A s \in ScriptsOf(m) :
     LET a == Answers[Commands[s.request]]
     IN {a.v1_0, a.v1_1} \ {"none"} \subseteq Promised(m)

(* An indication of the 1.1 interface looks for a 1.1 client. *)
IndicationsFit10 ==
  \A u \in Unsols : UnsolCommands[u] # "none" =>
     LET i == Indications[UnsolCommands[u]]
     IN i.callback \in Api11 => i.only11 /\ ~i.oem

============================================================================
