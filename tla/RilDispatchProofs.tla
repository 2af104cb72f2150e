-------------------------- MODULE RilDispatchProofs -------------------------
(* What holds of RilDispatch for any methods, vendor versions and           *)
(* unsolicited messages: no call leaks, each is answered once and through   *)
(* the callback of its method, and no 1.0 client gets a callback of the 1.1 *)
(* interface. The proofs use only what TablesSound says of single entries   *)
(* of the tables.                                                           *)
EXTENDS RilDispatch, TLAPS

(* The binder thread and the request it lists go together: a request is sent
   or refused before the method returns, and the daemon crashes only between
   two requests. *)
PhaseInv ==
    /\ binder \in {"idle", "marshal", "onRequest", "crashed"}
    /\ request \in {"none", "listed", "sent", "refused", "answered"}
    /\ binder = "marshal" <=> request = "listed"
    /\ binder = "onRequest" => request \in {"sent", "answered"}
    /\ binder = "crashed" => request = "none"
    /\ step \in Nat /\ (binder = "marshal" => step > 0)

(* A request in progress runs one of its method's scripts. *)
ScriptInv == request # "none" => method \in Methods /\ script \in ScriptsOf(method)

(* One answer, taken by a client or lost, once the request is over. *)
GivenInv ==
    /\ request \notin {"refused", "answered"} => answers = <<>> /\ lost = 0
    /\ request \in {"refused", "answered"} =>
          \/ answers = <<>> /\ lost = 1
          \/ answers = <<answers[1]>> /\ lost = 0
    /\ request = "refused" /\ answers # <<>> => answers[1].error # "SUCCESS"

(* The copies a step may have left: those of the steps before it. *)
Copied(i) == {<<method, a>> : a \in TakenBefore(script, i)}

CopiesInv ==
    /\ request = "none" => heap = {}
    /\ request # "none" /\ method \notin Leaking =>
          /\ binder = "marshal" => heap \subseteq (IF script.sent THEN Copied(step) ELSE {})
          /\ binder = "onRequest" => heap \subseteq Copied(Len(script.steps) + 1)
          /\ binder = "idle" => heap = {}
    /\ \A h \in heap : h[1] = method

(* What the current client was told last, it can have been told. *)
ToldInv == client = "v1_0" => told \notin Api11

TablesSound == /\ ScriptsFree /\ FailuresAreErrors /\ AnswersNamed
               /\ AnswersFit10 /\ IndicationsFit10

(* One more step done is its copies more. *)
LEMMA TakenGrows ==
  ASSUME NEW s, NEW i \in Nat, i > 0
  PROVE  TakenBefore(s, i + 1) = TakenBefore(s, i) \cup s.steps[i].takes
<1>1. 1..(i + 1 - 1) = 1..(i - 1) \cup {i}
  OBVIOUS
<1> QED
  BY <1>1 DEF TakenBefore

(* Before the first step nothing is copied. *)
LEMMA NothingTaken == \A s : TakenBefore(s, 1) = {}
  BY DEF TakenBefore

(* Every step keeps the binder thread and its request together. *)
LEMMA PhaseStep ==
  ASSUME version \in Versions, PhaseInv, ScriptInv, [Next]_vars
  PROVE  (version \in Versions /\ PhaseInv /\ ScriptInv)'
<1>1. ASSUME NEW c \in {"none", "v1_0", "v1_1"}, SetResponseFunctions(c)
      PROVE  (version \in Versions /\ PhaseInv /\ ScriptInv)'
  BY <1>1 DEF PhaseInv, ScriptInv, ScriptsOf, Scripts, SetResponseFunctions, callers
<1>2. CASE OemSetResponseFunctions
  BY <1>2 DEF PhaseInv, ScriptInv, ScriptsOf, Scripts, OemSetResponseFunctions, callers
<1>3. ASSUME NEW m \in Methods, Call(m)
      PROVE  (version \in Versions /\ PhaseInv /\ ScriptInv)'
  BY <1>3 DEF PhaseInv, ScriptInv, ScriptsOf, Scripts, Call, callers
<1>4. ASSUME NEW m \in Methods, CallUnlisted(m)
      PROVE  (version \in Versions /\ PhaseInv /\ ScriptInv)'
  BY <1>4 DEF PhaseInv, ScriptInv, ScriptsOf, Scripts, CallUnlisted, callers
<1>5. CASE StepTakes
  BY <1>5 DEF PhaseInv, ScriptInv, ScriptsOf, Scripts, StepTakes, callers, InSteps
<1>6. CASE StepSkips
  BY <1>6 DEF PhaseInv, ScriptInv, ScriptsOf, Scripts, StepSkips, callers, InSteps
<1>7. CASE StepFails
  BY <1>7 DEF PhaseInv, ScriptInv, ScriptsOf, Scripts, StepFails, callers, InSteps
<1>8. CASE OnRequest
  BY <1>8 DEF PhaseInv, ScriptInv, ScriptsOf, Scripts, OnRequest, callers
<1>9. CASE OnRequestReturns
  BY <1>9 DEF PhaseInv, ScriptInv, ScriptsOf, Scripts, OnRequestReturns, callers
<1>10. CASE Forget
  BY <1>10 DEF PhaseInv, ScriptInv, ScriptsOf, Scripts, Forget, callers
<1>11. CASE VendorCompletes
  BY <1>11 DEF PhaseInv, ScriptInv, ScriptsOf, Scripts, VendorCompletes, callers
<1>12. ASSUME NEW u \in Unsols, NEW p \in Payloads \cup {"empty"}, Unsolicited(u, p)
      PROVE  (version \in Versions /\ PhaseInv /\ ScriptInv)'
  BY <1>12 DEF PhaseInv, ScriptInv, ScriptsOf, Scripts, Unsolicited, callers
<1>13. CASE Restart
  BY <1>13 DEF PhaseInv, ScriptInv, ScriptsOf, Scripts, Restart, callers
<1>14. CASE UNCHANGED vars
  BY <1>14 DEF PhaseInv, ScriptInv, ScriptsOf, Scripts, vars, callers
<1> QED
  BY <1>1, <1>2, <1>3, <1>4, <1>5, <1>6, <1>7,
     <1>8, <1>9, <1>10, <1>11, <1>12, <1>13, <1>14 DEF Next

(* A response is answers to a client or lost. *)
LEMMA RespondOnce ==
  ASSUME NEW error, NEW payload, Respond(error, payload), answers = <<>>, lost = 0
  PROVE  /\ \/ answers' = <<>> /\ lost' = 1
            \/ answers' = <<answers'[1]>> /\ lost' = 0
         /\ error # "SUCCESS" /\ answers' # <<>> => answers'[1].error # "SUCCESS"
  BY DEF Respond

(* Every step leaves one answer to a call that is over. *)
LEMMA GivenStep ==
  ASSUME FailuresAreErrors, PhaseInv, ScriptInv, GivenInv, [Next]_vars
  PROVE  GivenInv'
<1>1. ASSUME NEW c \in {"none", "v1_0", "v1_1"}, SetResponseFunctions(c)
      PROVE  GivenInv'
  BY <1>1 DEF GivenInv, PhaseInv, SetResponseFunctions, callers
<1>2. CASE OemSetResponseFunctions
  BY <1>2 DEF GivenInv, PhaseInv, OemSetResponseFunctions, callers
<1>3. ASSUME NEW m \in Methods, Call(m)
      PROVE  GivenInv'
  BY <1>3 DEF GivenInv, PhaseInv, Call, callers
<1>4. ASSUME NEW m \in Methods, CallUnlisted(m)
      PROVE  GivenInv'
  BY <1>4 DEF GivenInv, PhaseInv, CallUnlisted, callers
<1>5. CASE StepTakes
  BY <1>5 DEF GivenInv, PhaseInv, StepTakes, callers
<1>6. CASE StepSkips
  BY <1>6 DEF GivenInv, PhaseInv, StepSkips, callers
<1>7. CASE StepFails
  <2>1. PICK error \in Current.errors : Respond(error, "absent")
    BY <1>7 DEF StepFails
  <2>2. error # "SUCCESS"
    BY <1>7 DEF StepFails, InSteps, Current, FailuresAreErrors, PhaseInv, ScriptInv
  <2> QED
    BY <1>7, <2>1, <2>2, RespondOnce DEF StepFails, InSteps, GivenInv, PhaseInv
<1>8. CASE OnRequest
  BY <1>8 DEF GivenInv, PhaseInv, OnRequest, callers
<1>9. CASE OnRequestReturns
  <2>1. CASE script.fake /\ request = "sent"
    BY <1>9, <2>1, RespondOnce DEF OnRequestReturns, GivenInv
  <2>2. CASE ~(script.fake /\ request = "sent")
    BY <1>9, <2>2 DEF OnRequestReturns, GivenInv
  <2> QED
    BY <2>1, <2>2
<1>10. CASE Forget
  BY <1>10 DEF GivenInv, PhaseInv, Forget, callers
<1>11. CASE VendorCompletes
  BY <1>11, RespondOnce DEF VendorCompletes, GivenInv
<1>12. ASSUME NEW u \in Unsols, NEW p \in Payloads \cup {"empty"}, Unsolicited(u, p)
      PROVE  GivenInv'
  BY <1>12 DEF GivenInv, PhaseInv, Unsolicited, callers
<1>13. CASE Restart
  BY <1>13 DEF GivenInv, PhaseInv, Restart, callers
<1>14. CASE UNCHANGED vars
  BY <1>14 DEF GivenInv, PhaseInv, vars, callers
<1> QED
  BY <1>1, <1>2, <1>3, <1>4, <1>5, <1>6, <1>7,
     <1>8, <1>9, <1>10, <1>11, <1>12, <1>13, <1>14 DEF Next

(* Every step leaves no copy that its method will not free. *)
LEMMA CopiesStep ==
  ASSUME ScriptsFree, PhaseInv, ScriptInv, CopiesInv, [Next]_vars
  PROVE  CopiesInv'
<1>1. ASSUME NEW c \in {"none", "v1_0", "v1_1"}, SetResponseFunctions(c)
      PROVE  CopiesInv'
  BY <1>1 DEF CopiesInv, Copied, PhaseInv, SetResponseFunctions, callers
<1>2. CASE OemSetResponseFunctions
  BY <1>2 DEF CopiesInv, Copied, PhaseInv, OemSetResponseFunctions, callers
<1>3. ASSUME NEW m \in Methods, Call(m)
      PROVE  CopiesInv'
  <2>1. TakenBefore(script', 1) = {}
    BY NothingTaken
  <2> QED
    BY <1>3, <2>1 DEF CopiesInv, Copied, PhaseInv, Call, callers
<1>4. ASSUME NEW m \in Methods, CallUnlisted(m)
      PROVE  CopiesInv'
  BY <1>4 DEF CopiesInv, Copied, PhaseInv, CallUnlisted, callers
<1>5. CASE StepTakes
  <2>1. TakenBefore(script, step + 1) = TakenBefore(script, step) \cup Current.takes
    BY <1>5, TakenGrows DEF PhaseInv, StepTakes, InSteps, Current
  <2> QED
    BY <1>5, <2>1 DEF CopiesInv, Copied, PhaseInv, StepTakes, InSteps, callers
<1>6. CASE StepSkips
  <2>1. TakenBefore(script, step + 1) = TakenBefore(script, step) \cup Current.takes
    BY <1>6, TakenGrows DEF PhaseInv, StepSkips, InSteps, Current
  <2> QED
    BY <1>6, <2>1 DEF CopiesInv, Copied, PhaseInv, StepSkips, InSteps, callers
<1>7. CASE StepFails
  <2>1. /\ binder = "marshal" /\ request = "listed" /\ step \in 1..Len(script.steps)
       /\ binder' = "idle" /\ request' = "refused" /\ UNCHANGED <<method, script>>
       /\ script.steps[step].errors # {}
       /\ heap' = heap \ {<<method, a>> : a \in script.steps[step].undo}
    BY <1>7 DEF StepFails, InSteps, Current, callers, PhaseInv
  <2>2. ASSUME method \notin Leaking PROVE heap' = {}
    <3>1. FreesWhatItTook(script)
      BY <2>1, <2>2 DEF ScriptsFree, ScriptInv
    <3>2. script.sent => TakenBefore(script, step) \subseteq script.steps[step].undo
      BY <3>1, <2>1 DEF FreesWhatItTook
    <3>3. heap \subseteq IF script.sent THEN Copied(step) ELSE {}
      BY <2>1, <2>2 DEF CopiesInv
    <3> QED
      BY <2>1, <3>2, <3>3 DEF Copied
  <2> QED
    BY <2>1, <2>2 DEF CopiesInv
<1>8. CASE OnRequest
  BY <1>8 DEF CopiesInv, Copied, PhaseInv, OnRequest, callers
<1>9. CASE OnRequestReturns
  <2>1. /\ binder = "onRequest" /\ request # "none" /\ binder' = "idle" /\ request' # "none"
       /\ UNCHANGED <<method, script>>
       /\ heap' = heap \ {<<method, a>> : a \in script.frees}
    BY <1>9 DEF OnRequestReturns, callers, PhaseInv
  <2>2. ASSUME method \notin Leaking PROVE heap' = {}
    <3>1. TakenBefore(script, Len(script.steps) + 1) \subseteq script.frees
      BY <2>1, <2>2 DEF ScriptsFree, ScriptInv, FreesWhatItTook
    <3> QED
      BY <2>1, <2>2, <3>1 DEF CopiesInv, Copied
  <2> QED
    BY <2>1, <2>2 DEF CopiesInv
<1>10. CASE Forget
  BY <1>10 DEF CopiesInv, Copied, PhaseInv, Forget, callers
<1>11. CASE VendorCompletes
  BY <1>11 DEF CopiesInv, Copied, PhaseInv, VendorCompletes, callers
<1>12. ASSUME NEW u \in Unsols, NEW p \in Payloads \cup {"empty"}, Unsolicited(u, p)
      PROVE  CopiesInv'
  BY <1>12 DEF CopiesInv, Copied, PhaseInv, Unsolicited, callers
<1>13. CASE Restart
  BY <1>13 DEF CopiesInv, Copied, PhaseInv, Restart, callers
<1>14. CASE UNCHANGED vars
  BY <1>14 DEF CopiesInv, Copied, PhaseInv, vars, callers
<1> QED
  BY <1>1, <1>2, <1>3, <1>4, <1>5, <1>6, <1>7,
     <1>8, <1>9, <1>10, <1>11, <1>12, <1>13, <1>14 DEF Next

(* Every step tells a 1.0 client nothing of the 1.1 interface. *)
LEMMA ToldStep ==
  ASSUME IndicationsFit10, PhaseInv, ToldInv, [Next]_vars
  PROVE  ToldInv'
<1>1. ASSUME NEW c \in {"none", "v1_0", "v1_1"}, SetResponseFunctions(c)
      PROVE  ToldInv'
  BY <1>1 DEF ToldInv, PhaseInv, Api11, SetResponseFunctions, callers
<1>2. CASE OemSetResponseFunctions
  BY <1>2 DEF ToldInv, PhaseInv, Api11, OemSetResponseFunctions, callers
<1>3. ASSUME NEW m \in Methods, Call(m)
      PROVE  ToldInv'
  BY <1>3 DEF ToldInv, PhaseInv, Api11, Call, callers
<1>4. ASSUME NEW m \in Methods, CallUnlisted(m)
      PROVE  ToldInv'
  BY <1>4 DEF ToldInv, PhaseInv, Api11, CallUnlisted, callers
<1>5. CASE StepTakes
  BY <1>5 DEF ToldInv, PhaseInv, Api11, StepTakes, callers
<1>6. CASE StepSkips
  BY <1>6 DEF ToldInv, PhaseInv, Api11, StepSkips, callers
<1>7. CASE StepFails
  BY <1>7 DEF ToldInv, PhaseInv, Api11, StepFails, callers
<1>8. CASE OnRequest
  BY <1>8 DEF ToldInv, PhaseInv, Api11, OnRequest, callers
<1>9. CASE OnRequestReturns
  BY <1>9 DEF ToldInv, PhaseInv, Api11, OnRequestReturns, callers
<1>10. CASE Forget
  BY <1>10 DEF ToldInv, PhaseInv, Api11, Forget, callers
<1>11. CASE VendorCompletes
  BY <1>11 DEF ToldInv, PhaseInv, Api11, VendorCompletes, callers
<1>12. ASSUME NEW u \in Unsols, NEW p \in Payloads \cup {"empty"}, Unsolicited(u, p)
      PROVE  ToldInv'
  <2> DEFINE i == Indications[UnsolCommands[u]]
  <2>1. UNCHANGED client /\ UnsolCommands[u] # "none"
    BY <1>12 DEF Unsolicited, callers
  <2>2. told' \in {"none", i.callback}
    BY <1>12 DEF Unsolicited
  <2>3. client = "v1_0" /\ told' # "none" => i.oem \/ ~i.only11
    BY <1>12 DEF Unsolicited
  <2>4. i.callback \in Api11 => i.only11 /\ ~i.oem
    BY <2>1 DEF IndicationsFit10
  <2> HIDE DEF i
  <2> QED
    BY <2>1, <2>2, <2>3, <2>4 DEF ToldInv, Api11
<1>13. CASE Restart
  BY <1>13 DEF ToldInv, PhaseInv, Api11, Restart, callers
<1>14. CASE UNCHANGED vars
  BY <1>14 DEF ToldInv, PhaseInv, Api11, vars, callers
<1> QED
  BY <1>1, <1>2, <1>3, <1>4, <1>5, <1>6, <1>7,
     <1>8, <1>9, <1>10, <1>11, <1>12, <1>13, <1>14 DEF Next

(* The inductive invariant of a call. *)
DInv == version \in Versions /\ PhaseInv /\ ScriptInv /\ GivenInv /\ CopiesInv /\ ToldInv

(* It holds in every state. *)
LEMMA CallsHold == TablesSound => (Spec => []DInv)
<1> SUFFICES ASSUME TablesSound PROVE Spec => []DInv
  OBVIOUS
<1>1. Init => DInv
  BY DEF Init, Idle, DInv, PhaseInv, ScriptInv, GivenInv, CopiesInv, ToldInv
<1>2. DInv /\ [Next]_vars => DInv'
  BY PhaseStep, GivenStep, CopiesStep, ToldStep DEF DInv, TablesSound
<1> QED
  BY <1>1, <1>2, PTL DEF Spec

(* At most one answer is answers, exactly one once the request is over. *)
LEMMA GivenLength ==
  ASSUME GivenInv
  PROVE  /\ answers \in Seq({answers[1]})
         /\ Len(answers) + lost = IF request \in {"refused", "answered"} THEN 1 ELSE 0
<1> DEFINE x == answers[1]
<1>1. <<>> \in Seq({x}) /\ <<x>> \in Seq({x}) /\ Len(<<x>>) = 1
  <2> HIDE DEF x
  <2> QED
    OBVIOUS
<1>2. answers = <<>> \/ answers = <<x>>
  BY DEF GivenInv
<1>3. /\ request \notin {"refused", "answered"} => answers = <<>> /\ lost = 0
      /\ request \in {"refused", "answered"} =>
            (answers = <<>> /\ lost = 1) \/ (answers = <<x>> /\ lost = 0)
  BY DEF GivenInv
<1> HIDE DEF x
<1>4. answers \in Seq({x})
  <2>1. CASE answers = <<>>
    BY <1>1, <2>1
  <2>2. CASE answers = <<x>>
    BY <1>1, <2>2, Zenon
  <2> QED
    BY <1>2, <2>1, <2>2, Zenon
<1>5. Len(answers) + lost = IF request \in {"refused", "answered"} THEN 1 ELSE 0
  <2>1. answers = <<x>> => Len(answers) = 1
    BY <1>1, Zenon
  <2>2. answers = <<>> => Len(answers) = 0
    OBVIOUS
  <2>3. \/ Len(answers) = 0 /\ lost = 1 /\ request \in {"refused", "answered"}
        \/ Len(answers) = 1 /\ lost = 0 /\ request \in {"refused", "answered"}
        \/ Len(answers) = 0 /\ lost = 0 /\ request \notin {"refused", "answered"}
    BY <1>3, <2>1, <2>2, Zenon
  <2>4. 0 + 1 = 1 /\ 1 + 0 = 1 /\ 0 + 0 = 0
    OBVIOUS
  <2> QED
    BY <2>3, <2>4, Zenon
<1> QED
  BY <1>4, <1>5 DEF x

(* A response uses the callback of the client's interface. *)
LEMMA RespondFits ==
  ASSUME NEW error, NEW payload, Respond(error, payload), GivenInv,
         AnswersFit10, ScriptInv, request # "none", client = "v1_0",
         Len(answers') > Len(answers)
  PROVE  answers'[Len(answers')].callback \notin Api11
<1> DEFINE answer == Answers[Commands[script.request]]
<1>1. answer.v1_0 \notin Api11
  BY DEF AnswersFit10, ScriptInv
<1>2. Callback(answer) # "none" => Callback(answer) = answer.v1_0
  BY DEF Callback
<1>3. Callback(answer) # "none"
  BY DEF Respond, GivenInv
<1>4. \E g : answers' = Append(answers, [callback |-> Callback(answer), error |-> g])
  BY <1>3 DEF Respond
<1>5. answers \in Seq({answers[1]})
  BY GivenLength
<1> HIDE DEF answer
<1> QED
  BY <1>1, <1>2, <1>3, <1>4, <1>5

(* Whatever happens, a 1.0 client is not called on a 1.1 callback. *)
LEMMA OldClientStep ==
  ASSUME TablesSound, DInv, [Next]_vars, client = "v1_0"
  PROVE  /\ told' \notin Api11
         /\ Len(answers') > Len(answers) => answers'[Len(answers')].callback \notin Api11
<1>1. told' \notin Api11
  <2>1. ToldInv'
    BY ToldStep DEF DInv, TablesSound
  <2>2. client' = client \/ told' = "none"
    BY DEF Next, vars, callers, SetResponseFunctions, OemSetResponseFunctions,
       Call, CallUnlisted, StepTakes, StepSkips, StepFails, OnRequest,
       OnRequestReturns, Forget, VendorCompletes, Unsolicited, Restart
  <2> QED
    BY <2>1, <2>2 DEF ToldInv, Api11
<1>2. ASSUME Len(answers') > Len(answers) PROVE answers'[Len(answers')].callback \notin Api11
  <2>1. answers \in Seq({answers[1]})
    BY GivenLength DEF DInv
  <2>2. answers' # <<>>
    BY <1>2, <2>1
  <2>3. StepFails \/ OnRequestReturns \/ VendorCompletes
    BY <1>2, <2>1, <2>2 DEF Next, vars, callers, SetResponseFunctions,
       OemSetResponseFunctions, Call, CallUnlisted, StepTakes, StepSkips,
       OnRequest, Forget, Unsolicited, Restart
  <2>4. \E error, payload : Respond(error, payload)
    BY <1>2, <2>1, <2>3 DEF StepFails, OnRequestReturns, VendorCompletes
  <2>5. request # "none"
    BY <2>3 DEF DInv, PhaseInv, StepFails, InSteps, OnRequestReturns, VendorCompletes
  <2> QED
    BY <1>2, <2>4, <2>5, RespondFits DEF DInv, TablesSound
<1> QED
  BY <1>1, <1>2

(* No path through a request method, whatever step of it fails and whenever the
   vendor answers, leaves a copy of the arguments behind; setCarrierInfo-
   ForImsiEncryption is the known exception. *)
THEOREM NoCallLeaks == TablesSound => (Spec => []NothingLeaked)
<1>1. DInv => NothingLeaked
  BY DEF DInv, PhaseInv, CopiesInv, NothingLeaked
<1> QED
  BY <1>1, CallsHold, PTL

(* A call that is over was answered once, by the method, by the vendor or by
   the success dispatchStrings makes up, and a method that gave up never
   reported success. *)
THEOREM EachCallAnsweredOnce == TablesSound => (Spec => []AnsweredOnce)
<1>1. DInv => AnsweredOnce
  <2> SUFFICES ASSUME DInv PROVE AnsweredOnce
    OBVIOUS
  <2>1. Len(answers) + lost = IF request \in {"refused", "answered"} THEN 1 ELSE 0
    BY GivenLength DEF DInv
  <2>2. ASSUME NEW i \in DOMAIN answers, request = "refused" PROVE answers[i].error # "SUCCESS"
    <3>1. answers # <<>> /\ answers = <<answers[1]>> /\ answers[1].error # "SUCCESS"
      BY <2>2 DEF DInv, GivenInv
    <3>2. i = 1
      BY <2>2, <3>1
    <3> QED
      BY <3>1, <3>2
  <2> QED
    BY <2>1, <2>2 DEF AnsweredOnce
<1> QED
  BY <1>1, CallsHold, PTL

(* A 1.0 client is never called on a 1.1 callback, by an answer or by an
   indication, also when it has replaced the 1.1 client that called. *)
THEOREM OldClientsAreSafe == TablesSound => (Spec => OldClientSafe)
<1> SUFFICES ASSUME TablesSound PROVE Spec => OldClientSafe
  OBVIOUS
<1>1. DInv /\ [Next]_vars
        => [client = "v1_0" =>
              /\ told' \notin Api11
              /\ Len(answers') > Len(answers) => answers'[Len(answers')].callback \notin Api11]_vars
  BY OldClientStep
<1> QED
  BY <1>1, CallsHold, PTL DEF Spec, OldClientSafe

(* A response invokes the callback its request names, whichever client takes it. *)
LEMMA RespondReaches ==
  ASSUME NEW error, NEW payload, Respond(error, payload), AnswersNamed,
         method \in Methods \ Misrouted, script \in ScriptsOf(method),
         answers = <<>>, client \in {"none", "v1_0", "v1_1"}
  PROVE  \A i \in DOMAIN answers' : answers'[i].callback \in Promised(method)
<1> DEFINE answer == Answers[Commands[script.request]]
<1>1. {answer.v1_0, answer.v1_1} \ {"none"} \subseteq Promised(method)
  BY DEF AnswersNamed
<1>2. Callback(answer) \in {"none", answer.v1_0, answer.v1_1}
  BY DEF Callback
<1>3. \/ answers' = <<>>
      \/ /\ Callback(answer) # "none"
         /\ \E g : answers' = Append(<<>>, [callback |-> Callback(answer), error |-> g])
  BY DEF Respond
<1> HIDE DEF answer
<1>4. Callback(answer) # "none" => Callback(answer) \in Promised(method)
  BY <1>1, <1>2
<1> QED
  BY <1>3, <1>4

(* The client is one of the two interface versions, or none. *)
ClientInv == client \in {"none", "v1_0", "v1_1"}

LEMMA ReachStep ==
  ASSUME AnswersNamed, DInv, ClientInv, AnswerReachesMethod, [Next]_vars
  PROVE  ClientInv' /\ AnswerReachesMethod'
<1>1. ClientInv'
  BY DEF ClientInv, Next, vars, callers, SetResponseFunctions, OemSetResponseFunctions,
     Call, CallUnlisted, StepTakes, StepSkips, StepFails, OnRequest,
     OnRequestReturns, Forget, VendorCompletes, Unsolicited, Restart
<1> SUFFICES AnswerReachesMethod'
  BY <1>1
<1>2. CASE UNCHANGED <<method, answers>>
  BY <1>2 DEF AnswerReachesMethod, ReachesMethod
<1>3. CASE answers' = <<>>
  BY <1>3 DEF AnswerReachesMethod, ReachesMethod
<1>4. ASSUME NEW m \in Methods, Call(m) PROVE answers' = <<>>
  BY <1>4 DEF Call, DInv, GivenInv
<1>5. CASE Forget \/ Restart
  BY <1>3, <1>5 DEF Forget, Restart
<1>6. CASE StepFails \/ OnRequestReturns \/ VendorCompletes
  <2>1. CASE UNCHANGED answers
    BY <1>2, <1>6, <2>1 DEF StepFails, OnRequestReturns, VendorCompletes
  <2>2. CASE ~UNCHANGED answers
    <3>1. \E error, payload : Respond(error, payload)
      BY <1>6, <2>2 DEF StepFails, OnRequestReturns, VendorCompletes
    <3>2. /\ request \in {"listed", "sent"} /\ UNCHANGED <<method, script>>
      BY <1>6, <2>2 DEF StepFails, InSteps, OnRequestReturns, VendorCompletes, DInv, PhaseInv
    <3>3. /\ answers = <<>> /\ method \in Methods /\ script \in ScriptsOf(method)
      BY <3>2 DEF DInv, GivenInv, ScriptInv
    <3> QED
      BY <3>1, <3>2, <3>3, RespondReaches DEF ClientInv, AnswerReachesMethod, ReachesMethod
  <2> QED
    BY <2>1, <2>2
<1>7. ASSUME \/ \E c \in {"none", "v1_0", "v1_1"} : SetResponseFunctions(c)
             \/ OemSetResponseFunctions \/ \E m \in Methods : CallUnlisted(m)
             \/ StepTakes \/ StepSkips \/ OnRequest
             \/ \E u \in Unsols, p \in Payloads \cup {"empty"} : Unsolicited(u, p)
             \/ UNCHANGED vars
      PROVE  UNCHANGED <<method, answers>>
  BY <1>7 DEF SetResponseFunctions, OemSetResponseFunctions, CallUnlisted, StepTakes,
     StepSkips, OnRequest, Unsolicited, vars
<1> QED
  BY <1>1, <1>2, <1>3, <1>4, <1>5, <1>6, <1>7 DEF Next

(* Every answer is given through the callback of the method that was called,
   whoever answers and whichever client takes it: method, request code, response
   function and callback agree, hangupForegroundResumeBackground excepted. *)
THEOREM AnswersReachTheirMethod == TablesSound => (Spec => []AnswerReachesMethod)
<1> SUFFICES ASSUME TablesSound PROVE Spec => []AnswerReachesMethod
  OBVIOUS
<1>1. Init => ClientInv /\ AnswerReachesMethod
  BY DEF Init, Idle, ClientInv, AnswerReachesMethod, ReachesMethod
<1>2. DInv /\ ClientInv /\ AnswerReachesMethod /\ [Next]_vars
        => ClientInv' /\ AnswerReachesMethod'
  BY ReachStep DEF TablesSound
<1> QED
  BY <1>1, <1>2, CallsHold, PTL DEF Spec
=============================================================================
