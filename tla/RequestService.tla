--------------------------- MODULE RequestService ---------------------------
(***************************************************************************)
(* What a client of libril may rely on, a phone process or the Bluetooth   *)
(* process: each answer is to a request that was sent, and a request gets  *)
(* no second answer.  A request may stay without an answer (no memory, a   *)
(* dead client); who answers it, and in which order, is left open.         *)
(* RilRequests and SapService implement this one.                          *)
(***************************************************************************)
EXTENDS Naturals

CONSTANT Requests        \* the requests clients send, each once

VARIABLES
    sent,                \* those that arrived at the service
    answers              \* [Requests -> number of answers given]

vars == <<sent, answers>>

Init == sent = {} /\ answers = [r \in Requests |-> 0]

(* A request method is called. *)
Send(r) ==
    /\ r \notin sent
    /\ sent' = sent \cup {r}
    /\ UNCHANGED answers

(* The client's callback is called with the serial or token of the request. *)
Answer(r) ==
    /\ r \in sent /\ answers[r] = 0
    /\ answers' = [answers EXCEPT ![r] = 1]
    /\ UNCHANGED sent

Next == \E r \in Requests : Send(r) \/ Answer(r)

Spec == Init /\ [][Next]_vars
=============================================================================
