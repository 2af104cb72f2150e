---------------------------- MODULE TimerService ----------------------------
(***************************************************************************)
(* What libril promises a caller of RIL_requestTimedCallback and           *)
(* internalRequestTimedCallback: a requested timer runs its callback once, *)
(* on the dispatch thread, one callback at a time, and not for ever after  *)
(* it was requested.  Time and the event loop's data structures are left   *)
(* out; module RilEvent implements this one.                               *)
(***************************************************************************)

CONSTANT Timers          \* the UserCallbackInfo objects the heap hands out

VARIABLE timer           \* timer[t]: where UserCallbackInfo t is in its life

States == {"idle", "armed", "firing"}

TypeOK == timer \in [Timers -> States]

Init == timer = [t \in Timers |-> "idle"]

(* internalRequestTimedCallback: a fresh UserCallbackInfo enters the timer list. *)
Request(t) == /\ timer[t] = "idle"
              /\ timer' = [timer EXCEPT ![t] = "armed"]

(* firePending calls userTimerCallback, which calls the user's callback. *)
Fire(t) == /\ timer[t] = "armed"
           /\ \A u \in Timers : timer[u] # "firing"
           /\ timer' = [timer EXCEPT ![t] = "firing"]

(* The callback returned and userTimerCallback freed the UserCallbackInfo. *)
Return(t) == /\ timer[t] = "firing"
             /\ timer' = [timer EXCEPT ![t] = "idle"]

Next == \E t \in Timers : Request(t) \/ Fire(t) \/ Return(t)

Spec == Init /\ [][Next]_timer

FairSpec == Spec /\ \A t \in Timers : SF_timer(Fire(t)) /\ WF_timer(Return(t))

-----------------------------------------------------------------------------
(* The dispatch thread runs one timer callback at a time (firePending). *)
OneCallbackAtATime ==
    \A t, u \in Timers : timer[t] = "firing" /\ timer[u] = "firing" => t = u

(* A requested timer is eventually given to its callback. *)
EveryTimerFires == \A t \in Timers : timer[t] = "armed" ~> timer[t] = "firing"
=============================================================================
