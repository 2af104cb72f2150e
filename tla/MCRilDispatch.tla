--------------------------- MODULE MCRilDispatch ---------------------------
(* All methods and all unsolicited messages. *)
EXTENDS RilDispatch

AllMethods == DOMAIN MethodsOf(15)
AllUnsols == DOMAIN UnsolCommands
HangupMethods == {"hangupForegroundResumeBackground", "hangupWaitingOrBackground"}
RingUnsols == {"CALL_RING"}

(* What the proofs take from the tables. *)
ASSUME TablesSound ==
  /\ ScriptsFree /\ FailuresAreErrors
  /\ AnswersNamed /\ AnswersFit10 /\ IndicationsFit10

============================================================================
