CONSTANTS
  Versions = {15}
  Methods <- HangupMethods
  Unsols <- RingUnsols
SPECIFICATION Spec
INVARIANT
  EveryAnswerReachesMethod
