CONSTANTS
  Versions = {3, 14, 15}
  Methods <- AllMethods
  Unsols <- AllUnsols
SPECIFICATION Spec
INVARIANTS
  NothingLeaked
  AnsweredOnce
  AnswerReachesMethod
PROPERTY
  OldClientSafe
