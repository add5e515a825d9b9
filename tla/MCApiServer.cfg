SPECIFICATION FairSpec
CONSTANTS
  Fds = {f1, f2}
  NoFd = NoFd
  Capacity = 1
  N = 1
  Requests <- MCRequests
CHECK_DEADLOCK FALSE
INVARIANTS
  TypeOK
  OneOwnerPerDescriptor
  AnswerMatchesEffect
  EngineOutlivesHandlers
PROPERTIES
  HealthNeedsNoWorker
  EveryConnectionEnds
