SPECIFICATION FairSpec
CONSTANTS
  NoJob = NoJob
  N = 3
  Capacity = 2
  Jobs = {j1, j2, j3}
CHECK_DEADLOCK FALSE
INVARIANTS
  TypeOK
  NoLostWakeup
  BusyCountExact
  NoWorkerOutlivesPool
  EachJobOnce
PROPERTIES
  ImplementsFairJobPool
  ShutdownTerminates
  AcceptedJobIsHandled
