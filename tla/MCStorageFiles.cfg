SPECIFICATION Spec
CONSTANTS
  Procs = {p1, p2}
  Deleters = {p1}
  Existing <- MCExisting
  Inserts <- MCInserts
  Deletes <- MCDeletes
  Probes <- MCProbes
  Faults = {"short", "crash", "rename"}
  MaxCalls = 3
  MaxInodes = 3
CHECK_DEADLOCK FALSE
INVARIANTS
  TypeOK
  IdsUnique
  WritesAreCurrent
  NoGluedRow
  OffsetReadsLoadedRow
  IndexMatchesScan
PROPERTIES
  DeleteKeepsOthers
  InsertIsReadBack
