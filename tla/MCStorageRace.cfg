SPECIFICATION Spec
CONSTANTS
  Procs = {p1, p2}
  Deleters = {p1}
  Existing <- MCExisting
  Inserts <- MCInserts
  Deletes <- MCDeletes
  Probes <- MCProbes
  Faults = {}
  MaxCalls = 4
  MaxInodes = 3
CHECK_DEADLOCK FALSE
PROPERTIES
  InsertIsNotLost
