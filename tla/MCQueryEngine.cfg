SPECIFICATION Spec
CONSTANTS
  Threads = {t1, t2}
  NoThread = NoThread
  Names = {"users", "orders"}
  Schemas = {"a"}
  Values = {"x", "y"}
  Unreadable = {}
  MaxId = 2
  Fold <- DistinctNames
  Policy = "SPLIT_RWLOCK"
  Wheres <- MCWheres
  Faults = {"load", "open"}
  InitialFiles <- MCInitialFiles
  MaxCalls = 3
SYMMETRY ThreadSymmetry
INVARIANTS
  TypeOK
  IndexMatchesRows
  MemoryMatchesFile
PROPERTIES
  ImplementsDatabase
