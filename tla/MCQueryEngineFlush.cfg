SPECIFICATION Spec
CONSTANTS
  Threads = {t1, t2}
  NoThread = NoThread
  Names = {"users", "orders"}
  Schemas = {"a"}
  Values = {"x"}
  Unreadable = {}
  MaxId = 2
  Fold <- DistinctNames
  Policy = "SPLIT_RWLOCK"
  Wheres <- OneWhere
  Faults = {"flush"}
  InitialFiles <- EmptyDirectory
  MaxCalls = 3
SYMMETRY ThreadSymmetry
CHECK_DEADLOCK FALSE
INVARIANTS
  MemoryMatchesFile
