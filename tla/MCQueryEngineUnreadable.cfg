SPECIFICATION Spec
CONSTANTS
  Threads = {t1, t2}
  NoThread = NoThread
  Names = {"users", "orders"}
  Schemas = {"a"}
  Values = {"x"}
  Unreadable = {"x"}
  MaxId = 2
  Fold <- DistinctNames
  Policy = "SPLIT_RWLOCK"
  Wheres <- OneWhere
  Faults = {}
  InitialFiles <- EmptyDirectory
  MaxCalls = 3
SYMMETRY ThreadSymmetry
CHECK_DEADLOCK FALSE
INVARIANTS
  LoadedTableCanBeReloaded
