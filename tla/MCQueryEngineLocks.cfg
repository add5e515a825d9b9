SPECIFICATION FairSpec
CONSTANTS
  Threads = {t1, t2}
  NoThread = NoThread
  Names = {"users", "Users", "orders"}
  Schemas = {"a"}
  Values = {"x"}
  Unreadable = {"x"}
  MaxId = 2
  Fold <- CaseVariants
  Policy = "SPLIT_RWLOCK"
  Wheres <- OneWhere
  Faults = {"memory", "index", "load", "open", "lock", "flush"}
  InitialFiles <- EmptyDirectory
  MaxCalls = 3
CHECK_DEADLOCK FALSE
INVARIANTS
  LockDiscipline
  ReadLockSuffices
  RowsHaveFile
PROPERTIES
  OnlyWriterChanges
  OnlyNamedTableIsWritten
  EveryCallReturns
