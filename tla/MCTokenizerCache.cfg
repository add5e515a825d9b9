SPECIFICATION Spec
CONSTANTS
  Threads = {t1, t2, t3}
  Sqls = {s1, s2, s3, s4}
  Invalid = {s4}
  Limit = 3
  MaxCalls = 6
SYMMETRY ThreadSymmetry
INVARIANTS
  TypeOK
  CountMatchesList
  DuplicatesBounded
PROPERTIES
  OnlyOldestLeaves
