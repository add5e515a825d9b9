SPECIFICATION Spec
CONSTANTS
  Lines <- MCLines
  MaxLines = 3
CHECK_DEADLOCK FALSE
INVARIANTS
  ReplMatchesFileMode
