SPECIFICATION Spec
CONSTANTS
  empty = empty
  a = a
  b = b
  Names = 1
  Foldings = {}
  Exact = Exact
  Contents = {empty, a, b}
  SizeOf <- MCSizeOf
  Directory = Directory
  Absent = Absent
  MaxChanges = 2
INVARIANT ProgressDivisorIsNotZero
CHECK_DEADLOCK FALSE
