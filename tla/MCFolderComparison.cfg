SPECIFICATION Spec
CONSTANTS
  empty = empty
  a = a
  b = b
  Names = 3
  Foldings <- MCFoldings
  Exact = Exact
  Contents = {empty, a, b}
  SizeOf <- MCSizeOf
  Directory = Directory
  Absent = Absent
  MaxChanges = 1
SYMMETRY Alike
INVARIANTS ShownResultIsTrue
CHECK_DEADLOCK FALSE
