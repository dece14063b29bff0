SPECIFICATION CursorSpec
CONSTANTS
  root = root
  sub = sub
  deep = deep
  above = above
  one = one
  two = two
  None = None
  Folders = {root, sub, deep}
  Files = {above, one, two}
  Root = root
  ParentOf <- MCParentOf
  Place <- MCPlace
  Trees <- MCTrees
  MaxCommands = 3
  MaxChanges = 1
INVARIANT CursorIsWhereItShouldBe
CHECK_DEADLOCK FALSE
