SPECIFICATION Spec
CONSTANTS
  root = root
  sub = sub
  deep = deep
  None = None
  Folders <- MCFolders
  Root = root
  PathHierarchy <- MCPathHierarchy
  ChangesAreUndone = FALSE
  MaxChanges = 1
  PoolThreads = 2
  MaxCommands = 1
INVARIANTS PanelTypeOK WatchFollowsTheView
PROPERTIES ListingsDoNotGoBack ViewSettles
CHECK_DEADLOCK FALSE
