SPECIFICATION Spec
CONSTANTS
  Paths = {p, q}
  Layouts = {narrow, wide}
  Unset = Unset
  MaxTabs = 3
  MaxOpened = 3
  MaxClosed = 2
SYMMETRY Alike
INVARIANTS TabsAreThemselves
CHECK_DEADLOCK FALSE
