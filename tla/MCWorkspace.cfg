SPECIFICATION WorkspaceSpec
CONSTANTS
  p1 = p1
  c1 = c1
  Folders = {1, 2}
  Made = {1}
  Projects = {p1}
  Courses = {c1}
  ProjectOf <- MCProjectOf
  Calls = {k1, k2}
  MaxDepth = 5
  MaxAsked = 4
  MaxRaced = 4
  MaxCrash = 1
SYMMETRY CallSymmetry
INVARIANTS
  Recoverable
  TreeWhenCareful
PROPERTIES
  RestoreAttaches
  PurgeSparesTheLiving
CHECK_DEADLOCK FALSE
