SPECIFICATION WorkspaceSpec
CONSTANTS
  p1 = p1
  c1 = c1
  Folders = {1, 2}
  Made = {1, 2}
  Projects = {p1}
  Courses = {c1}
  ProjectOf <- MCProjectOf
  Calls = {k1, k2}
  MaxDepth = 5
  MaxAsked = 4
  MaxRaced = 3
  MaxCrash = 1
INVARIANTS
  FoldersAcyclic
CHECK_DEADLOCK FALSE
