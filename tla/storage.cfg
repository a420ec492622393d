\* Scopes, the scope browser, the backtrace, the functions that use memory.
SPECIFICATION MCSpec
CONSTANTS
  Scopes = {g, s}
  Pointers = {p1, p2, p3, p4}
  Names = {x, y, z}
  Values = {v, w}
  MaxCells = 3
  MaxLink = 4
  Glob = g
  None = None
  Goals = {"g", "h"}
  Limit = 4
  Capacity = 6
  MaxDepth = 2
  MaxPath = 5
  NoGoal = "none"
  Lists <- MCLists
  Keys <- MCKeys
  Heights = {2, 4}
  DownHeight = 3
  MaxSearch = 2
  CopyRoom = 6
  Width = 3
INVARIANTS ScopesSound BrowserIsRight WindowIsRight MemorySafe NothingElseLeaks
PROPERTIES IsStore
SYMMETRY MCSymmetry
CHECK_DEADLOCK FALSE
