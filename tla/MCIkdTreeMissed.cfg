SPECIFICATION Spec
CONSTANTS
  p0 = p0
  p1 = p1
  p2 = p2
  Point = {p0, p1, p2}
  Initial = {p0, p1, p2}
  Depth = 2
  Home <- MCHome
  Boxes <- NoBoxes
  Cells <- CellOfp1
  Searcher = {}
  MaxCalls = 1
INVARIANT MissedOperationsReplayed
CHECK_DEADLOCK FALSE
