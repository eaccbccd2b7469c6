SPECIFICATION FairSpec
CONSTANTS
  p0 = p0
  p1 = p1
  p2 = p2
  Point = {p0, p1, p2}
  Initial = {p0, p1}
  Depth = 2
  Home <- MCHome
  Boxes <- MCBoxes
  Cells <- MCCells
  Searcher = {s1}
  MaxCalls = 3
INVARIANTS
  TypeOK
  MapAsAsked
  LockedReadsSafe
PROPERTY Settles
CHECK_DEADLOCK FALSE
