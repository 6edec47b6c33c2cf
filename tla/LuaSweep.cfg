SPECIFICATION Spec
CONSTANTS
  Objects = {1, 2}
  None = None
  Main = Main
  Header = Header
  SweepMax = 1
  Heaps <- TwoUserdata
INVARIANT BlackNeverPointsToWhite
