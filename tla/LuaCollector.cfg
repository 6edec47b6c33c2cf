SPECIFICATION SteadySpec
CONSTANTS
  Objects = {1, 2, 3}
  None = None
  Main = Main
  Header = Header
  SweepMax = 1
  Heaps <- SmallHeaps
INVARIANTS MarkingKept
PROPERTIES KeepsPromise GarbageFreed
CHECK_DEADLOCK FALSE
