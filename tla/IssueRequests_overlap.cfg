SPECIFICATION Spec
CONSTANTS
  Workers = {w1, w2}
  States = {New, Closed}
  BoardStates = {New, Closed}
  Closed = Closed
  Priorities = {High}
  None = None
  InitialSizes = {2}
  MaxIssues = 3
  MaxRequests = 3
  MaxCrashes = 1
INVARIANTS TypeOK StaleWritesStayInBounds DeadlocksCostPositionsOnly
PROPERTIES OnlySubjectChanges UndoingNeedsOverlap
SYMMETRY WorkerSymmetry
CHECK_DEADLOCK FALSE
