SPECIFICATION AloneSpec
CONSTANTS
  Workers = {w1, w2}
  States = {New, Closed}
  BoardStates = {New, Closed}
  Closed = Closed
  Priorities = {High, Low}
  None = None
  InitialSizes = {0}
  MaxIssues = 3
  MaxRequests = 5
  MaxCrashes = 0
SYMMETRY WorkerSymmetry
PROPERTIES ImplementsIssueBoard
CHECK_DEADLOCK FALSE
