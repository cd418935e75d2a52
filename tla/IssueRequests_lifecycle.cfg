SPECIFICATION Spec
CONSTANTS
  Workers = {w1, w2}
  States = {New, Closed}
  BoardStates = {New, Closed}
  Closed = Closed
  Priorities = {High}
  None = None
  InitialSizes = {2}
  MaxIssues = 3
  MaxRequests = 2
  MaxCrashes = 0
PROPERTIES LifecycleChangesAreStored
CHECK_DEADLOCK FALSE
