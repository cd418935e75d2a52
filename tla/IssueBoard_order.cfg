SPECIFICATION Spec
CONSTANTS
  States = {New, Closed}
  BoardStates = {New, Closed}
  Closed = Closed
  None = None
  Priorities = {High, Low}
  Groups = {}
  Users = {}
  MaxIssues = 3
INVARIANTS PositionsBounded
PROPERTIES BystandersKeepOrder SubjectLandsInPlace RequestsKeepDistinct ImplementsBoardOrder
SYMMETRY PrioritySymmetry
CHECK_DEADLOCK FALSE
