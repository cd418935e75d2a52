SPECIFICATION Spec
CONSTANTS
  States = {New, Closed}
  BoardStates = {New, Closed}
  Closed = Closed
  None = None
  Priorities = {High}
  Groups = {Net}
  Users = {Ann}
  MaxIssues = 2
INVARIANTS TypeOK
PROPERTIES OnlyRevocationStrandsUser FailureTouchesOnlySubject EventsTellChanges
CHECK_DEADLOCK FALSE
