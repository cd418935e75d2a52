SPECIFICATION FairSpec
CONSTANTS
  Events = {1}
  Endpoints = {1, 2}
  Commands = {cmd}
  MaxRetries <- Mixed
  Breaking = {1}
  None = None
  MaxCrashes = 1
  MaxToggles = 2
INVARIANTS TypeOK AttemptsBounded FinalStatusIsTrue
PROPERTIES EventuallySettled
CHECK_DEADLOCK FALSE
