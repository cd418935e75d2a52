SPECIFICATION Spec
CONSTANTS
  Issues = {1, 2, 3}
  Profiles <- OrderlyOnly
  TicksPerMs = 2
  None = None
  MaxClock = 3
PROPERTIES EmitsChangesOnly
CHECK_DEADLOCK FALSE
