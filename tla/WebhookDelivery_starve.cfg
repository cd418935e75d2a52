SPECIFICATION FairSpec
CONSTANTS
  Events = {1}
  Endpoints = {1, 2}
  Commands = {cmd}
  MaxRetries <- NoRetry
  Breaking = {1}
  None = None
  MaxCrashes = 0
  MaxToggles = 0
PROPERTIES DueDeliveriesAttempted
CHECK_DEADLOCK FALSE
