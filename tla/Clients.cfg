SPECIFICATION ClientsSpec
CONSTANTS
  Issues = {1, 2}
  Profiles <- OrderlyAndAdverse
  TicksPerMs = 2
  None = None
  MaxClock = 4
  Pages = {p1}
  Processes = {s1, s2}
  Workers = {w1, w2}
  Absent = Absent
  MaxChanges = 2
  MaxMoves = 2
  MaxFailures = 1
  Empty = Empty
  Unavailable = Unavailable
  MaxEdits = 3
  MaxAsked = 2
  MaxLookups = 1
  MaxFailed = 1
  Fields = {"collection", "group"}
  Ids = {1, 2}
  Names = {"a", "b"}
  Inputs <- Items
  Unset = Unset
  Null = Null
  Untold = Untold
  Pending = Pending
  Refused = Refused
  MaxItems = 2
  MaxRuns = 2
  MaxRenames = 1
  MaxLosses = 1
INVARIANTS
  ClientsTypeOK
  PagesComeToAgree
  PreviewShowsText
  ExecutionsAreTrue
PROPERTIES
  RepeatsWithinMillisecond
  EmitsEveryOrderlyChange
  PagesNeverGoBack
  ChoiceKeepsText
SYMMETRY Alike
CHECK_DEADLOCK FALSE
