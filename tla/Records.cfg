SPECIFICATION RecordsSpec
CONSTANTS
  None = None
  Nothing = Nothing
  Idle = Idle
  Absent = Absent
  Writers = {z1, z2}
  MaxCrashes = 1
  MaxMade = 3
  Workers = {w1, w2}
  MaxIssues = 2
  MaxFailures = 1
  Collections = {c1, c2}
  Categories = {k1}
  CollectionPrefixes = {P, Q}
  Creators = {r1, r2}
  Editors = {e1}
  Numbers = {1}
  MaxEdits = 3
  Users = {root, ann}
  Groups = {g}
  RuleStates = {s1}
  Root = root
  Nobody = Nobody
  MaxRequests = 3
  Savers = {v1, v2}
  NoSave = NoSave
  NoAvatar = NoAvatar
  MaxAvatars = 3
  MaxDeaths = 1
  WorkflowStates = {"New", "Closed", "Rejected"}
  ColumnStates <- Columns
  Ranks = {0, 1}
  Assignees = {"ann"}
  Unset = Unset
  Bad = Bad
  Error = Error
  MaxAge = 1
  MaxTable = 2
  MaxGiven = 2
  IssueShapes <- Shapes
  Tabs = {t1, t2}
  NoForm = NoForm
  MaxTokens = 3
  MaxDrafts = 2
  MaxFiles = 5
  Names = {n1}
  MaxRows = 1
  MaxStored = 3
  Handlers = {h1, h2}
  Free = Free
  States = {NEW, CLOSED}
  MaxWrites = 2
  MaxLosses = 1
  Authors = {a1, a2}
  Away = Away
  People = {ann, bob}
  Handles = {A, B}
  MaxComments = 1
  MaxChanges = 3
  MaxBreaks = 1
  Threads = {d1, d2}
  Owners = {o1, o2}
  MaxLines = 3
  MaxShared = 1
  MaxTasks = 3
  FirstStates = {"NEW", "DUPLICATE"}
  LaterStates = {"BACKLOG", "NEW", "REJECTED"}
  BandPriorities = {"HIGH"}
  Teams = {u1, u2}
  NoTeam = NoTeam
  MaxUses = 2
  Endpoints = {"e1", "e2"}
  Probers = {m1}
  MaxShifts = 2
INVARIANTS
  RecordsTypeOK
  NumbersAreFresh
  DirectoryIsConsistent
  AvatarFollowsProfile
  ListIsOfMatches
  IssuesInheritDrafts
  FilesFollowRows
  HistoryIsTrue
  CommentsReachReaders
  RenderingIsFaithful
  HealthAnswersAreTrue
PROPERTIES
  AccountsFollowRequests
  MigrationsKeepTheBoard
SYMMETRY Alike
CHECK_DEADLOCK FALSE
