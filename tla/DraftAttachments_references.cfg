SPECIFICATION DraftSpec
CONSTANTS
  Tabs = {t1, t2}
  NoForm = NoForm
  MaxTokens = 2
  MaxDrafts = 2
  MaxFiles = 4
  MaxMade = 2
  MaxFailures = 0
INVARIANTS DraftReferencesGone
CHECK_DEADLOCK FALSE
