SPECIFICATION FairSpec
CONSTANTS
  None = None
  Handler = {g, h}
  SentSettings <- MCSettings
  MaxRevision = 2
  MaxTimeouts = 1
  MaxDeletes = 1
  MaxRestarts = 1
INVARIANTS
  SettingsStable
  AnswersNeverGoBack
PROPERTY Converges
CHECK_DEADLOCK FALSE
