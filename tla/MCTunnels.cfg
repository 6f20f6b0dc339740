SPECIFICATION MCSpec
CONSTANTS
  tui = tui
  web = web
  User = {tui, web}
  Port <- MCPort
  Local <- MCLocal
  Ephemeral <- MCEphemeral
  Options <- MCOptions
  Scheme = {"http"}
  Files <- MCFiles
  Grace = 2
  Disturbances = 3
INVARIANT NothingUnwanted
INVARIANT NothingMissed
PROPERTY PauseKeepsWhatIsUp
PROPERTY OnlyUsersUnhide
CHECK_DEADLOCK FALSE
PROPERTY BoardFollowsBox
INVARIANT TableRemembers
