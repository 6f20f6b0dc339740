\* What the code's own comments say and the model refutes: one at a time.
SPECIFICATION MCSpec
CONSTANTS
  tui = tui
  web = web
  User = {tui, web}
  Port <- MCPort
  Local <- MCLocal
  Ephemeral <- MCEphemeral
  Options <- MCPlain
  Scheme = {}
  Files <- MCNoFile
  Grace = 1
  Disturbances = 4
INVARIANT HiddenForever
\* PROPERTY BorrowedIsGivenBack
\* PROPERTY OpensOurTunnel
CHECK_DEADLOCK FALSE
