SPECIFICATION SessionSpec
CONSTANTS
  tunnels = tunnels
  agent = agent
  Control = control
  Service <- MCService
  Order <- MCOrder
  WithSocket <- MCWithSocket
  Options <- MCOptions
  MaxDelay = 2
PROPERTY KeepsLifecycle
PROPERTY QuitReturns
PROPERTY LossIsRetried
PROPERTY LostSocketIsNoticed
PROPERTY RivalsAreNotRemoved
INVARIANT SessionOK
