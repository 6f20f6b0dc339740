\* What the code's own comments say and the model refutes: one at a time.
SPECIFICATION SessionSpec
CONSTANTS
  tunnels = tunnels
  agent = agent
  Control = control
  Service <- MCService
  Order <- MCOrder
  WithSocket <- MCWithSocket
  Options <- MCPlain
  MaxDelay = 2
PROPERTY
  OnlyOursIsRemoved
  \* InUseMeansARival
  \* GivesUpForASetting
  \* QuitEndsADial
