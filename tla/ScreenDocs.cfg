\* What the comments and a test of the interface say and the model refutes: one
\* at a time.
SPECIFICATION ScreenSpec
CONSTANTS
  p1 = p1
  p2 = p2
  q1 = q1
  q2 = q2
  Port <- Ports
  Question <- Questions
SYMMETRY Sym
PROPERTY
  ReconnectBoxHolds
  \* OverlaySwallowsClicks
  \* YesWasSeen
CHECK_DEADLOCK FALSE
