SPECIFICATION ScreenSpec
CONSTANTS
  p1 = p1
  p2 = p2
  q1 = q1
  q2 = q2
  Port <- Ports
  Question <- Questions
SYMMETRY Sym
PROPERTY SecondNeverArrives
CHECK_DEADLOCK FALSE
