CONSTANTS
  r1 = r1
  r2 = r2
  vault = vault
  agent = agent
  yes = yes
  t1 = t1
  t2 = t2
  Deny = Deny
  Unoffered = Unoffered
  Nothing = Nothing
  Nobody = Nobody
  Request <- TwoRequests
  Gate <- TwoGates
  Choice <- MCChoice
  Settings <- TwoSettings
  Tab <- MCTab
SPECIFICATION DeskSpec
PROPERTY DialogGivesWay
PROPERTY EveryQuestionSettles
