CONSTANTS
  r1 = r1
  r2 = r2
  vault = vault
  agent = agent
  yes = yes
  t1 = t1
  t2 = t2
  Deny = Deny
  Unoffered = Unoffered
  Nothing = Nothing
  Nobody = Nobody
  Request <- MCRequest
  Gate <- MCGate
  Choice <- MCChoice
  Settings <- MCSettings
  Tab <- MCTab
SPECIFICATION DeskSpec
INVARIANT OneAnswerCounts
INVARIANT IdsDieWithQuestions
PROPERTY IsAPrompter
PROPERTY EveryQuestionSettles
