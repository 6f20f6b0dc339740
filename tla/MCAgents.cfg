SPECIFICATION MCSpec
CONSTANTS
  c1 = c1
  c2 = c2
  github = github
  other = other
  laptop = laptop
  Conn = {c1, c2}
  Key = {laptop}
  HostKey = {github, other}
  KnownAs <- KnownAsDef
  MaxLinks = 2
  MaxCalls = 4
INVARIANT AgentsOK
PROPERTY SignsWhatWasApproved
PROPERTY NobodyIsWaitedFor
CHECK_DEADLOCK FALSE
