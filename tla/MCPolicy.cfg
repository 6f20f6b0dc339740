CONSTANTS
  h1 = h1
  h2 = h2
  s1 = s1
  s2 = s2
  vault = vault
  Wild = Wild
  NoHost = NoHost
  Host <- MCHost
  Subject <- MCSubject
  Pattern <- MCPattern
  Covers <- MCCovers
  GlobalRules <- MCGlobalRules
  HostRules <- MCHostRules
  DefaultTTL = 1
  MaxRules = 1
  MaxGrants = 2
SPECIFICATION PolicySpec
INVARIANT DiskFollowsMemory
PROPERTY RefusalsStand
PROPERTY OpensOnlyByDecision
PROPERTY DenyOnlyTightens
