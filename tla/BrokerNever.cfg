CONSTANTS
  h1 = h1
  s1 = s1
  s2 = s2
  r1 = r1
  r2 = r2
  r3 = r3
  Wild = Wild
  NoHost = NoHost
  Nobody = Nobody
  Host <- MCHost
  Subject <- MCSubject
  Pattern <- MCPattern
  Covers <- MCCovers
  GlobalRules = {}
  HostRules <- MCHostRules
  DefaultTTL = 1
  MaxRules = 1
  MaxGrants = 1
  Request <- MCRequest
  HostOf <- MCHostOf
  SubjectOf <- MCSubjectOf
  Menu <- MCMenuNever
  MaxSwaps = 0
SPECIFICATION BrokerSpec
INVARIANT NoAllowUnderDeny
