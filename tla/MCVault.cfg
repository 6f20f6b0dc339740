CONSTANTS
  h1 = h1
  s1 = s1
  s2 = s2
  r1 = r1
  r2 = r2
  Wild = Wild
  NoHost = NoHost
  Host <- MCHost
  Subject <- MCSubject
  Pattern <- MCPattern
  Covers <- MCCovers
  GlobalRules = {}
  HostRules <- MCHostRules
  DefaultTTL = 2
  MaxRules = 1
  MaxGrants = 1
  Request <- MCRequest
  TheHost = h1
  RefsOf <- MCRefsOf
  Cacheable <- MCRequest
  Menu <- MCMenu
  CacheTTL = 2
  MaxEntries = 1
SPECIFICATION VaultSpec
INVARIANT KeptOnlyWhileAllowed
INVARIANT NothingUnasked
