SPECIFICATION DialSpec
CONSTANTS
  jump = jump
  box = box
  agentKey = agentKey
  diskKey = diskKey
  lockedKey = lockedKey
  tokenKey = tokenKey
  Host <- MCHost
  Box = box
  Key <- MCKey
  Configured <- MCConfigured
  DialOptions <- MCOptions
  DefaultKeys <- MCDefaultKeys
  Encrypted = {lockedKey, tokenKey}
  Halved = {agentKey, lockedKey}
  AgentKeys <- MCAgentKeys
  Served <- MCServed
  DefaultTypes <- MCDefaultTypes
  Accepts <- MCAccepts
  MaxTries = 2
  MaxAge = 1
INVARIANT DialOK
PROPERTY QuestionsAreDue
PROPERTY DialSettles
CHECK_DEADLOCK FALSE
