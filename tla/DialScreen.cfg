SPECIFICATION DialSpec
CONSTANTS
  jump = jump
  box = box
  agentKey = agentKey
  diskKey = diskKey
  lockedKey = lockedKey
  tokenKey = tokenKey
  Host <- MCHost
  Box = box
  Key <- MCKey
  Configured <- MCConfigured
  DialOptions <- MCInterface
  DefaultKeys <- MCDefaultKeys
  Encrypted = {lockedKey, tokenKey}
  Halved = {agentKey, lockedKey}
  AgentKeys <- MCAgentKeys
  Served <- MCServed
  DefaultTypes <- MCDefaultTypes
  Accepts <- MCAccepts
  MaxTries = 2
  MaxAge = 1
CHECK_DEADLOCK FALSE
PROPERTY AsksOnOurTerminal
