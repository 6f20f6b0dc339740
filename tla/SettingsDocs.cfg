\* What the comments in the code say and the model refutes: one at a time.
SPECIFICATION MCSpec
CONSTANTS
  bedev = bedev
  devtun = devtun
  Host = {bedev}
  second = second
  Proc = {devtun, second}
  Kind <- Kinds
  Setting <- Settings5
  Prompt = "prompt"
  Service = {"browser"}
  Owned = {"rules"}
  Viewed = {"view"}
  Levels <- LevelsDef
  Options <- OptionsDef
  Typed <- TypedDef
  Valid <- ValidDef
  Fallback <- FallbackDef
  Home <- HomeDef
  Down = Down
  Unread = Unread
  MaxEdits = 2
  MaxTrouble = 1
CHECK_DEADLOCK FALSE
INVARIANT ToggledIsRemembered
\* INVARIANT EditedIsSaved
\* INVARIANT InterfaceCanAnswer
\* PROPERTY SafeToEditByHand
