SPECIFICATION MCSpec
CONSTANTS
  bedev = bedev
  devtun = devtun
  Host = {bedev}
  second = second
  Proc = {devtun, second}
  Kind <- Kinds
  Setting <- Settings5
  Prompt = "prompt"
  Service = {"browser"}
  Owned = {"rules"}
  Viewed = {"view"}
  Levels <- LevelsDef
  Options <- OptionsDef
  Typed <- TypedDef
  Valid <- ValidDef
  Fallback <- FallbackDef
  Home <- HomeDef
  Down = Down
  Unread = Unread
  MaxEdits = 2
  MaxTrouble = 1
INVARIANT SettingsOK
PROPERTY ChangesGetAnAnswer
CHECK_DEADLOCK FALSE
