SPECIFICATION Spec
CONSTANTS
  Ids = {t1}
  HookList <- DiscordAndScript
  Editing = {"discord"}
  Commands = {"script"}
  Events <- AllAndFailed
  Exclude <- NoneExcluded
  HookBuf = 2
  MaxLives = 2
  MaxChanges = 3
  MaxChat = 2
  None = None
INVARIANTS InFlightExact NoLostWake
PROPERTIES EditsOwnHere PostsOnce
