CONSTANTS
  Decks = {"left"}
  Units = {"left", "right"}
  Buttons = {1}
  Positions <- MCPositions
  Offsets <- MCOffsets
  Punches <- MCPunches
  CueOffset = 0
  HUGE_VAL = HUGE_VAL
  Order <- MCOrder
  Modes = 1
  OBUF = 4
  ShortWrites = FALSE
SPECIFICATION FairSpec
INVARIANTS
  LedsShowCues
  SyncedIsShown
PROPERTIES
  PunchReturns
  LedsSettle
CHECK_DEADLOCK FALSE
