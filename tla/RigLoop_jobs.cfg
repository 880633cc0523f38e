SPECIFICATION FairSpec
CONSTANTS
  t1 = t1  c1 = c1
  Tracks = {t1}
  Crates = {c1}
  Slots = 1
  SAMPLE = 2
  BlockBytes = 2
  TRACK_MAX_BLOCKS = 2
  BufSize = 2
  PipeSize = 2
  Output <- TwoOutputs
  Texts <- TwoTexts
INVARIANTS PublishedIsStored NothingLost
PROPERTIES JobsEnd QuitEnds
CHECK_DEADLOCK FALSE
