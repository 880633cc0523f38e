SPECIFICATION Spec
CONSTANTS
  Position <- Positions
  CueOffset = 0
  Safe = 1
  Pitches <- ThreePitches
  Seconds <- OneSecond
  LoopRanges <- OneLoop
  StoppedTicks = 1
  Unreadable = Unreadable
  Patient = TRUE
  Sdl = TRUE
INVARIANTS FreshAfterLoad TransportObeyed
PROPERTIES LiftedNeedleHolds LoopHolds OutsidePlaysOn
