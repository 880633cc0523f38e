SPECIFICATION FairSpec
CONSTANTS
  a1 = a1  j1 = j1  j2 = j2
  dv <- ThreeDecks
  Alsa = {a1}
  Jack = {j1, j2}
  buffer = 2
  MaxBuffer = 3
INVARIANTS NoUseAfterClear RefusedIsIdle
PROPERTIES AudioFlows MainEnds
CHECK_DEADLOCK FALSE
