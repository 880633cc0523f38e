SPECIFICATION Spec
CONSTANTS
  HASH_BITS = 1
  timecodes <- TwoSides
  VALID_BITS = 2
  Edges = 7
  Landings <- ThreeLandings
  Workers = {w1}
INVARIANTS NoFalsePosition FoundAgain TablesComplete
