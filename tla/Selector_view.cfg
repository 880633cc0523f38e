SPECIFICATION Spec
CONSTANTS
  rec1 = rec1
  rec2 = rec2
  other = other
  ALL = ALL
  c1 = c1
  e1 = e1
  e2 = e2
  NULL = NULL
  k1 = k1
  Records = {rec1, rec2}
  ARTIST <- MCARTIST
  BPM <- MCBPM
  Fresh = {other}
  Scanned = {c1}
  CRATE_ALL = ALL
  Excrates = {e1, e2}
  Outputs <- MCOutputs
  First0 <- MCFirst
  Crates <- MCCrates
  Keys = {k1}
  Matching <- MCMatching
  MaxSearch = 1
  LineCounts = {1}
INVARIANTS
  ListingsAgree
  ViewIsMatch
  BusyWhileScanning
  ScansHeld
PROPERTIES
  CursorFollows
  CursorVisible
