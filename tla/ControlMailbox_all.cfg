\* Every interleaving of the three threads: two files, two definitions and
\* an unknown name, with the shutdown at any moment.  The program ends.
SPECIFICATION FairSpec
CONSTANTS
  Paths = {p1, p2}
  Names = {serato_2a, serato_2b, unknown}
  Defs = {serato_2a, serato_2b}
  None = none
  Cleared = cleared
CHECK_DEADLOCK FALSE
INVARIANTS
  NoLostWakeup
  NeverWaitsOnJob
PROPERTIES
  KeepsPromise
  RequestsServed
  ShutdownEnds
