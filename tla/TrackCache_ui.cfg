\* One loader, the interface thread, which holds the rig lock; two decks, two
\* files and room for two tracks, as many as the two files can have.
SPECIFICATION FairSpec
CONSTANTS
  Addr = {a1, a2}
  Empty = empty
  Paths = {p1, p2}
  Decks = {d1, d2}
  Loaders = {ui}
  Lockers = {ui}
  Rig = rigthread
  NoOne = noone
INVARIANTS
  RefcountExact
  NoUseAfterFree
  TerminateOnlyAbandoned
  OneTrackPerPath
PROPERTIES
  AbandonedFreed
