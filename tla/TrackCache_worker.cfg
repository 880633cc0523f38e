\* The control worker loads the deck, without the rig lock.
SPECIFICATION Spec
CONSTANTS
  Addr = {a1, a2}
  Empty = empty
  Paths = {p1, p2}
  Decks = {d1}
  Loaders = {worker}
  Lockers = {}
  Rig = rigthread
  NoOne = noone
INVARIANT
  AcquireHoldsReference
