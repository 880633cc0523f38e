CONSTANTS
  c1 = c1
  c2 = c2
  Clients = {c1, c2}
  none = none
  Streams <- MCStreams
  MaxBytes = 3
  BUFSIZE = 2
  BACKLOG = 2
  Audio = FALSE
  REALTIME_POLL_TIMEOUT_MS = 10
SPECIFICATION SocketFairSpec
INVARIANTS
  WholeLines
  InOrder
  RoomToRead
PROPERTIES
  LinesServed
CHECK_DEADLOCK FALSE
