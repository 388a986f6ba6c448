\* Two slots, one connection at a time, two addresses that may make one
\* connection per window each.
CONSTANTS
  MaxTime = 4
  Keys = {a, b}
  MaxRequests = 1
  Window = 1
  MapLimit = 0
  Modulus = 8
  Absent = Absent
  MaxCount = 5
  Sessions = {s1, s2}
  Interval = 1
  Timeout = 1
  NoSession = NoSession
  MaxConnections = 1
  MaxStreams = 1
  MaxArrivals = 4
SPECIFICATION FairSpec
INVARIANTS PermitsKept AtMostTwoWindows PromptKept SilentDropped
PROPERTIES RefusedOnlyOverLimit ShutdownEnds
CHECK_DEADLOCK FALSE
