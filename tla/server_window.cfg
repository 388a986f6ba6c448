\* One address that connects again and again, one connection at a time.
CONSTANTS
  MaxTime = 4
  Keys = {a}
  MaxRequests = 2
  Window = 2
  MapLimit = 8
  Modulus = 8
  Absent = Absent
  MaxCount = 5
  Sessions = {s1}
  Interval = 1
  Timeout = 1
  NoSession = NoSession
  MaxConnections = 1
  MaxStreams = 0
  MaxArrivals = 4
SPECIFICATION Spec
INVARIANT SlidingWindow
CHECK_DEADLOCK FALSE
