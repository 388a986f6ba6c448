\* Broadcasts against sockets that connect, join, leave and are cleaned up.
CONSTANTS
  Handlers = {h1}
  Apps = {a1}
  Sockets = {s1, s2}
  WebSockets = {s1, s2}
  Rooms = {r1}
  MaxRooms = 2
  Cap = 1
  None = None
SPECIFICATION Spec
INVARIANTS NoDuplicates NoStandstill
 
SYMMETRY Symmetry
CHECK_DEADLOCK FALSE
