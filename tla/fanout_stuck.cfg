\* A broadcast against the cleanup of a slow client by its own session loop.
CONSTANTS
  Handlers = {}
  Apps = {a1}
  Sockets = {s1}
  WebSockets = {}
  Rooms = {}
  MaxRooms = 0
  Cap = 1
  None = None
SPECIFICATION Spec
INVARIANT FansOut
CHECK_DEADLOCK FALSE
