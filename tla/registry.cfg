\* Two tasks race over two sockets of one session, in a namespace with an auth
\* handler and with a room that the handlers join and leave. Tasks and sockets are
\* interchangeable.
CONSTANTS
  Tasks = {t1, t2}
  Engines = {e1}
  Sockets = {s1, s2}
  Namespaces = {chat}
  Known = {chat}
  Guarded = {chat}
  Rooms = {r1}
  MaxMembers = 1
  None = None
SPECIFICATION Spec
INVARIANTS TypeOK DisconnectHandlerAtMostOnce ConnectedIsReachable SenderHasOwner
PROPERTIES NoResurrection Implements
SYMMETRY Symmetry
CHECK_DEADLOCK FALSE
