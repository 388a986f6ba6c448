\* A CONNECT that overlaps the end of its session.
CONSTANTS
  Tasks = {t1, t2}
  Engines = {e1}
  Sockets = {s1}
  Namespaces = {chat}
  Known = {chat}
  Guarded = {}
  Rooms = {r1}
  MaxMembers = 1
  None = None
SPECIFICATION Spec
INVARIANT NoOrphans
CHECK_DEADLOCK FALSE
