\* Three instances, one without a subscriber, and two failures.
CONSTANTS
  n1 = n1
  n2 = n2
  n3 = n3
  t1 = t1
  t2 = t2
  s1 = s1
  s2 = s2
  s3 = s3
  s4 = s4
  Nodes = {n1, n2, n3}
  Listening = {n1, n2}
  Tasks = {t1, t2}
  Home <- MCHome
  Sockets <- MCSockets
  Room = {s1, s2, s4}
  None = None
  Script <- MCScript
  MaxFailures = 2
SPECIFICATION FairSpec
INVARIANTS OnceInOrder
PROPERTIES ReachesNodes
CHECK_DEADLOCK FALSE
