\* One call of the application and one of a handler, channels of one packet.
CONSTANTS
  DefaultNamespace = "/"
  Namespace = "/chat"
  Auth <- MCAuth
  AppCalls = {"say"}
  HandlerCalls = {"reply"}
  Acked = {"say", "reply"}
  Cap = 1
  MaxEvents = 2
  MaxPings = 1
  MaxFaults = 1
SPECIFICATION FairSpec
INVARIANTS AcksMatch HandledInOrder
PROPERTIES CallsEnd PingsAnswered
CHECK_DEADLOCK FALSE
