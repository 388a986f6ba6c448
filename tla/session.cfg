\* Polling GETs and a WebSocket share one session while it is upgraded.
CONSTANTS
  Gets = {g1}
  Writers = {w1}
  Cap = 1
  MaxMessages = 2
  MaxControls = 1
SPECIFICATION LiveSpec
INVARIANTS TypeOK NoSleepOverData
PROPERTIES Implements EventuallyPassedOn EventuallyRemoved
CHECK_DEADLOCK FALSE
