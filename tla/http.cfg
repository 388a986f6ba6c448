\* Requests with and without bodies: handled, over the route's limit, streamed, over
\* every limit, chunked.  Their bytes arrive in any pieces.
CONSTANTS
  Lengths = {0, 1, 3, 4, 5}
  Extras = {"chunked", "upgrade"}
  MaxRequests = 2
  Threshold = 3
  MaxBody = 2
  MaxParse = 4
  MaxBuffer = 14
  ChannelCap = 1
SPECIFICATION FairSpec
INVARIANTS TypeOK InStep WholeBodies NothingOwed NothingTwice
PROPERTIES Answered ShutdownEnds
CHECK_DEADLOCK FALSE
