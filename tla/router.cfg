\* Up to three routes of 17, all orders in which they are inserted.
CONSTANTS
  Setups <- MCSetups
  Groups <- MCGroups
  Middlewares <- MCMiddlewares
  MaxBodySize = 2
  Threshold = 2
  Cors = FALSE
  Calls <- MCCalls
  NoLimit = NoLimit
  NoParam = NoParam
  Dynamic = Dynamic
SPECIFICATION RouterSpec
INVARIANTS PanicsOnConflict RoutesAsDeclared LimitsAsDeclared
CHECK_DEADLOCK FALSE
