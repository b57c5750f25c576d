SPECIFICATION MCSpec
CONSTANTS
  Levels = 1
  MaxGen = 2
  Calls <- RouteCalls
INVARIANTS PortCIsSafe RouteIsLive
PROPERTIES ContentionIsKept ImplementsOwner CallsReturn
