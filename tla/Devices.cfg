SPECIFICATION MCSpec
CONSTANTS
  Asks = {7, 2}
  Events <- MCEvents
  MaxAsks = 2
  MaxEvents = 1
  MaxRoutes = 1
  MaxBuffer = 4
  Sizes = {0, 1, 2, 3, 4, 6}
  MaxI2cCalls = 3
  MaxTransaction = 3
  MaxWire = 3
  Segments = {4, 11}
  Uppers = {0, 9}
  MaxPrograms = 2
INVARIANTS MainboardLinkIsSound I2cTransfersAreWhole OwnersAndDisplayAgree CallsMeanTheSame ProgramsResume
PROPERTIES LeaveIsAcknowledged RetainedRouteCanBeLeft
