SPECIFICATION FairSpec
CONSTANTS
  Keys <- OneKey
  Remotes <- Extender
  Users = {"layout", "telemetry", "parallel"}
  MaxToken = 2
  MaxFrames = 1
  AgeLimit = 1
PROPERTIES AllIsServed
