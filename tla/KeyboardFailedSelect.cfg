SPECIFICATION Spec
CONSTANTS
  Keys <- OneKey
  Remotes <- Extender
  Users = {}
  MaxToken = 2
  MaxFrames = 1
  AgeLimit = 1
PROPERTIES FailedSelectKeepsTheSource
