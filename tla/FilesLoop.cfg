CONSTANTS
  Sources <- MCSources
  Targets <- MCTargets
  SearchPath <- MCSearchPath
  Cards <- MCCards
  Alphabet <- MCAlphabet
  SystemAddress = 2
  LastAddress = 3
  Room = 3
  MaxOpen = 2
  MaxDepth = 3
  MaxObjects = 5
  MaxCalls = 3
SPECIFICATION FilesSpec
VIEW Seen
CHECK_DEADLOCK FALSE
INVARIANT
  NoDirectoryBelowItself
