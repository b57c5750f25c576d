CONSTANTS
  NClust = 5
  Slots = 4
  Chk <- MCChk
  Handles = {1}
  Paths <- MCPaths
  Modes <- MCModes
  Sizes = {3, 5}
  Offsets = {0, 6}
  Labels = {"V"}
  Listings <- MCListings
  Cards <- MCCards
  MaxOps = 3
  MaxMishaps = 1
  LastFault = 5
SPECIFICATION Spec
INVARIANTS VolumeIsSound NothingIsLost
PROPERTIES CallsDoWhatTheyPromise
VIEW Seen
CHECK_DEADLOCK FALSE
