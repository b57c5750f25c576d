SPECIFICATION MCSpec
CONSTANTS
  Size = 2
  MaxUploads = 2
  MaxFaults = 2
  SeqTop = 8
  GenMod = 3
  MaxJobs = 1
  MaxLinks = 2
  MaxWire = 2
  Blocks = {"x", "y"}
  Files <- MCFiles
  MaxChanges = 2
  MaxTransfers = 1
INVARIANTS OldOrNewSurvives GrantsAndLinks TransferTellsTheTruth
PROPERTIES ToldIsTrue KeyWins
CHECK_DEADLOCK FALSE
