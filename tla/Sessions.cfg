SPECIFICATION MCSpec
CONSTANTS
  Sectors = {0, 1, 2}
  Data = {"x", "y"}
  IdleTries = 2
  OpTries = 2
  MaxCount = 2
  MaxFaults = 1
  MaxTransfers = 4
  Directions = {"forward", "reverse"}
  Nonces = {1, 2, 3}
  TransMod = 4
  SeqMod = 2
  BlockSizes = {1, 2}
  MaxFlight = 2
  MaxResets = 1
  MaxRequests = 4
  MaxRecord = 2
  AdmissionTicks = 2
  CompletionTicks = 2
  StallLimit = 2
  TickMod = 4
  Lengths = {1, 3}
  MaxGap = 1
  MaxEngineCalls = 3
INVARIANTS TransfersAreFaithful SessionsAgree StreamsAreWhole
PROPERTIES HandoverIsTruthful ConversationsEnd
