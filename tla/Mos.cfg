CONSTANTS
  Sources <- MCSources
  Targets <- MCTargets
  SearchPath <- MCSearchPath
  Cards <- MCCards
  Alphabet <- MCAlphabet
  SystemAddress = 2
  LastAddress = 3
  Room = 3
  MaxOpen = 2
  MaxDepth = 3
  MaxObjects = 5
  MaxCalls = 3
  NBlocks = 8
  Requests = {0, 4, 20}
  Items = {2}
  Owners = {a, b, c}
  Aliases <- MCAliases
  Scripts <- MCScripts
  Programs <- MCPrograms
  CommandLines <- MCLines
  DepthLimit = 2
  MaxPrograms = 2
  Keys = {"x", "q"}
  Space = " "
  Quote = "q"
  Slash = "/"
  Limits = {2, 7}
  Hotkeys <- MCHotkeys
  Leaves <- MCLeaves
  Givens <- MCGivens
  HistoryDepth = 2
  Columns = 2
  Width = 8
  MaxEdits = 3
SPECIFICATION MCSpec
VIEW MCView
CONSTRAINT ShortLines
CHECK_DEADLOCK FALSE
INVARIANTS TextsAreSound InterpreterIsSound LinesAreKept
PROPERTIES CommandsActInPlace HeapIsFair VariablesAnswer
