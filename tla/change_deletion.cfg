\* Every content of three places before and after a change.
CONSTANTS
  Modes = {"changes"}
  Routers = {1, 2, 3, 4}
  MountLists <- RouterMounts
  MaxPrefixes = 2
  Slots <- Places
  FileAt <- PlaceFile
  Declarations <- PlaceDeclarations
  Absent = Absent
  Empty = {"a"}
  Ids <- ImpactNodes
  FileOf <- DeclaredIn
  Grouping = {6}
  Graphs <- ImpactGraphs
  SeedLists <- ImpactSeeds
  Limits <- ImpactLimits
  Nothing = Nothing
  Files <- ProgramFiles
  Symbols <- ProgramSymbols
  Owner <- ProgramOwner
  Channels <- ProgramChannels
  Programs <- ProgramGraphs
  NodeCount = 7
  FileAtNode <- LayerFile
  ComponentOf <- LayerOf
  PossibleEdges <- LayerEdges
  Contracts <- LayerContracts
  Beginnings <- LayerBeginnings
  MaxEdits = 2
  None = None
SPECIFICATION Spec
INVARIANT DeletionKeepsBaseCallers
\* An operation that has answered is over.
CHECK_DEADLOCK FALSE
