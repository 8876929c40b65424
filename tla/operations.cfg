\* Every operation on the small repositories: mounts without and with a cycle and a
\* limit of three prefixes.
CONSTANTS
  Modes = {"mounts", "changes", "radius", "cycles", "domain", "rules"}
  Routers = {1, 2, 3, 4}
  MountLists <- RouterMounts
  MaxPrefixes = 3
  Slots <- Places
  FileAt <- PlaceFile
  Declarations <- PlaceDeclarations
  Absent = Absent
  Empty = {"a"}
  Ids <- ImpactNodes
  FileOf <- DeclaredIn
  Grouping = {6}
  Graphs <- ImpactGraphs
  SeedLists <- ImpactSeeds
  Limits <- ImpactLimits
  Nothing = Nothing
  Files <- ProgramFiles
  Symbols <- ProgramSymbols
  Owner <- ProgramOwner
  Channels <- ProgramChannels
  Programs <- ProgramGraphs
  NodeCount = 7
  FileAtNode <- LayerFile
  ComponentOf <- LayerOf
  PossibleEdges <- LayerEdges
  Contracts <- LayerContracts
  Beginnings <- LayerBeginnings
  MaxEdits = 2
  None = None
SPECIFICATION Spec
INVARIANTS
  PrefixesAreExact
  ChangesAreExact
  RadiusIsExact
  CyclesAreExact
  WalkIsExact
  RatchetHolds
\* An operation that has answered is over.
CHECK_DEADLOCK FALSE
