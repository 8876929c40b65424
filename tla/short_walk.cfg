\* How far web3_trace walks.
CONSTANTS
  Modes = {"walks"}
  Nothing = Nothing
  NoFile = NoFile
  Paths = {}
  Selections = {}
  Changes = {}
  DebtCap = 1
  Histories = {}
  PairedPaths = 3
  Traces = {}
  MaxCandidates = 1
  Unstated = Unstated
  Integrations = {}
  Absent = Absent
  Repositories <- SmallPrograms
  Excluded = {77, 88}
  MaxDepth = 2
  MaxTargets = 2
  SourceFiles <- SmallSources
  NoValue = NoValue
  Estates <- SmallEstates
  NoName = NoName
SPECIFICATION Spec
INVARIANT DepthIsWalked
\* A client may stop asking.
CHECK_DEADLOCK FALSE
