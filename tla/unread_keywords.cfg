\* What is said of schemas whose keywords the comparison does not know.
CONSTANTS
  Modes = {"schemas"}
  Nothing = Nothing
  NoFile = NoFile
  Paths = {}
  Selections = {}
  Changes = {}
  DebtCap = 1
  Histories = {}
  PairedPaths = 3
  Traces = {}
  MaxCandidates = 1
  Unstated = Unstated
  Integrations = {}
  Absent = Absent
  Repositories <- SmallPrograms
  Excluded = {77, 88}
  MaxDepth = 2
  MaxTargets = 2
  SourceFiles <- SmallSources
  NoValue = NoValue
  Estates <- SmallEstates
  NoName = NoName
SPECIFICATION Spec
INVARIANT UnsupportedIsUndetermined
\* An answer that was given is over.
CHECK_DEADLOCK FALSE
