\* Every component on its small inputs.
CONSTANTS
  Modes = {"names", "events", "extraction", "contracts", "build", "changes", "reviews",
           "policies", "reports", "guards", "traces", "series", "tests", "history", "schemas", "abis", "walks"}
  Nothing = Nothing
  NoFile = NoFile
  Paths = {"f", "g", "n", "f.test", "t.test"}
  Selections <- SmallSelections
  Changes <- SmallChanges
  DebtCap = 1
  Histories <- SmallHistories
  PairedPaths = 3
  Traces <- SmallTraces
  MaxCandidates = 1
  Unstated = Unstated
  Integrations <- SmallIntegrations
  Absent = Absent
  Repositories <- SmallPrograms
  Excluded = {77, 88}
  MaxDepth = 2
  MaxTargets = 2
  SourceFiles <- SmallSources
  NoValue = NoValue
  Estates <- SmallEstates
  NoName = NoName
SPECIFICATION Spec
INVARIANTS
  NamesAreResolved
  ContractsAreReal
  ExactIsProven
  ContractsAgree
  TopologyIsWhole
  VerdictIsEarned
  ReviewIsSound
  RulesAreEvaluated
  ReportsAreEvidence
  ChecksAreEvidence
  FramesAreMapped
  StepsAreWhole
  NoSuiteIsMissed
  HistoryAddsUp
  ImpactsAreProven
\* An answer that was given is over.
CHECK_DEADLOCK FALSE
