\* Every operation, on every graph of its size.
CONSTANTS
  Modes = {"path", "related", "trace", "communities"}
  Nodes <- PathNodes
  Graphs <- PathGraphs
  Requests <- PathRequests
  Nothing = Nothing
  Subject <- Centre
  Others <- Neighbours
  EdgeLists <- RelatedLists
  TestSets <- TestsAround
  Intents <- AllIntents
  Limits = {3}
  Vertices <- TraceNodes
  Endpoint <- Route
  KindOf <- TraceKinds
  CallGraphs <- TraceGraphs
  Bounds <- TraceLimits
  NoNode = NoNode
  Count <- NodeCount
  Couplings <- CoupledGraphs
SPECIFICATION MCSpec
INVARIANTS
  PathIsExact
  BundleIsFair
  TraceIsExact
  CommunitiesAreComponents
\* An operation that has answered is over.
CHECK_DEADLOCK FALSE
