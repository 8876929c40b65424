\* What README.md says of the quotas of a context bundle.
CONSTANTS
  Modes = {"related"}
  Nodes <- PathNodes
  Graphs <- PathGraphs
  Requests <- PathRequests
  Nothing = Nothing
  Subject <- Centre
  Others <- Neighbours
  EdgeLists <- RelatedLists
  TestSets <- TestsAround
  Intents <- AllIntents
  Limits = {3}
  Vertices <- TraceNodes
  Endpoint <- Route
  KindOf <- TraceKinds
  CallGraphs <- TraceGraphs
  Bounds <- TraceLimits
  NoNode = NoNode
  Count <- NodeCount
  Couplings <- CoupledGraphs
SPECIFICATION MCSpec
INVARIANT QuotasAreKept
\* An operation that has answered is over.
CHECK_DEADLOCK FALSE
