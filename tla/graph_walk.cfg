\* Every graph of three edges on three nodes, one a hub; limits that cut.
CONSTANTS
  Nodes = {1, 2, 3, 4, 5}
  EdgeIds = {11, 12, 13}
  Hubs = {3}
  WorkPerNode = 1
  WorkFloor = 3
  Graphs <- MCGraphs
  Hideable <- MCHideable
  Requests <- MCRequests
  SeedLists <- MCSeedLists
  Nothing = Nothing
SPECIFICATION Spec
INVARIANTS
  CompleteIsClosed
  WalkIsWitness
  ClaimsAreTrue
\* An operation that has answered is over.
CHECK_DEADLOCK FALSE
