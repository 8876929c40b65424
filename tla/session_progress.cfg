\* Two repositories with sources and configuration that change twice.
SPECIFICATION MCFairSpec
CONSTANTS
  a = a
  b = b
  v1 = v1
  v2 = v2
  k1 = k1
  k2 = k2
  Roots = {a, b}
  Folder <- MCFolder
  Sources = {v1, v2}
  Configs = {k1, k2}
  Evidential = {a}
  Traces <- MCTraceOne
  IdleUnload = 1
  MaxToolCache = 1
  Nothing = Nothing
  MaxTime = 0
  MaxWrites = 2
PROPERTIES
  OperationsEnd
  EvidenceCatchesUp
