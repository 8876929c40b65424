SPECIFICATION Spec
CONSTANTS
  a = a
  b = b
  v1 = v1
  v2 = v2
  k1 = k1
  k2 = k2
  Roots = {a}
  Folder <- MCFolder
  Sources = {v1, v2}
  Configs = {k1}
  Evidential = {}
  Traces <- MCNoTraces
  IdleUnload = 1
  MaxToolCache = 1
  Nothing = Nothing
  MaxTime = 0
  MaxWrites = 2
SYMMETRY Symmetric
INVARIANTS
  GraphBoundToRevision
