\* Two repositories of which one has evidence, a clock that passes the idle window,
\* and three traces.
SPECIFICATION Spec
CONSTANTS
  a = a
  b = b
  v1 = v1
  v2 = v2
  k1 = k1
  k2 = k2
  Roots = {a, b}
  Folder <- MCFolder
  Sources = {v1, v2}
  Configs = {k1}
  Evidential = {a}
  Traces <- MCTraces
  IdleUnload = 1
  MaxToolCache = 1
  Nothing = Nothing
  MaxTime = 1
  MaxWrites = 2
SYMMETRY Symmetric
INVARIANTS
  TypeOK
  CopiesAgree
  TraceKeepsItsStates
  RequestedStayLoaded
PROPERTIES
  TargetChangesOnlyOnSuccess
  ImplementsAnswerCache
