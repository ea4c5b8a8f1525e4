SPECIFICATION Spec
CONSTANTS
  Registered = {a, b, c}
  Plain = {p}
  None = None
  MaxDepth = 1
  MaxCalls = 2
  Graphs <- SmallGraphs
INVARIANTS TypeOK AllThere NothingElse NoCycleAnnotated FailureMeansDeepChain
PROPERTIES DependenciesFirst CallEnds
CHECK_DEADLOCK FALSE
