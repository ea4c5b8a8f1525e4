SPECIFICATION Spec
CONSTANTS
  a = a
  b = b
  c = c
  Classes = {a, b, c}
  Threads = {s, t}
  Broken = Broken
  Dict = Dict
  None = None
  MaxAccesses = 3
  Annotations <- MCAnnotations
  Mros <- NoParents
INVARIANTS TypeOK SequentialMirrors NothingLeft BoundedDepth
PROPERTIES AccessEnds
CHECK_DEADLOCK FALSE
