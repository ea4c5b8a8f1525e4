SPECIFICATION Spec
CONSTANTS
  a = a
  b = b
  c = c
  Classes = {a, b, c}
  Threads = {s}
  Broken = Broken
  Dict = Dict
  None = None
  MaxAccesses = 2
  Annotations <- PlainAnnotations
  Mros <- Inheritance
INVARIANTS AnswerMirrors
CHECK_DEADLOCK FALSE
