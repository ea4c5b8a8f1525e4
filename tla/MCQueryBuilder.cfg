SPECIFICATION Spec
CONSTANTS
  Atoms = {"p", "q"}
  None = None
  Failed = Failed
  Fragment = Fragment
  MaxLength = 40
  MaxQuery = 36
  MaxTop = 3
  MaxSkip = 4
  MaxCalls = 5
  Texts <- MCTexts
  Selects <- MCSelects
  Expands <- MCExpands
  Orders <- MCOrders
  Numbers <- MCNumbers
INVARIANTS TypeOK MeaningPreserved NestedPreserved RoundTrip
CHECK_DEADLOCK FALSE
