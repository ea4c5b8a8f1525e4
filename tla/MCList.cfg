SPECIFICATION Spec
CONSTANTS
  Rows = {1, 2, 3, 4, 5}
  None = None
  MaxTop = 3
  MaxSkip = 3
  PageSize = 2
  MaxWrites = 2
  Disturbed <- MCDisturbed
  Metas <- MCMetas
  Requests <- MCRequests
  Tables <- MCTables
INVARIANTS TypeOK LinkNeverRejected NoRowTwice NoRowMissed
PROPERTIES SkipAdvances ImplementsOrderedScan WalkEnds
CHECK_DEADLOCK FALSE
