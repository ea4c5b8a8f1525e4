SPECIFICATION Spec
CONSTANTS
  Objects = {1, 2, 3}
  None = None
  MaxDepth = 2
  MaxWrites = 2
  Intents <- MCIntents
  Databases <- MCDatabases
INVARIANTS TypeOK EquivalentExpansion Complete NothingInvented NothingLost OneParent
CHECK_DEADLOCK FALSE
