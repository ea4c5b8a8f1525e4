SPECIFICATION Spec
CONSTANTS
  Objects = {1, 2, 3}
  None = None
  MaxDepth = 2
  MaxWrites = 0
  Intents <- Followers
  Databases <- MCDatabases
INVARIANTS EquivalentExpansion
CHECK_DEADLOCK FALSE
