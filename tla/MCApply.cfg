SPECIFICATION Spec
CONSTANTS
  None = None
  Columns <- MCColumns
  Tables <- MCTables
  Configs <- MCConfigs
  Pipelines <- MCPipelines
  Calls <- MCCalls
INVARIANTS TypeOK StagesInOrder
CHECK_DEADLOCK FALSE
