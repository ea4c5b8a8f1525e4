SPECIFICATION Spec
CONSTANTS
  None = None
  Pk = "id"
  Owner = "owner_id"
  MaxVersion = 1
  Asks <- MCAsks
INVARIANTS TypeOK AnswerAsPromised OneMoment CheckedAsShown OnlyWhatMayLeave
CHECK_DEADLOCK FALSE
