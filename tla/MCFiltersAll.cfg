SPECIFICATION Spec
CONSTANTS
  p = p
  q = q
  c1 = c1
  c2 = c2
  r = r
  t = t
  Null = Null
  None = None
  Malformed = {3}
  Names <- MCNames
  Nodes <- FewNodes
  Depth <- FewDepths
  Objects = {p, q, c1, c2, r, t}
  Models = {"post", "comment", "reply", "tag"}
  Fields = {"n"}
  Values = {0, 1}
  Relations <- MCRelations
  Filters <- Alls
  Databases <- MCDatabases
INVARIANT AllMeaning
CHECK_DEADLOCK FALSE
