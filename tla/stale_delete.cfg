SPECIFICATION Spec
CONSTANTS
  None = None
  Procs = {p1, p2}
  Ids = {i1, i2}
  Names = {a}
  Kinds = {"create", "delete"}
  Usage = {"quiet cleanup"}
CHECK_DEADLOCK FALSE
PROPERTY DeleteSparesOthers
