SPECIFICATION NodesSpec
CONSTANTS
  EvidenceBudgets <- MCEvidenceBudgets
  None = None
  Procs = {p1, p2}
  Ids = {i1, i2, i3}
  Names = {a, b}
  Kinds = {"create", "start", "retry", "stop", "restart", "delete", "clone", "cleanup", "repair"}
  Usage = {"live targets", "quiet cleanup"}
CHECK_DEADLOCK FALSE
SYMMETRY Symmetry
INVARIANTS NoLostUpdate  EvidenceIsSound
