SPECIFICATION Spec
CONSTANTS
  a = a
  b = b
  None = None
  Daemons = {d1, d2}
  Handlers = {h1, h2}
  Tabs = {a, b}
  NodeOf <- SameNode
  Requests = {"open", "resize", "update"}
  Faults = {}
  MaxAsks = 4
  Straddle = TRUE
INVARIANT SessionCovers
CHECK_DEADLOCK FALSE
