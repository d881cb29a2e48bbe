SPECIFICATION Spec
SYMMETRY Symmetry
CONSTANTS
  a = a
  b = b
  None = None
  Daemons = {d1, d2}
  Handlers = {h1, h2}
  Tabs = {a, b}
  NodeOf <- SameNode
  Requests = {"open", "close", "move", "resize", "delete", "update", "stop"}
  Faults = {"crash", "disk", "timeout", "import"}
  MaxAsks = 4
  Straddle = FALSE
INVARIANTS OneReader  
CHECK_DEADLOCK FALSE
