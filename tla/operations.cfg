SPECIFICATION Spec
CONSTANTS
  None = None
  Nodes = {"x", "y"}
  Slugs = {"x", "y"}
  SlugOf <- OwnNames
  Plans <- OperationPlans
  Handlers = {h1, h2}
  Limit = 2
  Parallelism = 1
SYMMETRY Symmetry
CHECK_DEADLOCK FALSE
INVARIANTS AtMostOnce Exclusive NoFalseSuccess
PROPERTIES CancelStops KeepsPromise
