SPECIFICATION FairSpec
CONSTANTS
  None = None
  Nodes = {"x", "y"}
  Slugs = {"x", "y", "z"}
  SlugOf <- OwnNames
  Plans <- BatchPlans
  Handlers = {h1}
  Limit = 2
  Parallelism = 2
CHECK_DEADLOCK FALSE
INVARIANTS MembersAgree WithinLimits
PROPERTIES Settles
