SPECIFICATION Spec
CONSTANTS
  Tabs = {a, b}
  QueueCap = 2
  TuiCap = 1
  Attempts = 1
  MaxChanges = 2
  MaxTicks = 1
  MaxFaults = 0
  HeartbeatRaces = TRUE
INVARIANT NoMissingTab
CHECK_DEADLOCK FALSE
