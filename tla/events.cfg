SPECIFICATION EventsSpec
CONSTANTS
  Tabs = {a, b}
  QueueCap = 2
  TuiCap = 1
  Attempts = 1
  MaxChanges = 5
  MaxTicks = 1
  MaxFaults = 1
  HeartbeatRaces = FALSE
  JournalLimit = 2
  NativeCap = 2
  ActBudgets <- MCActBudgets
  UnsyncedWrites = FALSE
  RingCap = 2
  ViewBudgets <- MCViewBudgets
  Routes = {1, 2}
  SystemBudgets <- MCSystemBudgets
CHECK_DEADLOCK FALSE
INVARIANTS NoEventSkipped NoMissingTab  AnswersFollowChanges
PROPERTIES ViewsKeepTheirPlace WindowsCatchUp
