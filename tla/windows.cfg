SPECIFICATION WindowsSpec
CONSTANTS
  Windows = {w1, w2}
  Nobody = Nobody
  MaxConn = 5
  LaneDepth = 2
  SeatBudgets <- SeatHistories
  WinNodes = {"a", "b"}
  Nothing = ""
  Scoped = {"b"}
  MaxOps = 3
  WinBudgets <- WindowHistories
  SurfKeys = {"k1", "k2"}
  SurfBudgets <- SurfaceHistories
  RevNodes = {"a", "b"}
  RevSuffixes = {2, 3}
  RevBudgets <- ReviewHistories
  ChNodes = {"a", "b", "c"}
  Queries = {0, 1}
  PaletteHits <- Hits
  ChBudgets <- ChooserHistories
  FormNames = {1, 2}
  FormBudgets <- FormHistories
  Shells = {1, 2}
  InspectionQueue = 2
  LookBudgets <- LookHistories
CHECK_DEADLOCK FALSE
INVARIANTS SeatIsSafe 
PROPERTIES  ActsOnWhatIsShown 
