SPECIFICATION ServicesSpec
CONSTANTS
  None = None
  Procs = {p1, p2}
  Nodes = {1, 2}
  Kinds = {"save", "reserve", "environment", "quarantine", "seed"}
  Disturbances = {"cancel", "crash"}
  Ids = {i1, i2, i3}
  Names = {"d", "x"}
  DefaultName = "d"
  NoId = NoId
  CatBudgets <- CatalogHistories
  Commands = 2
  BootBudgets <- StartHistories
  TestBudgets <- TestHistories
  FwdNodes = {"a", "b"}
  NoNode = ""
  Ports = {80}
  Tolerance = 1
  Workers = 4
  FwdBudgets <- ForwardingHistories
  Machines = {"m", "n"}
  QueueCap = 2
  ObsBudgets <- ObservationHistories
CHECK_DEADLOCK FALSE
INVARIANTS OrderedAcquisition NoLostUpdate  ProvisioningIsSound TestIsAccounted RoutingIsSound CacheIsSound
PROPERTIES PromisesAreKept 
