SPECIFICATION TerminalsSpec
CONSTANTS
  None = None
  Procs = {p1, p2}
  Ids = {i1, i2}
  Names = {a}
  Kinds = {"create", "delete", "cleanup", "repair"}
  Usage = {}
  Budgets <- MCBudgets
  JournalCap = 2
  OutboundCap = 2
  WireCap = 1
  PendingCap = 2
  MaxRestarts = 1
  SlowInit = FALSE
  Hosts = {h1, h2}
  Nobody = Nobody
  MaxOutput = 2
  Retained = 1
  BatchCap = 2
  HeldCap = 1
  MaxAttach = 2
  MaxReplaced = 1
  Members <- MCMembers
  WriterCap = 2
  LineCap = 1
  PtyBudgets <- MCPtyBudgets
  DescriptorReuse = FALSE
  Processes = {"p", "q", "r"}
  Clients = {"x", "y"}
  Noone = "none"
  OwnBudgets <- MCOwnBudgets
CHECK_DEADLOCK FALSE
INVARIANTS LiveOperationUndisturbed SessionIsFaithful QueriesAnsweredOnce OneDaemon
  
