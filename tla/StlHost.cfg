SPECIFICATION Spec
CONSTANTS
  g1 = g1
  g2 = g2
  dma = dma
  NONE = NONE
  GroupIds = {g1, g2}
  MaxGroups = 2
  MaxTasks = 2
  MaxRecords = 2
  MaxGeneration = 2
  SliceTicks = 2
  TickMod = 5
  TickSteps = {1}
  Image <- OneEach
  InitCalls <- NoInit
  Holders = {}
  HostHold = {FALSE, TRUE}
  HostCommit = {TRUE, FALSE}
  Exhaustible = TRUE
  Calls = {"initialize", "enable", "revoke", "yield", "request_native"}
INVARIANTS
  TypeOK
  SnapshotsMatch
  OwnerCommitted
PROPERTIES
  ReturnsOnlyWhenIdle
