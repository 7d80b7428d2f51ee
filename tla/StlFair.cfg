SPECIFICATION FairSpec
CONSTANTS
  g1 = g1
  g2 = g2
  dma = dma
  NONE = NONE
  GroupIds = {g1}
  MaxGroups = 1
  MaxTasks = 2
  MaxRecords = 3
  MaxGeneration = 1
  SliceTicks = 2
  TickMod = 5
  TickSteps = {1}
  Image <- TwoInOne
  InitCalls <- NoInit
  Holders = {}
  HostHold = {FALSE}
  HostCommit = {TRUE}
  Exhaustible = FALSE
  Calls = {"initialize", "enable", "disable", "yield", "request_native"}
PROPERTIES
  NativeServed
  EveryTaskRuns
