SPECIFICATION FairSpec
CONSTANTS
  g1 = g1
  g2 = g2
  dma = dma
  NONE = NONE
  GroupIds = {g1, g2}
  MaxGroups = 2
  MaxTasks = 2
  MaxRecords = 2
  MaxGeneration = 2
  SliceTicks = 1
  TickMod = 3
  TickSteps = {1}
  Image <- OneEach
  InitCalls <- InitOnce
  Holders = {dma}
  HostHold = {FALSE, TRUE}
  HostCommit = {TRUE}
  Exhaustible = TRUE
  Calls = {"initialize", "enable", "disable", "pause", "revoke", "quiescent", "forget"}
INVARIANTS
  QueueSound
  ClosedIsOut
  PausedIsIdle
  QuiescentIsRetired
  NothingOutlivesForget
PROPERTIES
  RevokeCompletes
  ClosedIsFinal
