SPECIFICATION OneWorn
CONSTANTS
  x = x
  y = y
  Devices = {0, 1}
  ZoneCount = 5
  ZoneStart <- Starts
  Permissions <- Rights
  PageCells = 1
  BlockCells = 2
  UnitCells = 1
  MaxRead = 1
  SyncDevices = {1}
  Failing = {"READ", "WRITE", "ERASE", "submit", "mount", "power"}
  MaxFaults = 1
  Erased = Erased
  Torn = Torn
  NONE = NONE
  Payloads <- Programs
  LogBlocks = 3
  SequenceMod = 8
  Params = {x, y}
  Defaults = x
  Commands = {"SAVE", "LOAD", "LOG", "TEST", "DEFAULTS"}
  MaxRequests = 2
INVARIANTS
  LogKept
PROPERTIES
  DoesWhatIsAsked
  SavesAreAtomic
  ReportsAreTrue
  RequestCompletes
