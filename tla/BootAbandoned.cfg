SPECIFICATION UploadSpec
CONSTANTS
  p1 = p1
  p2 = p2
  Erased = Erased
  Corrupt = Corrupt
  NONE = NONE
  Packages = {p1, p2}
  Uploads = {p1, p2}
  Chunks = 2
  Modes = {"STAGED"}
  DefaultMode = "STAGED"
  UpgradeMode = "STAGED"
  OnReject = "info"
  MaxRestarts = 1
  MaxDelay = 1
  MaxRetries = 1
  SequenceMod = 4
  Failing = {}
  MaxFaults = 0
PROPERTIES
  InterruptedRestarts
CHECK_DEADLOCK FALSE
