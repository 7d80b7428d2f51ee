SPECIFICATION UploadSpec
CONSTANTS
  p1 = p1
  p2 = p2
  Erased = Erased
  Corrupt = Corrupt
  NONE = NONE
  Packages = {p1, p2}
  Uploads = {p1, p2}
  Chunks = 2
  Modes = {"STAGED"}
  DefaultMode = "STAGED"
  UpgradeMode = "STAGED"
  OnReject = "ready"
  MaxRestarts = 1
  MaxDelay = 1
  MaxRetries = 1
  SequenceMod = 4
  Failing = {"read", "program", "erase", "platform"}
  MaxFaults = 1
PROPERTIES
  EndMeansStored
  UploadCompletes
  RecoveryCompletes
CHECK_DEADLOCK FALSE
