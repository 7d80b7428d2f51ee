SPECIFICATION Spec
CONSTANTS
  p1 = p1
  p2 = p2
  Erased = Erased
  Corrupt = Corrupt
  NONE = NONE
  Packages = {p1, p2}
  Chunks = 2
  Modes = {"DIRECT"}
  DefaultMode = "DIRECT"
  MaxRetries = 1
  SequenceMod = 4
  Failing = {"metadata_read"}
  MaxFaults = 2
VIEW Live
SYMMETRY Interchangeable
INVARIANTS
  BootsOnlyComplete
