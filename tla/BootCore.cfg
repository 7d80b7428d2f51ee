SPECIFICATION Spec
CONSTANTS
  p1 = p1
  p2 = p2
  Erased = Erased
  Corrupt = Corrupt
  NONE = NONE
  Packages = {p1, p2}
  Chunks = 2
  Modes = {"DIRECT"}
  DefaultMode = "STAGED"
  MaxRetries = 1
  SequenceMod = 4
  Failing = {"read", "program", "erase", "silent", "platform"}
  MaxFaults = 3
VIEW Live
SYMMETRY Interchangeable
INVARIANTS
  TypeOK
  BootsOnlyComplete
  ImageGuarded
  InstallBounded
  ProgramsErasedOnly
PROPERTIES
  OldImageKept
  CommitsAreAtomic
