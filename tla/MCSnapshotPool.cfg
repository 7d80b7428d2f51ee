SPECIFICATION Spec
CONSTANTS
  PoolWords = 5
  MaxRecords = 3
  t1 = t1
  t2 = t2
  t3 = t3
  o1 = o1
  o2 = o2
  a = a
  b = b
  NONE = NONE
  Tasks = {t1, t2, t3}
  Owners = {o1, o2}
  Word = {a, b}
  Group <- MCGroup
  Frames <- MCFrames
INVARIANTS
  TypeOK
  RecordsMatchTasks
  RingInv
  NeverCorrupt
  SpansDisjoint
PROPERTIES
  RejectsOnlyWhenFull
  ImplementsStore
