SPECIFICATION FairSpec
CONSTANTS
  Threads = {t1, t2}
  null = null
  MaxFragments = 3
  MaxFaults = 2
INVARIANTS
  TypeOK
  StoredIsOwn
PROPERTIES
  GenerationEnds
CHECK_DEADLOCK FALSE
