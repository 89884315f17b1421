CONSTANTS
  Threads = {t1, t2, t3}
  CMAX_NUM = 2
  SEM_COUNT = 2
  Nobody = Nobody
  Pictures = {p1, p2}
  NoPicture = NoPicture
  MaxGuests = 2
SPECIFICATION MemorySpec
SYMMETRY Symmetry
INVARIANTS
  PoolTypeOK
  EngineExclusive
  TopIsDefined
  PoolConserved
  HeldFeatureIntact
  UsersAsExtracted
  GuestsAsExtracted
