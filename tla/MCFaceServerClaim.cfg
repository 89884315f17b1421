CONSTANTS
  Threads = {t1, t2}
  CMAX_NUM = 2
  SEM_COUNT = 2
  Nobody = Nobody
  alice = alice
  bob = bob
  Models <- SomeModels
  NoModel = NoModel
  NoFace = NoFace
  Unreadable = Unreadable
  Ids = {1, 2}
  Registered = {1}
  Requests <- Overlapping
  MaxRequests = 2
  MaxRestarts = 0
SPECIFICATION MCSpec
INVARIANTS
  OkOnlyOnMatch
