CONSTANTS
  Threads = {t1, t2, t3}
  CMAX_NUM = 2
  SEM_COUNT = 2
  Nobody = Nobody
  alice = alice
  bob = bob
  Models <- SomeModels
  NoModel = NoModel
  NoFace = NoFace
  Unreadable = Unreadable
  Ids = {1, 2}
  Registered = {}
  Requests <- Contending
  MaxRequests = 3
  MaxRestarts = 0
SPECIFICATION MCFairSpec
PROPERTIES
  RequestsAnswered
