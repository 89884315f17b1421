CONSTANTS
  Threads = {t1, t2}
  CMAX_NUM = 2
  SEM_COUNT = 2
  Nobody = Nobody
  alice = alice
  bob = bob
  Models <- SomeModels
  NoModel = NoModel
  NoFace = NoFace
  Unreadable = Unreadable
  Ids = {1, 2}
  Registered = {1}
  Requests <- Remembering
  MaxRequests = 2
  MaxRestarts = 1
SPECIFICATION MCSpec
SYMMETRY ThreadSymmetry
PROPERTIES
  ImplementsGate
