CONSTANTS
  Threads = {t1, t2}
  Ids = {1, 2}
  Blocks = {b1, b2, b3}
  NoBlock = NoBlock
  Day = 4
  RetainTime = 1
  Start = 2
  MaxNow = 5
  MaxRequests = 4
SPECIFICATION MCSpec
SYMMETRY Symmetry
INVARIANTS
  GuestTypeOK
  SendsLiveData
  SentMatchesList
  HeapIsListed
