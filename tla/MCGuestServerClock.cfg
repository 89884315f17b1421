CONSTANTS
  Threads = {t1}
  Ids = {1, 2}
  Blocks = {b1, b2, b3, b4}
  NoBlock = NoBlock
  Day = 10
  RetainTime = 2
  Start = 2
  MaxNow = 9
  MaxRequests = 4
SPECIFICATION MCSpec
SYMMETRY BlockSymmetry
PROPERTIES
  OnlyOutdatedCleared
  NothingOutdatedLeft
