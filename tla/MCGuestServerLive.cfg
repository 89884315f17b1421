CONSTANTS
  Threads = {t1, t2, t3}
  Ids = {1}
  Blocks = {b1, b2, b3}
  NoBlock = NoBlock
  Day = 3
  RetainTime = 1
  Start = 1
  MaxNow = 2
  MaxRequests = 3
SPECIFICATION MCFairSpec
PROPERTIES
  GuestRequestsServed
