CONSTANTS
  Producers = {p1}
  Relays = {r1, r2}
  Consumers = {c1, c2}
  Capacity = 1
  MaxItems = 3
  MaxSpurious = 1
  NoThread = NoThread
  IOThreads = {t1, t2}
  Conns = {x1, x2, x3}
  Users = {a, b}
  Iterations = 2
  MaxObjects = 2
  Owners = {o1, o2}
  Callers = {w1, w2}
SPECIFICATION MCSpec
INVARIANTS
  HoldersRight
  NobodyForgotten
  OnePlace
  ListMatchesCalls
  OneInstance
  LocalsLiveAsLongAsThread
  CallsLiveObject
PROPERTIES
  Delivered
