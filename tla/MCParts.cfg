CONSTANTS
  kCheapPrepend = 2
  kInitialSize = 2
  Data <- SomeData
  EndsOfLine <- SomeEnds
  sizeofLength = 2
  MaxReadable = 3
  Pool = {e1, e2}
  MaxStarts = 3
  MaxSide = 5
  Requests <- SomeRequests
  NoText = ""
  SIZE = 5
  Values <- SomeValues
  Zero = 1
  One = 2
  Null <- NullText
  Slash = 5
  MaxLogged = 3
SPECIFICATION MCSpec
INVARIANTS
  ContentKept
  BufferAsserts
  BuffersRight
  PixelsInPlace
  PlanesFit
  RequestIsItsOwn
  LineOfWholeItems
  OneOrder
PROPERTIES
  RefusedForGood
