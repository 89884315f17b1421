CONSTANTS
  kCheapPrepend = 2
  kInitialSize = 6
  ImageOnly <- CompareImageOnly
  IdAndImage <- BothIdAndImage
  IdOnly <- GuestIdOnly
  Frames <- SomeFrames
  MaxFrames = 3
SPECIFICATION MCFairSpec
INVARIANTS
  StreamInStep
PROPERTIES
  AllHandled
