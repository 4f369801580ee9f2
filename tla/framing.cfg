\* Frames out of the byte stream, with pings; the connection may end after any byte.
CONSTANTS
  Types <- SomeTypes
  Objects <- OneObject
  Bodies <- SomeBodies
  LeftSizes = {0, 2}
  LeftBytes = {0, 1}
  MaxFrames = 3
  MaxHandled = 3
SPECIFICATION FairSpec
CHECK_DEADLOCK FALSE
INVARIANTS
  TypeOK
  FramesKept
  InStep
PROPERTY AllHandled
