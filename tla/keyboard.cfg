SPECIFICATION Spec
CONSTANTS
  Char = {a, bs}
  Backspace = bs
  OtherKey = other
  Nothing = nothing
  BufferSize = 3
  WireSize = 2
  ReadFd = {1, 4}
  ReadCount = {0, 2, 5}
  CountLimit = 4
INVARIANTS
  TypeOK
  RingIsConsistent
  StoresInsideBuffer
PROPERTIES
  ImplementsInputQueue
  DropsOnlyWhenFull
  WaitingReadWakes
