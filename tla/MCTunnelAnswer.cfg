CONSTANTS
  Http = TRUE
  RoomLocal = 2
  RoomRemote = 2
  Up = 2
  Down = 1
  Request = 3
  GL_BUFFER = 3
SPECIFICATION Spec
CHECK_DEADLOCK FALSE
INVARIANTS ResponseAwaited
