CONSTANTS
  Http = TRUE
  RoomLocal = 2
  RoomRemote = 3
  Up = 4
  Down = 3
  Request = 3
  GL_BUFFER = 3
SPECIFICATION FairSpec
CHECK_DEADLOCK FALSE
INVARIANTS ConnectFirst NothingLost EndDelivered
PROPERTIES Flushed PipeRefined
