CONSTANTS
  Http = FALSE
  RoomLocal = 1
  RoomRemote = 2
  Up = 4
  Down = 4
  Request = 1
  GL_BUFFER = 3
SPECIFICATION FairSpec
CHECK_DEADLOCK FALSE
INVARIANTS TypeOK NothingLost RemainderWatched EndDelivered
PROPERTIES Flushed PipeRefined
