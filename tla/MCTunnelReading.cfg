CONSTANTS
  Http = FALSE
  RoomLocal = 1
  RoomRemote = 2
  Up = 2
  Down = 2
  Request = 1
  GL_BUFFER = 3
SPECIFICATION FairSpec
CHECK_DEADLOCK FALSE
PROPERTIES ReadingResumes
