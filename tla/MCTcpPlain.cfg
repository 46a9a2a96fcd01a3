SPECIFICATION Spec
CONSTANTS
  Half = 16
  AppIsns = {30}
  Totals = {0, 2}
  MaxSeg = 1
  SynData = {0}
  Buffer = 2
  Lossy = TRUE
  Ports = {22, 80}
  LocalIsns = {3}
  Mss = 1
  MaxDown = 2
  Request = 3
  Faults = {"open", "tun", "epoll", "recv"}
INVARIANTS TypeOK ForwardedInOrder StreamToApp WithinWindow NoFutureAck SocketHeld AcksHeld
PROPERTIES ClosedStaysClosed RelayRefined
CHECK_DEADLOCK FALSE
