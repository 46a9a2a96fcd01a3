SPECIFICATION Spec
CONSTANTS
  Half = 16
  AppIsns = {30}
  Totals = {1}
  MaxSeg = 1
  SynData = {0}
  Buffer = 2
  Lossy = FALSE
  Ports = {443}
  LocalIsns = {14}
  Mss = 2
  MaxDown = 2
  Request = 3
  Faults = {"open", "tun", "epoll"}
INVARIANTS WithinWindow SocketHeld AcksHeld ConnectFirst
PROPERTIES ClosedStaysClosed RelayRefined
CHECK_DEADLOCK FALSE
