SPECIFICATION Spec
CONSTANTS
  Half = 16
  AppIsns = {30}
  Totals = {0}
  MaxSeg = 1
  SynData = {0}
  Buffer = 2
  Lossy = FALSE
  Ports = {22}
  LocalIsns = {14}
  Mss = 2
  MaxDown = 2
  Request = 3
  Faults = {}
INVARIANT NoFutureAck
CHECK_DEADLOCK FALSE
