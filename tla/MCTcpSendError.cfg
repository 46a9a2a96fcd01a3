SPECIFICATION Spec
CONSTANTS
  Half = 16
  AppIsns = {30}
  Totals = {2}
  MaxSeg = 1
  SynData = {0}
  Buffer = 1
  Lossy = FALSE
  Ports = {22}
  LocalIsns = {3}
  Mss = 1
  MaxDown = 1
  Request = 3
  Faults = {"send"}
INVARIANT AckedMeansForwarded
CHECK_DEADLOCK FALSE
