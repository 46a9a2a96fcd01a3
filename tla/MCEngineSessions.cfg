SPECIFICATION FairSpec
CONSTANTS
  UdpFlows = {"udp"}
  DnsFlows = {}
  IcmpFlows = {"ping"}
  Ids = {1}
  Pointers = {p1, p2}
  Descriptors = {1, 2}
  maxsessions = 200
  ICMP_TIMEOUT = 1
  UDP_TIMEOUT_53 = 1
  UDP_TIMEOUT_ANY = 2
  UDP_KEEP_TIMEOUT = 1
  EPOLL_TIMEOUT = 4
  fwd53 = TRUE
  Faults = {"socket_error", "epoll_ctl", "again"}
  MaxStarts = 1
  MaxPackets = 2
  MaxQueue = 2
  MaxBytes = 0
INVARIANTS IdleBounded
PROPERTIES StopReturns Released
CHECK_DEADLOCK FALSE
