SPECIFICATION Spec
CONSTANTS
  UdpFlows = {"dns", "udp"}
  DnsFlows = {"dns"}
  IcmpFlows = {"ping"}
  Ids = {1}
  Pointers = {p1, p2, p3}
  Descriptors = {1, 2}
  maxsessions = 1
  ICMP_TIMEOUT = 1
  UDP_TIMEOUT_53 = 1
  UDP_TIMEOUT_ANY = 2
  UDP_KEEP_TIMEOUT = 1
  EPOLL_TIMEOUT = 4
  fwd53 = FALSE
  Faults = {"attach", "epoll_wait", "protect", "send", "empty", "write", "read", "socket_error", "detach", "epoll_create"}
  MaxStarts = 2
  MaxPackets = 3
  MaxQueue = 2
  MaxBytes = 1
INVARIANTS TypeOK DescriptorsOwned ReportsValid OneSession SessionsWatched StoppedIsStopped
PROPERTIES InUseStays
SYMMETRY Symmetric
CHECK_DEADLOCK FALSE
