SPECIFICATION Spec
CONSTANTS
  UdpFlows = {"dns", "udp"}
  DnsFlows = {"dns"}
  IcmpFlows = {"ping"}
  Ids = {1, 2}
  Pointers = {p1, p2}
  Descriptors = {1, 2}
  maxsessions = 200
  ICMP_TIMEOUT = 1
  UDP_TIMEOUT_53 = 1
  UDP_TIMEOUT_ANY = 2
  UDP_KEEP_TIMEOUT = 1
  EPOLL_TIMEOUT = 4
  fwd53 = TRUE
  Faults = {}
  MaxStarts = 1
  MaxPackets = 2
  MaxQueue = 2
  MaxBytes = 0
INVARIANTS EchoRestored
CHECK_DEADLOCK FALSE
