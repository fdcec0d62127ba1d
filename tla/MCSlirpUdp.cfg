SPECIFICATION FairSpec
CONSTANTS
  IpFragTtl = 2
  Mtu = 2
  Sockets = {1, 2}
  Free = Free
  NoSocket = 0
  NoMac = "none"
  GuestMac = "m1"
  QueuedInARow = 3
  SentInARow = 1
  Vhost = "vhost"
  Vdns = "vdns"
  Vnet = {"vhost", "vdns", "near", "vnetcast"}
  Loopback = "loopback"
  Broadcast = "broadcast"
  VnetBroadcast = "vnetcast"
  Bootps = 67
  Dns = 53
  BeforeBuffer = "first"
  Leases = {1, 2}
  SoExpire = 2
  SoExpireFast = 1
  SelectLimit = 1
  RxBuffers = 2
  Datagrams <- MCDatagrams
  Scenarios <- MCScenarios
INVARIANTS DatagramsArrive AnswersReachTheAsker SessionsLeaveInOrder AddressesAreDistinct
PROPERTIES EverythingSettles
CHECK_DEADLOCK FALSE
