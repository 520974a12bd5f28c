SPECIFICATION Spec
CONSTANTS
  Start = 7000
  End = 7002
  Step = 1
  None = None
  pub = pub
  sub = sub
  sub2 = sub2
  c1 = c1
  c2 = c2
  c3 = c3
  r1 = r1
  r2 = r2
  a1 = a1
  Uids <- Users
  Publishers <- Users
  Pullers <- Users
  Conns <- Conns3
  Rooms <- Room2
  Addrs <- Addr1
  ClientOffers = {"good"}
  ClientPackets = {}
  Members = {1, 2, 3}
  Udps = {1, 2, 3, 4}
  MaxOffers = 2
  JoinOnce = FALSE
  MediaTiming = "any"
SYMMETRY ConnAndRoomSymmetry
INVARIANTS
  PortsAccounted
  RoomsConsistent
CHECK_DEADLOCK FALSE
