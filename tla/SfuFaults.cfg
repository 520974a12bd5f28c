SPECIFICATION Spec
CONSTANTS
  Start = 7000
  End = 7002
  Step = 1
  None = None
  pub = pub
  sub = sub
  sub2 = sub2
  c1 = c1
  c2 = c2
  c3 = c3
  r1 = r1
  r2 = r2
  a1 = a1
  Uids <- Users
  Publishers <- PubOnly
  Pullers <- SubOnly
  Conns <- Conns2
  Rooms <- Room1
  Addrs <- Addr1
  ClientOffers = {"good", "nomedia", "nodtls", "bad"}
  ClientPackets = {"stun", "dtls", "media", "garbled"}
  Members = {1, 2}
  Udps = {1, 2, 3}
  MaxOffers = 2
  JoinOnce = TRUE
  MediaTiming = "any"
SYMMETRY ConnSymmetry
INVARIANT
  FaultHasCause
CHECK_DEADLOCK FALSE
