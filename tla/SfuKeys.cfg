SPECIFICATION Spec
CONSTANTS
  Start = 7000
  End = 7002
  Step = 1
  None = None
  pub = pub
  sub = sub
  sub2 = sub2
  c1 = c1
  c2 = c2
  c3 = c3
  r1 = r1
  r2 = r2
  a1 = a1
  Uids <- Users
  Publishers <- PubOnly
  Pullers <- SubOnly
  Conns <- Conns2
  Rooms <- Room1
  Addrs <- Addr1
  ClientOffers = {"good"}
  ClientPackets = {"dtls", "media"}
  Members = {1, 2}
  Udps = {1, 2}
  MaxOffers = 1
  JoinOnce = TRUE
  MediaTiming = "reordered"
INVARIANT
  KeysAskedWhenConnected
CHECK_DEADLOCK FALSE
