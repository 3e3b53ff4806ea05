SPECIFICATION ClientFairSpec
CONSTANTS
  c1 = c1
  c2 = c2
  Calls = {c1, c2}
  NoCall = NoCall
  Keepalive = Keepalive
  MaxConn = 1
  LastID = 2
  SendBuf = 1
  Cluster = FALSE
PROPERTY TimeoutEndsCall
