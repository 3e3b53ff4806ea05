SPECIFICATION Spec
CONSTANTS
  c1 = c1
  Calls = {c1}
  NoCall = NoCall
  Keepalive = Keepalive
  MaxConn = 2
  LastID = 1
  SendBuf = 1
  Cluster = FALSE
INVARIANT CloseCloses
