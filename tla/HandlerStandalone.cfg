SPECIFICATION Spec
CONSTANTS
  c1 = c1
  c2 = c2
  Calls = {c1, c2}
  NoCall = NoCall
  Keepalive = Keepalive
  MaxConn = 3
  LastID = 2
  SendBuf = 1
  Cluster = FALSE
SYMMETRY Symmetry
INVARIANTS TypeOK AnswerIsOwn NoEntryLeft NoLostCall OneConnection PanicOnlyAfterClose
PROPERTY RefinesRpc
