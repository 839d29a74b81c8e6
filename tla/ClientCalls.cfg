SPECIFICATION Spec
CONSTANTS
  Threads = {t1, t2}
  NoThread = NoThread
  NoConn = NoConn
  Ops = {"command", "status", "measure"}
  Server = {"framed", "legacy"}
  MaxConns = 2
  MaxRequests = 2
INVARIANTS TypeOK AnsweredByOwnReply
PROPERTIES CallsReturn ImplementsSession
CHECK_DEADLOCK FALSE
