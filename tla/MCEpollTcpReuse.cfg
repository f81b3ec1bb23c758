\* One slot, one io thread, two sessions in turn: every way the slot is given back and used again.
SPECIFICATION Spec
CONSTANTS
  Sockets = {s1}
  Procs = {p1}
  NoSock = NoSock
  NoProc = NoProc
  SendCap = 1
  RecvCap = 1
  TxCap = 1
  EvtCap = 8
  ReqCap = 8
  MaxTry = 1
  DelaySizes = {0}
  MaxAppBytes = 1
  MaxPeerBytes = 1
  MaxSessions = 2
INVARIANTS
  TypeOK
  SessionsSafe
PROPERTIES
  CallbackOrder
CHECK_DEADLOCK FALSE
