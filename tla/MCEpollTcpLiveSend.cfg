\* Liveness of sending and of the release of the slot.
SPECIFICATION LiveSpec
CONSTANTS
  Sockets = {s1}
  Procs = {p1}
  NoSock = NoSock
  NoProc = NoProc
  SendCap = 2
  RecvCap = 1
  TxCap = 1
  EvtCap = 8
  ReqCap = 8
  MaxTry = 1
  DelaySizes = {}
  MaxAppBytes = 3
  MaxPeerBytes = 0
  MaxSessions = 1
PROPERTIES
  AcceptedBytesSent
  SlotsReturn
CHECK_DEADLOCK FALSE
