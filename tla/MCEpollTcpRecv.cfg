\* Reading: three bytes through a cache of two.
SPECIFICATION LiveSpec
CONSTANTS
  Sockets = {s1}
  Procs = {p1}
  NoSock = NoSock
  NoProc = NoProc
  SendCap = 1
  RecvCap = 2
  TxCap = 1
  EvtCap = 8
  ReqCap = 8
  MaxTry = 1
  DelaySizes = {}
  MaxAppBytes = 0
  MaxPeerBytes = 3
  MaxSessions = 1
INVARIANTS
  ReceivingSafe
PROPERTIES
  ArrivedBytesRead
  HangupNoticed
CHECK_DEADLOCK FALSE
