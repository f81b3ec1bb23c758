\* One socket, and the event queue create_net_tcp makes for it: 16 entries of which a loop cache
\* keeps one free.
SPECIFICATION SlowMainSpec
CONSTANTS
  Sockets = {s1}
  Procs = {p1}
  NoSock = NoSock
  NoProc = NoProc
  SendCap = 1
  RecvCap = 16
  TxCap = 1
  EvtCap = 15
  ReqCap = 15
  MaxTry = 1
  DelaySizes = {}
  MaxAppBytes = 0
  MaxPeerBytes = 15
  MaxSessions = 1
INVARIANTS
  EventQueueHasRoom
CHECK_DEADLOCK FALSE
