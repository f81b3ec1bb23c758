\* Liveness of sending and of the release of the slot: two sessions in turn, two bytes
\* out and none in, and the order of their callbacks.
SPECIFICATION LiveSpec
CONSTANTS
  Sockets = {s1}
  Threads = {t1, t2}
  NoSock = NoSock
  SendCap = 1
  RecvCap = 1
  EvtCap = 12
  MaxTry = 1
  MaxAppBytes = 2
  MaxPeerBytes = 0
  MaxSessions = 2
INVARIANTS
  CallbacksInOrder
PROPERTIES
  SlotsReturn
  AcceptedBytesSent
CHECK_DEADLOCK FALSE
