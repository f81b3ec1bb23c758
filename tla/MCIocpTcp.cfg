\* One slot and two io threads, one session, two bytes out and two in.
SPECIFICATION Spec
CONSTANTS
  Sockets = {s1}
  Threads = {t1, t2}
  NoSock = NoSock
  SendCap = 1
  RecvCap = 2
  EvtCap = 12
  MaxTry = 1
  MaxAppBytes = 2
  MaxPeerBytes = 2
  MaxSessions = 1
SYMMETRY ThreadsAlike
INVARIANTS
  HandlersSafe
  BytesAccounted
CHECK_DEADLOCK FALSE
