\* Two sessions side by side, a TLS session, and the two ends of a WebSocket.
SPECIFICATION Spec
CONSTANTS
  Sockets = {s1, s2}
  Procs = {p1, p2}
  NoSock = NoSock
  NoProc = NoProc
SYMMETRY Symmetry
INVARIANTS
  PairSafe
  TlsSafe
  MessagesIntact
  EndsOnce
CHECK_DEADLOCK FALSE
