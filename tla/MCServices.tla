----------------------------- MODULE MCServices ------------------------------
(***************************************************************************)
(* For TLC, further components that share nothing, as in MCComponents: two *)
(* plain TCP sessions beside each other, a TLS session, and a WebSocket.  `scene' says    *)
(* whose a behaviour is; the variables of the others stay at Absent.       *)
(***************************************************************************)
EXTENDS Integers, Sequences, FiniteSets, TLC

CONSTANTS
  Sockets,  \* two slots
  Procs,    \* two io threads
  NoSock, NoProc

VARIABLES
  scene,
  sock, pool, list_net_evt, list_net_req, io, main, kern, cb, started, crush,
  tSock, ssl, evts, reqs, tIo, tMain, tKern, peer, tCb,
  ws, tcp, wire, stuck, foreign, hook, sent, part, got, seen, closes, pings

pairVars == <<sock, pool, list_net_evt, list_net_req, io, main, kern, cb, started, crush>>
tlsVars == <<tSock, ssl, evts, reqs, tIo, tMain, tKern, peer, tCb>>
wsVars == <<ws, tcp, wire, stuck, foreign, hook, sent, part, got, seen, closes, pings>>

\* Two slots and two io threads, sessions without data.
Pair == INSTANCE EpollTcp WITH
  SendCap <- 1, RecvCap <- 1, TxCap <- 1, EvtCap <- 8, ReqCap <- 8, MaxTry <- 0, DelaySizes <- {},
  MaxAppBytes <- 0, MaxPeerBytes <- 0, MaxSessions <- 2

\* One session, accepted or opened; caches and buffers of one byte or record, and one byte each way.
Tls == INSTANCE EpollTls WITH
  TlsSendCap <- 1, TlsRecvCap <- 1, TlsBufCap <- 1, TlsTxCap <- 1, TlsMaxTry <- 1,
  TlsAppBytes <- 1, TlsPeerBytes <- 1,
  sock <- tSock, io <- tIo, main <- tMain, kern <- tKern, cb <- tCb

\* Frames of the short and the longest header, an empty message and one that inflates to more than
\* the cache holds, two messages, up to three frames of a foreign peer, one ping.
Socket == INSTANCE WebSocket WITH
  Sizes <- {0, 262200}, InflateCache <- 262144, MaxMessages <- 2, MaxFrames <- 3, MaxPings <- 1

-----------------------------------------------------------------------------
Absent == "absent"

Init ==
  /\ scene \in {"pair", "tls", "websocket"}
  /\ IF scene = "pair" THEN Pair!Init
     ELSE /\ sock = Absent /\ pool = Absent /\ list_net_evt = Absent /\ list_net_req = Absent
          /\ io = Absent /\ main = Absent /\ kern = Absent /\ cb = Absent
          /\ started = Absent /\ crush = Absent
  /\ IF scene = "tls" THEN Tls!Init
     ELSE /\ tSock = Absent /\ ssl = Absent /\ evts = Absent /\ reqs = Absent /\ tIo = Absent
          /\ tMain = Absent /\ tKern = Absent /\ peer = Absent /\ tCb = Absent
  /\ IF scene = "websocket" THEN Socket!Init
     ELSE /\ ws = Absent /\ tcp = Absent /\ wire = Absent /\ stuck = Absent /\ foreign = Absent
          /\ hook = Absent /\ sent = Absent /\ part = Absent /\ got = Absent /\ seen = Absent
          /\ closes = Absent /\ pings = Absent

Next ==
  /\ UNCHANGED scene
  /\ \/ scene = "pair" /\ Pair!Next /\ UNCHANGED <<tlsVars, wsVars>>
     \/ scene = "tls" /\ Tls!Next /\ UNCHANGED <<pairVars, wsVars>>
     \/ scene = "websocket" /\ Socket!Next /\ UNCHANGED <<pairVars, tlsVars>>

Spec == Init /\ [][Next]_<<scene, pairVars, tlsVars, wsVars>>

Symmetry == Permutations(Sockets) \cup Permutations(Procs)

-----------------------------------------------------------------------------
\* Two sessions on two io threads do not disturb each other, and a slot goes back only when
\* nothing refers to it (epoll_tcp.c:1023-1093, 1483-1496).
PairSafe == scene = "pair" => Pair!NoDanglingReference /\ Pair!EndIsLast

\* The callbacks of a TLS session, its received bytes and the end of its slot (epoll_tcp.c:1625-1892, 2241-2326).
TlsSafe == scene = "tls" => Tls!SessionSafe

\* Messages arrive whole and in order (websocket.c:884-1160).
MessagesIntact == scene = "websocket" => Socket!MessagesIntact

\* The end of a WebSocket reaches the application once (websocket.c:1330-1460).
EndsOnce == scene = "websocket" => Socket!EndsOnce
=============================================================================
