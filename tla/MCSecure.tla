------------------------------ MODULE MCSecure ------------------------------
(***************************************************************************)
(* For TLC, parts that share nothing, so that a behaviour is one of one of *)
(* them: a TLS session, the listeners with the io threads, the work        *)
(* threads of the MySQL client in two sizes, one of its connections, and   *)
(* its check of a table.  `part' says whose the behaviour is; the          *)
(* variables of the others stay at Absent.                                 *)
(***************************************************************************)
EXTENDS Integers, Sequences

VARIABLES
  part,
  sock, ssl, evts, reqs, io, main, kern, peer, cb,
  lst, conns, slots, lEvts, lReqs, proc, lMain, hist,
  is_run, procs, queue, conn, work, app, cmds,
  real_mysql, unread, at, sql, result, stored, answers, calls, losses,
  want, db, step, seen, todo, handle, failures, checks, clean, altered, unsent

\* Caches and buffers of one byte or record: each is full as often as it is empty.  One byte
\* sent by the application, or one by the peer.
Sending == INSTANCE EpollTls WITH
  TlsSendCap <- 1, TlsRecvCap <- 1, TlsBufCap <- 1, TlsTxCap <- 1, TlsMaxTry <- 1,
  TlsAppBytes <- 1, TlsPeerBytes <- 0
Receiving == INSTANCE EpollTls WITH
  TlsSendCap <- 1, TlsRecvCap <- 1, TlsBufCap <- 1, TlsTxCap <- 1, TlsMaxTry <- 1,
  TlsAppBytes <- 0, TlsPeerBytes <- 1

\* Two io threads, one slot, two connections: the second is refused while the first holds the slot.
Listener == INSTANCE EpollListener WITH
  LsnProcs <- 2, LsnSlots <- 1, LsnConns <- 2, evts <- lEvts, reqs <- lReqs, main <- lMain

\* One thread, three commands on a connection with a work thread and one without: results wait for
\* room.  Two threads, and a connection the other one made.
OneThread == INSTANCE DbWork WITH
  Apps <- {"a"}, Main <- "a", DbNum <- 1, QueueSize <- 2, ConnIdx <- <<1, 0>>, Creator <- <<"a", "a">>, MaxCmds <- 3
TwoThreads == INSTANCE DbWork WITH
  Apps <- {"a", "b"}, Main <- "a", DbNum <- 1, QueueSize <- 2, ConnIdx <- <<1>>, Creator <- <<"b">>, MaxCmds <- 2

\* Two statements, and failures of every step of a reconnection.
Client == INSTANCE MySqlClient WITH MaxQueries <- 2, MaxLosses <- 4, hist <- answers

\* A table with a key of one column, a unique one, one of two; and one with a primary key of two.
Table == INSTANCE DbSchema WITH
  Types <- {"t1", "t2"}, MaxFailures <- 2, MaxChecks <- 3, at <- step,
  Descriptions <-
    {[fields |-> [a |-> "t1", b |-> "t2"], primary |-> <<"a">>,
      keys |-> [u |-> [cols |-> <<"b">>, unique |-> TRUE], i |-> [cols |-> <<"a", "b">>, unique |-> FALSE]]],
     [fields |-> [a |-> "t1", b |-> "t2"], primary |-> <<"a", "b">>,
      keys |-> [i |-> [cols |-> <<"b">>, unique |-> FALSE]]]}

ASSUME DbConstants == OneThread!DbAssumption /\ TwoThreads!DbAssumption
ASSUME SqlConstants == Client!SqlAssumption
ASSUME SchemaConstants == Table!SchemaAssumption

tlsVars == <<sock, ssl, evts, reqs, io, main, kern, peer, cb>>
listenerVars == <<lst, conns, slots, lEvts, lReqs, proc, lMain, hist>>
dbVars == <<is_run, procs, queue, conn, work, app, cmds>>
clientVars == <<real_mysql, unread, at, sql, result, stored, answers, calls, losses>>
tableVars == <<want, db, step, seen, todo, handle, failures, checks, clean, altered, unsent>>
secureVars == <<part, tlsVars, listenerVars, dbVars, clientVars, tableVars>>

Absent == "absent"
Tls == part \in {"sending", "receiving"}
Db == part \in {"one thread", "two threads"}

Init ==
  /\ part \in {"sending", "receiving", "listener", "one thread", "two threads", "client", "table"}
  /\ IF Tls THEN (part = "sending" /\ Sending!Init) \/ (part = "receiving" /\ Receiving!Init)
     ELSE /\ sock = Absent /\ ssl = Absent /\ evts = Absent /\ reqs = Absent /\ io = Absent
          /\ main = Absent /\ kern = Absent /\ peer = Absent /\ cb = Absent
  /\ IF part = "listener" THEN Listener!Init
     ELSE /\ lst = Absent /\ conns = Absent /\ slots = Absent /\ lEvts = Absent
          /\ lReqs = Absent /\ proc = Absent /\ lMain = Absent /\ hist = Absent
  /\ IF Db THEN (part = "one thread" /\ OneThread!Init) \/ (part = "two threads" /\ TwoThreads!Init)
     ELSE /\ is_run = Absent /\ procs = Absent /\ queue = Absent /\ conn = Absent /\ work = Absent
          /\ app = Absent /\ cmds = Absent
  /\ IF part = "client" THEN Client!SqlInit
     ELSE /\ real_mysql = Absent /\ unread = Absent /\ at = Absent /\ sql = Absent /\ result = Absent
          /\ stored = Absent /\ answers = Absent /\ calls = Absent /\ losses = Absent
  /\ IF part = "table" THEN Table!SchemaInit
     ELSE /\ want = Absent /\ db = Absent /\ step = Absent /\ seen = Absent /\ todo = Absent
          /\ failures = Absent /\ checks = Absent /\ clean = Absent /\ altered = Absent
          /\ handle = Absent /\ unsent = Absent

\* An action of a part, which leaves the others alone.
OfTls(S, R) ==
  /\ (part = "sending" /\ S) \/ (part = "receiving" /\ R)
  /\ UNCHANGED <<part, listenerVars, dbVars, clientVars, tableVars>>
OfListener(A) == part = "listener" /\ A /\ UNCHANGED <<part, tlsVars, dbVars, clientVars, tableVars>>
OfDb(O, T) ==
  /\ (part = "one thread" /\ O) \/ (part = "two threads" /\ T)
  /\ UNCHANGED <<part, tlsVars, listenerVars, clientVars, tableVars>>
OfClient(A) == part = "client" /\ A /\ UNCHANGED <<part, tlsVars, listenerVars, dbVars, tableVars>>
OfTable(A) == part = "table" /\ A /\ UNCHANGED <<part, tlsVars, listenerVars, dbVars, clientVars>>

Next ==
  \/ OfTls(Sending!Next, Receiving!Next) \/ OfListener(Listener!Next)
  \/ OfDb(OneThread!Next, TwoThreads!Next) \/ OfClient(Client!SqlNext) \/ OfTable(Table!SchemaNext)

\* The fairness of EpollTls, EpollListener and DbWork.  A behaviour is of one part, so that one formula
\* can stand for one of each.
Fairness ==
  /\ WF_secureVars(\/ OfTls(Sending!IoLoop, Receiving!IoLoop) \/ OfListener(Listener!Io(1))
                   \/ OfDb(OneThread!Work(0), TwoThreads!Work(0)))
  /\ WF_secureVars(\/ OfTls(Sending!IoEpollWait, Receiving!IoEpollWait) \/ OfListener(Listener!Io(2))
                   \/ OfDb(OneThread!AppInside("a"), TwoThreads!AppInside("a")))
  /\ WF_secureVars(\/ OfTls(Sending!MainContinue, Receiving!MainContinue) \/ OfListener(Listener!MainInside)
                   \/ OfDb(OneThread!RunBegin("a"), TwoThreads!RunBegin("a")))
  /\ WF_secureVars(OfTls(Sending!PeerGoesOn, Receiving!PeerGoesOn) \/ OfDb(FALSE, TwoThreads!AppInside("b")))
  /\ SF_secureVars(OfTls(Sending!MainEvt, Receiving!MainEvt))
  /\ SF_secureVars(OfTls(Sending!MainTimers, Receiving!MainTimers))
  /\ WF_secureVars(OfDb(FALSE, TwoThreads!RunBegin("b")))

Spec == Init /\ [][Next]_secureVars /\ Fairness

-----------------------------------------------------------------------------
\* Accepted descriptors, slots and a listener that is freed (epoll_tcp.c:1921-1962, 2330-2373, 3216-3234).
ListenerSafe == part = "listener" => Listener!ListenerSafe

\* Commands are carried out once and answered in order, and no connection is destroyed under them
\* (db_mysql.cpp:399-970).
CommandsSafe ==
  (part = "one thread" => OneThread!CommandsSafe) /\ (part = "two threads" => TwoThreads!CommandsSafe)

\* What a statement's caller is told is what happened, and a checked table is as described
\* (client_mysql.c:262-545, db_mysql.cpp:973-1452).
DatabaseSafe ==
  (part = "client" => Client!MySqlSafe) /\ (part = "table" => Table!SchemaSafe)

\* The handshake ends and encrypted bytes are sent, and the calls of the libraries return but for
\* the cases WaitsForEver, StuckJoin and StuckPost name; results are given to a thread that polls for them; a TLS
\* session that ended gives its slot back
\* (epoll_tcp.c:1640-1746, 2431-2706, 3216-3234, db_mysql.cpp:651-855).
OneStays == OneThread!AllStay /\ OneThread!Waiting
TwoStay == TwoThreads!AllStay /\ TwoThreads!Waiting
ServiceGoesOn ==
  /\ (CASE Tls -> ~Sending!Quiet
        [] part = "listener" -> Listener!Calling
        [] part = "one thread" -> OneStays
        [] part = "two threads" -> TwoStay
        [] OTHER -> FALSE)
       ~> (CASE Tls -> Sending!Quiet
             [] part = "listener" -> ~Listener!Calling \/ Listener!WaitsForEver
             [] part = "one thread" -> ~OneStays
             [] part = "two threads" -> ~TwoStay
             [] OTHER -> TRUE)
  /\ (CASE Tls -> Sending!Ended
        [] part = "one thread" -> OneThread!Closing
        [] part = "two threads" -> TwoThreads!Closing
        [] OTHER -> FALSE)
       ~> (CASE Tls -> ~sock.held
             [] part = "one thread" -> ~OneThread!Closing \/ OneThread!Stuck
             [] part = "two threads" -> ~TwoThreads!Closing \/ TwoThreads!Stuck
             [] OTHER -> TRUE)
=============================================================================
