------------------------------ MODULE EpollTcp ------------------------------
(***************************************************************************)
(* The plain TCP sessions of src/epoll_tcp.c: the life of a pooled         *)
(* epoll_tcp_socket between the main thread, which runs net_tcp_run,       *)
(* the timers and the application's calls, and the io threads              *)
(* (_epoll_tcp_net_proc_func), which run the socket calls.                 *)
(*                                                                         *)
(* The two sides share the socket structure without a lock and talk        *)
(* through two single-producer single-consumer queues per io thread:       *)
(* list_net_req (main to io) and list_net_evt (io to main).  An action is  *)
(* a stretch of one thread's code with at most one access the other        *)
(* thread can observe in between; longer handlers are cut at those points  *)
(* and continue through io[p].at or main.at.                               *)
(*                                                                         *)
(* Data is counted, not stored.  The bytes in send_loop_cache are          *)
(* data_need_send - data_has_send, because a push adds to the first and a  *)
(* pop to the second.  Time is abstracted: an armed periodic timer may     *)
(* fire at any moment the main thread is between two handlers.             *)
(***************************************************************************)
EXTENDS Integers, Sequences, FiniteSets, SequencesExt, Announcements

CONSTANTS
  Sockets,        \* the slots of mgr->socket_pool
  Procs,          \* the io threads, mgr->tcp_proc_array
  NoSock,         \* a null sock_ptr
  NoProc,         \* a null proc
  SendCap,        \* usable bytes of a send_loop_cache
  RecvCap,        \* usable bytes of a recv_loop_cache
  TxCap,          \* bytes the kernel buffers for sending
  EvtCap,         \* usable entries of list_net_evt
  ReqCap,         \* usable entries of list_net_req
  MaxTry,         \* MAX_TRY_CLOSE_SEND
  DelaySizes,     \* values the application gives data_delay_send_size
  MaxAppBytes,    \* bound: bytes the application sends in one session
  MaxPeerBytes,   \* bound: bytes the peer sends in one session
  MaxSessions     \* bound: connections accepted or opened in one behaviour

ASSUME ConstantsAssumption ==
  /\ NoSock \notin Sockets /\ NoProc \notin Procs
  /\ {SendCap, RecvCap, TxCap, EvtCap, ReqCap} \subseteq Nat \ {0}
  /\ {MaxTry, MaxAppBytes, MaxPeerBytes, MaxSessions} \subseteq Nat
  /\ DelaySizes \subseteq Nat

VARIABLES
  sock,          \* the fields of each epoll_tcp_socket
  pool,          \* the slots in the free list of mgr->socket_pool
  list_net_evt,  \* per proc, io thread to main thread
  list_net_req,  \* per proc, main thread to io thread
  io,            \* where each io thread is
  main,          \* where the main thread is
  kern,          \* the kernel's side of each descriptor, and its peer
  cb,            \* history: the callbacks the application has seen
  started,       \* connections begun so far, for the bound MaxSessions
  crush          \* "none", or the CRUSH_CODE that ended the process

vars == <<sock, pool, list_net_evt, list_net_req, io, main, kern, cb, started, crush>>

-----------------------------------------------------------------------------
(* Values *)

SocketStates == {"NONE", "CONNECT", "ESTABLISH", "TERMINATE", "DELETE"}
EventTypes == {"ESTABLISH", "DATA", "SYSTEM_ERROR", "MODULE_ERROR", "TERMINATE",
               "CONNECT_FAIL", "RECV_ACTIVATE", "ACCEPT", "ACCEPT_FAIL"}
RequestTypes == {"CONNECT", "ACCEPT", "SEND", "RECV_ACTIVATE", "TERMINATE",
                 "CLOSE_SOCKET", "ACCEPT_FAIL"}
TerminalEvents == {"SYSTEM_ERROR", "MODULE_ERROR", "TERMINATE", "CONNECT_FAIL", "ACCEPT_FAIL"}

\* A net_event: len is evt_data.data_len, zero for the other types.
Event(t, s, n) == [type |-> t, sock |-> s, len |-> n]

\* A net_request: error is req_terminate.module_error, "none" for the other types.
Request(t, s, e) == [type |-> t, sock |-> s, error |-> e]

\* _epoll_tcp_socket_reset, with the proc chosen for the new session.
ResetSocket(p) ==
  [state |-> "NONE", proc |-> p, sock_fd |-> FALSE,
   timer_send |-> FALSE, timer_close |-> FALSE,
   send_req |-> 0, send_ack |-> 0,
   data_need_send |-> 0, data_has_send |-> 0, data_delay_send_size |-> 0,
   try_close_send_count |-> 0,
   need_send_active |-> TRUE, need_req_close |-> TRUE, need_recv_active |-> FALSE,
   data_has_recv |-> 0, recv_used |-> 0]

\* A descriptor the kernel does not know.
NoDescriptor ==
  [conn |-> "none", interest |-> FALSE, ready |-> FALSE,
   rx |-> 0, left |-> 0, fin |-> FALSE, tx |-> 0, nospace |-> FALSE]

IoIdle == [at |-> "idle", from |-> "none", sock |-> NoSock, todo |-> {}, got |-> 0, why |-> "none"]
MainIdle == [at |-> "idle", sock |-> NoSock]

SendUsed(s) == sock[s].data_need_send - sock[s].data_has_send
SendFree(s) == SendCap - SendUsed(s)
RecvFree(s) == RecvCap - sock[s].recv_used

Init ==
  /\ sock = [s \in Sockets |-> ResetSocket(NoProc)]
  /\ pool = Sockets
  /\ list_net_evt = [p \in Procs |-> <<>>]
  /\ list_net_req = [p \in Procs |-> <<>>]
  /\ io = [p \in Procs |-> IoIdle]
  /\ main = MainIdle
  /\ kern = [s \in Sockets |-> NoDescriptor]
  /\ cb = [s \in Sockets |-> "idle"]
  /\ started = 0
  /\ crush = "none"

-----------------------------------------------------------------------------
(* Queues.  A request keeps its entry until its handler returns            *)
(* (loop_cache_pop is the last thing _do_net_req does for it), so the one  *)
(* being handled still counts against the capacity.                        *)

PushEvt(p, e) ==
  IF Len(list_net_evt[p]) < EvtCap
  THEN list_net_evt' = [list_net_evt EXCEPT ![p] = Append(@, e)] /\ UNCHANGED crush
  ELSE crush' = "evt_full" /\ UNCHANGED list_net_evt

ReqUsed(p) == Len(list_net_req[p]) + (IF io[p].from = "req" THEN 1 ELSE 0)

PushReq(p, r) ==
  IF ReqUsed(p) < ReqCap
  THEN list_net_req' = [list_net_req EXCEPT ![p] = Append(@, r)] /\ UNCHANGED crush
  ELSE crush' = "req_full" /\ UNCHANGED list_net_req

-----------------------------------------------------------------------------
(* The io thread *)

IoAt(p, label) == crush = "none" /\ io[p].at = label

\* The io thread enters a handler for s, from a request or an epoll event.
Enter(p, label, from, s, todo) ==
  io' = [io EXCEPT ![p] = [IoIdle EXCEPT !.at = label, !.from = from, !.sock = s, !.todo = todo]]

GoTo(p, label) == io' = [io EXCEPT ![p].at = label]

\* The handler returns: to the rest of the epoll event, or to the loop.
Finish(p) ==
  IF io[p].todo = {} THEN io' = [io EXCEPT ![p] = IoIdle]
  ELSE Enter(p, "dispatch", io[p].from, io[p].sock, io[p].todo)

TakeReq(p, type) ==
  /\ IoAt(p, "idle")
  /\ list_net_req[p] # <<>>
  /\ Head(list_net_req[p]).type = type
  /\ list_net_req' = [list_net_req EXCEPT ![p] = Tail(@)]

\* Mutant: the acknowledgement is forgotten.
IoReqSend_Unacknowledged(p) ==
  /\ TakeReq(p, "SEND")
  /\ Enter(p, "send", "req", Head(list_net_req[p]).sock, {})
  /\ UNCHANGED <<sock, pool, list_net_evt, main, kern, cb, started, crush>>

\* NET_REQUEST_SEND: the acknowledgement is counted before the sending.
IoReqSend(p) ==
  /\ TakeReq(p, "SEND")
  /\ LET s == Head(list_net_req[p]).sock IN
       /\ sock' = [sock EXCEPT ![s].send_ack = @ + 1]
       /\ Enter(p, "send", "req", s, {})
  /\ UNCHANGED <<pool, list_net_evt, main, kern, cb, started, crush>>

\* Mutant: need_recv_active stays set.
IoReqRecvActivate_StaysSuspended(p) ==
  /\ TakeReq(p, "RECV_ACTIVATE")
  /\ Enter(p, "recv", "req", Head(list_net_req[p]).sock, {})
  /\ UNCHANGED <<sock, pool, list_net_evt, main, kern, cb, started, crush>>

\* NET_REQUEST_RECV_ACTIVATE
IoReqRecvActivate(p) ==
  /\ TakeReq(p, "RECV_ACTIVATE")
  /\ LET s == Head(list_net_req[p]).sock IN
       /\ sock' = [sock EXCEPT ![s].need_recv_active = FALSE]
       /\ Enter(p, "recv", "req", s, {})
  /\ UNCHANGED <<pool, list_net_evt, main, kern, cb, started, crush>>

\* _epoll_tcp_socket_on_accept: only the socket's own thread may register the descriptor, and
\* registering may fail.
IoReqAccept(p) ==
  /\ TakeReq(p, "ACCEPT")
  /\ LET s == Head(list_net_req[p]).sock IN
       IF sock[s].proc # p
       THEN crush' = "wrong_proc" /\ UNCHANGED <<sock, list_net_evt, kern>>
       ELSE \/ /\ sock' = [sock EXCEPT ![s].state = "ESTABLISH"]
               /\ kern' = [kern EXCEPT ![s].interest = TRUE, ![s].ready = TRUE]
               /\ PushEvt(p, Event("ESTABLISH", s, 0))
            \/ /\ sock' = [sock EXCEPT ![s].state = "DELETE", ![s].sock_fd = FALSE]
               /\ kern' = [kern EXCEPT ![s] = NoDescriptor]
               /\ PushEvt(p, Event("ACCEPT_FAIL", s, 0))
  /\ UNCHANGED <<pool, io, main, cb, started>>

\* NET_REQUEST_ACCEPT_FAIL: the accepted descriptor found no socket and is closed.
IoReqAcceptFail(p) ==
  /\ TakeReq(p, "ACCEPT_FAIL")
  /\ UNCHANGED <<sock, pool, list_net_evt, io, main, kern, cb, started, crush>>

\* _epoll_tcp_socket_on_connect_req: the connection attempt starts, or fails at once.
IoReqConnect(p) ==
  /\ TakeReq(p, "CONNECT")
  /\ LET s == Head(list_net_req[p]).sock IN
       IF sock[s].proc # p
       THEN crush' = "wrong_proc" /\ UNCHANGED <<sock, list_net_evt, kern>>
       ELSE \/ /\ sock' = [sock EXCEPT ![s].sock_fd = TRUE]
               /\ kern' = [kern EXCEPT ![s] = [NoDescriptor EXCEPT
                             !.conn = "syn", !.interest = TRUE, !.left = MaxPeerBytes]]
               /\ UNCHANGED <<list_net_evt, crush>>
            \/ /\ sock' = [sock EXCEPT ![s].state = "DELETE"]
               /\ PushEvt(p, Event("CONNECT_FAIL", s, 0))
               /\ UNCHANGED kern
  /\ UNCHANGED <<pool, io, main, cb, started>>

\* NET_REQUEST_TERMINATE: _epoll_tcp_socket_on_terminate for a close the main thread began.
IoReqTerminate(p) ==
  /\ TakeReq(p, "TERMINATE")
  /\ LET r == Head(list_net_req[p]) IN
       PushEvt(p, Event(IF r.error = "ok" THEN "TERMINATE" ELSE "MODULE_ERROR", r.sock, 0))
  /\ UNCHANGED <<sock, pool, io, main, kern, cb, started>>

\* _epoll_tcp_socket_on_close: the descriptor is gone before the acknowledgement shows.
IoReqClose(p) ==
  /\ TakeReq(p, "CLOSE_SOCKET")
  /\ LET s == Head(list_net_req[p]).sock IN
       /\ sock' = [sock EXCEPT ![s].sock_fd = FALSE, ![s].send_ack = @ + 1]
       /\ kern' = [kern EXCEPT ![s] = NoDescriptor]
  /\ UNCHANGED <<pool, list_net_evt, io, main, cb, started, crush>>

\* _epoll_tcp_listener_on_accept: a new connection is announced to the main thread.
IoListenerAccept(p) ==
  /\ IoAt(p, "idle")
  /\ started < MaxSessions
  /\ started' = started + 1
  /\ PushEvt(p, Event("ACCEPT", NoSock, 0))
  /\ UNCHANGED <<sock, pool, list_net_req, io, main, kern, cb>>

\* What the kernel reports for an edge-triggered descriptor when epoll_wait returns it.
ReadyMask(s) ==
  (IF kern[s].conn = "reset" THEN {"OUT", "IN", "ERR"} ELSE {})
  \cup (IF kern[s].conn = "up" /\ kern[s].tx < TxCap THEN {"OUT"} ELSE {})
  \cup (IF kern[s].conn = "up" /\ (kern[s].rx > 0 \/ kern[s].fin) THEN {"IN"} ELSE {})

\* _do_epoll_evt takes the next socket whose edge is pending.
IoEpollWait(p, s) ==
  /\ IoAt(p, "idle")
  /\ sock[s].proc = p /\ kern[s].interest /\ kern[s].ready
  /\ kern' = [kern EXCEPT ![s].ready = FALSE]
  /\ IF ReadyMask(s) = {} THEN UNCHANGED io
     ELSE Enter(p, "dispatch", "evt", s, ReadyMask(s))
  /\ UNCHANGED <<sock, pool, list_net_evt, list_net_req, main, cb, started, crush>>

\* EPOLLOUT on a connecting socket: _epoll_tcp_socket_on_connect reads SO_ERROR.
IoOnConnect(p) ==
  /\ IoAt(p, "dispatch") /\ "OUT" \in io[p].todo
  /\ LET s == io[p].sock IN
       /\ sock[s].state = "CONNECT"
       /\ IF kern[s].conn = "reset"
          THEN /\ sock' = [sock EXCEPT ![s].state = "DELETE"]
               /\ PushEvt(p, Event("CONNECT_FAIL", s, 0))
          ELSE /\ sock' = [sock EXCEPT ![s].state = "ESTABLISH"]
               /\ PushEvt(p, Event("ESTABLISH", s, 0))
       /\ IF io[p].todo = {"OUT"} THEN io' = [io EXCEPT ![p] = IoIdle]
          ELSE Enter(p, "dispatch", "evt", s, io[p].todo \ {"OUT"})
  /\ UNCHANGED <<pool, list_net_req, main, kern, cb, started>>

\* EPOLLOUT on any other socket: _epoll_tcp_socket_on_send.
IoOnWritable(p) ==
  /\ IoAt(p, "dispatch") /\ "OUT" \in io[p].todo
  /\ sock[io[p].sock].state # "CONNECT"
  /\ Enter(p, "send", "evt", io[p].sock, io[p].todo \ {"OUT"})
  /\ UNCHANGED <<sock, pool, list_net_evt, list_net_req, main, kern, cb, started, crush>>

\* EPOLLIN, taken after EPOLLOUT: _epoll_tcp_socket_on_recv.
IoOnReadable(p) ==
  /\ IoAt(p, "dispatch") /\ "OUT" \notin io[p].todo /\ "IN" \in io[p].todo
  /\ Enter(p, "recv", "evt", io[p].sock, io[p].todo \ {"IN"})
  /\ UNCHANGED <<sock, pool, list_net_evt, list_net_req, main, kern, cb, started, crush>>

-----------------------------------------------------------------------------
(* _epoll_tcp_socket_close called by the io thread.  The compare-and-swap  *)
(* decides against a close by the main thread; what follows it appends to  *)
(* the io thread's own queue.                                              *)

\* Mutant: the state is stored without a compare-and-swap.
IoClose_PlainStore(p, s, error) ==
  /\ sock' = [sock EXCEPT ![s].state = IF error = "system" THEN "DELETE" ELSE "TERMINATE"]
  /\ PushEvt(p, Event(IF error = "system" THEN "SYSTEM_ERROR" ELSE "TERMINATE", s, 0))

IoClose(p, s, error) ==
  IF sock[s].state = "ESTABLISH"
  THEN /\ sock' = [sock EXCEPT ![s].state = IF error = "system" THEN "DELETE" ELSE "TERMINATE"]
       /\ PushEvt(p, Event(IF error = "system" THEN "SYSTEM_ERROR" ELSE "TERMINATE", s, 0))
  ELSE UNCHANGED <<sock, list_net_evt, crush>>

\* EPOLLERR, taken last.
IoOnError(p) ==
  /\ IoAt(p, "dispatch") /\ io[p].todo = {"ERR"}
  /\ LET s == io[p].sock IN
       IF sock[s].state = "CONNECT"
       THEN /\ sock' = [sock EXCEPT ![s].state = "DELETE"]
            /\ PushEvt(p, Event("CONNECT_FAIL", s, 0))
       ELSE IoClose(p, s, "system")
  /\ io' = [io EXCEPT ![p] = IoIdle]
  /\ UNCHANGED <<pool, list_net_req, main, kern, cb, started>>

(* _epoll_tcp_socket_on_send *)

IoSendEnter(p) ==
  /\ IoAt(p, "send")
  /\ IF sock[io[p].sock].state \in {"ESTABLISH", "TERMINATE"}
     THEN GoTo(p, "send_loop") ELSE Finish(p)
  /\ UNCHANGED <<sock, pool, list_net_evt, list_net_req, main, kern, cb, started, crush>>

\* send() takes some of the bytes of the cache.
IoSendSome(p) ==
  /\ IoAt(p, "send_loop")
  /\ LET s == io[p].sock IN
       /\ kern[s].conn = "up"
       /\ \E n \in 1 .. TxCap :
            /\ n <= SendUsed(s) /\ n <= TxCap - kern[s].tx
            /\ sock' = [sock EXCEPT ![s].data_has_send = @ + n]
            /\ kern' = [kern EXCEPT ![s].tx = @ + n]
  /\ UNCHANGED <<pool, list_net_evt, list_net_req, io, main, cb, started, crush>>

\* EAGAIN: the kernel has no room, and will report the edge when it has.
IoSendAgain(p) ==
  /\ IoAt(p, "send_loop")
  /\ LET s == io[p].sock IN
       /\ SendUsed(s) > 0 /\ kern[s].conn = "up" /\ kern[s].tx = TxCap
       /\ sock' = [sock EXCEPT ![s].need_send_active = FALSE]
       /\ kern' = [kern EXCEPT ![s].nospace = TRUE]
  /\ Finish(p)
  /\ UNCHANGED <<pool, list_net_evt, list_net_req, main, cb, started, crush>>

IoSendError(p) ==
  /\ IoAt(p, "send_loop")
  /\ SendUsed(io[p].sock) > 0 /\ kern[io[p].sock].conn = "reset"
  /\ IoClose(p, io[p].sock, "system")
  /\ Finish(p)
  /\ UNCHANGED <<pool, list_net_req, main, kern, cb, started>>

\* The loop found the cache empty ...
IoSendDrained(p) ==
  /\ IoAt(p, "send_loop")
  /\ SendUsed(io[p].sock) = 0
  /\ GoTo(p, "send_done")
  /\ UNCHANGED <<sock, pool, list_net_evt, list_net_req, main, kern, cb, started, crush>>

\* ... and need_send_active is raised only after it, with nothing read in between.
IoSendDone(p) ==
  /\ IoAt(p, "send_done")
  /\ sock' = [sock EXCEPT ![io[p].sock].need_send_active = TRUE]
  /\ Finish(p)
  /\ UNCHANGED <<pool, list_net_evt, list_net_req, main, kern, cb, started, crush>>

(* _epoll_tcp_socket_on_recv *)

IoRecvEnter(p) ==
  /\ IoAt(p, "recv")
  /\ IF sock[io[p].sock].state = "ESTABLISH" /\ ~sock[io[p].sock].need_recv_active
     THEN GoTo(p, "recv_loop") ELSE Finish(p)
  /\ UNCHANGED <<sock, pool, list_net_evt, list_net_req, main, kern, cb, started, crush>>

\* recv() fills some of the free space of the cache.
IoRecvSome(p) ==
  /\ IoAt(p, "recv_loop")
  /\ LET s == io[p].sock IN
       \E n \in 1 .. kern[s].rx :
         /\ n <= RecvFree(s)
         /\ sock' = [sock EXCEPT ![s].recv_used = @ + n]
         /\ kern' = [kern EXCEPT ![s].rx = @ - n]
         /\ io' = [io EXCEPT ![p].got = @ + n]
  /\ UNCHANGED <<pool, list_net_evt, list_net_req, main, cb, started, crush>>

\* The loop ends: the cache is full, or recv() reports nothing, the end or an error.
IoRecvStop(p) ==
  /\ IoAt(p, "recv_loop")
  /\ LET s == io[p].sock IN
       \E why \in {"full", "again", "eof", "error"} :
         /\ why = "full" <=> RecvFree(s) = 0
         /\ why # "full" => kern[s].rx = 0
         /\ why = "error" => kern[s].conn = "reset"
         /\ why = "eof"   => kern[s].fin
         /\ why = "again" => kern[s].conn = "up" /\ ~kern[s].fin
         /\ io' = [io EXCEPT ![p].at = "recv_flush", ![p].why = why]
  /\ UNCHANGED <<sock, pool, list_net_evt, list_net_req, main, kern, cb, started, crush>>

\* Mutant: the event announces all the bytes in the cache, not the newly read ones.
IoRecvFlush_WholeCache(p) ==
  /\ IoAt(p, "recv_flush")
  /\ IF io[p].got > 0 /\ sock[io[p].sock].state = "ESTABLISH"
     THEN PushEvt(p, Event("DATA", io[p].sock, sock[io[p].sock].recv_used))
     ELSE UNCHANGED <<list_net_evt, crush>>
  /\ GoTo(p, "recv_end")
  /\ UNCHANGED <<sock, pool, list_net_req, main, kern, cb, started>>

\* _epoll_tcp_proc_push_evt_data: what was read is announced only in state ESTABLISH.
IoRecvFlush(p) ==
  /\ IoAt(p, "recv_flush")
  /\ IF io[p].got > 0 /\ sock[io[p].sock].state = "ESTABLISH"
     THEN PushEvt(p, Event("DATA", io[p].sock, io[p].got))
     ELSE UNCHANGED <<list_net_evt, crush>>
  /\ GoTo(p, "recv_end")
  /\ UNCHANGED <<sock, pool, list_net_req, main, kern, cb, started>>

IoRecvAgain(p) ==
  /\ IoAt(p, "recv_end") /\ io[p].why = "again"
  /\ Finish(p)
  /\ UNCHANGED <<sock, pool, list_net_evt, list_net_req, main, kern, cb, started, crush>>

\* Mutant: the main thread is not told that reading is suspended.
IoRecvFull_Silent(p) ==
  /\ IoAt(p, "recv_end") /\ io[p].why = "full"
  /\ sock' = [sock EXCEPT ![io[p].sock].need_recv_active = TRUE]
  /\ Finish(p)
  /\ UNCHANGED <<pool, list_net_evt, list_net_req, main, kern, cb, started, crush>>

IoRecvFull(p) ==
  /\ IoAt(p, "recv_end") /\ io[p].why = "full"
  /\ sock' = [sock EXCEPT ![io[p].sock].need_recv_active = TRUE]
  /\ PushEvt(p, Event("RECV_ACTIVATE", io[p].sock, 0))
  /\ Finish(p)
  /\ UNCHANGED <<pool, list_net_req, main, kern, cb, started>>

\* The peer has shut down: nothing more is flushed on the way to DELETE.
IoRecvEof(p) ==
  /\ IoAt(p, "recv_end") /\ io[p].why = "eof"
  /\ LET s == io[p].sock IN
       IF sock[s].state = "ESTABLISH"
       THEN /\ sock' = [sock EXCEPT ![s].try_close_send_count = MaxTry, ![s].state = "TERMINATE"]
            /\ PushEvt(p, Event("TERMINATE", s, 0))
       ELSE /\ sock' = [sock EXCEPT ![s].try_close_send_count = MaxTry]
            /\ UNCHANGED <<list_net_evt, crush>>
  /\ Finish(p)
  /\ UNCHANGED <<pool, list_net_req, main, kern, cb, started>>

IoRecvError(p) ==
  /\ IoAt(p, "recv_end") /\ io[p].why = "error"
  /\ IoClose(p, io[p].sock, "system")
  /\ Finish(p)
  /\ UNCHANGED <<pool, list_net_req, main, kern, cb, started>>

-----------------------------------------------------------------------------
(* The main thread *)

MainAt(label) == crush = "none" /\ main.at = label

MainGo(label, s) == main' = [at |-> label, sock |-> s]

TakeEvt(p, types) ==
  /\ MainAt("idle")
  /\ list_net_evt[p] # <<>>
  /\ Head(list_net_evt[p]).type \in types
  /\ list_net_evt' = [list_net_evt EXCEPT ![p] = Tail(@)]

\* _epoll_tcp_socket_close called by the main thread; f is the socket structure to start from.
MainClose(s, error, f) ==
  IF sock[s].state = "ESTABLISH"
  THEN /\ sock' = [f EXCEPT ![s].state = "TERMINATE"]
       /\ PushReq(sock[s].proc, Request("TERMINATE", s, error))
  ELSE sock' = f /\ UNCHANGED <<list_net_req, crush>>

\* _epoll_tcp_socket_mod_timer_close
ArmTimerClose(s) ==
  sock' = [sock EXCEPT ![s].timer_send = FALSE, ![s].timer_close = TRUE]

\* Mutant: the request goes to the listener's thread instead of the session's.
MainEvtAccept_ListenerProc(p) ==
  /\ TakeEvt(p, {"ACCEPT"})
  /\ \/ \E s \in pool, q \in Procs :
          /\ pool' = pool \ {s}
          /\ sock' = [sock EXCEPT ![s] = [ResetSocket(q) EXCEPT !.sock_fd = TRUE]]
          /\ kern' = [kern EXCEPT ![s] = [NoDescriptor EXCEPT !.conn = "up", !.left = MaxPeerBytes]]
          /\ PushReq(p, Request("ACCEPT", s, "none"))
     \/ /\ pool = {}
        /\ PushReq(p, Request("ACCEPT_FAIL", NoSock, "none"))
        /\ UNCHANGED <<sock, pool, kern>>
  /\ UNCHANGED <<io, main, cb, started>>

\* NET_EVENT_ACCEPT: a slot is taken from the pool for the new descriptor, if there is one.
MainEvtAccept(p) ==
  /\ TakeEvt(p, {"ACCEPT"})
  /\ \/ \E s \in pool, q \in Procs :
          /\ pool' = pool \ {s}
          /\ sock' = [sock EXCEPT ![s] = [ResetSocket(q) EXCEPT !.sock_fd = TRUE]]
          /\ kern' = [kern EXCEPT ![s] = [NoDescriptor EXCEPT !.conn = "up", !.left = MaxPeerBytes]]
          /\ PushReq(q, Request("ACCEPT", s, "none"))
     \/ /\ pool = {}
        /\ PushReq(p, Request("ACCEPT_FAIL", NoSock, "none"))
        /\ UNCHANGED <<sock, pool, kern>>
  /\ UNCHANGED <<io, main, cb, started>>

\* Mutant: the send timer is left to net_tcp_set_send_control.
MainEvtEstablish_NoTimer(p) ==
  /\ TakeEvt(p, {"ESTABLISH"})
  /\ cb' = [cb EXCEPT ![Head(list_net_evt[p]).sock] = "up"]
  /\ UNCHANGED <<sock, pool, list_net_req, io, main, kern, started, crush>>

\* NET_EVENT_ESTABLISH: the send timer is armed, then on_establish is called.
MainEvtEstablish(p) ==
  /\ TakeEvt(p, {"ESTABLISH"})
  /\ LET s == Head(list_net_evt[p]).sock IN
       /\ sock' = [sock EXCEPT ![s].timer_send = TRUE]
       /\ cb' = [cb EXCEPT ![s] = "up"]
  /\ UNCHANGED <<pool, list_net_req, io, main, kern, started, crush>>

\* Mutant: a packet may claim one byte more than there is (pkg_len > data_has_recv + 1).
MainEvtData_OneTooMany(p) ==
  /\ TakeEvt(p, {"DATA"})
  /\ LET s     == Head(list_net_evt[p]).sock
         total == sock[s].data_has_recv + Head(list_net_evt[p]).len
     IN \E parser_len \in 0 .. total + 1 :
          sock' = [sock EXCEPT ![s].data_has_recv = total - parser_len,
                               ![s].recv_used = @ - parser_len]
  /\ UNCHANGED <<pool, list_net_req, io, main, kern, cb, started, crush>>

\* NET_EVENT_DATA: the parser takes some whole packets, each handed to on_recv,
\* and may find one that claims more bytes than there are.
MainEvtData(p) ==
  /\ TakeEvt(p, {"DATA"})
  /\ LET s     == Head(list_net_evt[p]).sock
         total == sock[s].data_has_recv + Head(list_net_evt[p]).len
     IN IF total > sock[s].recv_used
        THEN crush' = "recv_cache_short" /\ UNCHANGED <<sock, list_net_req>>
        ELSE \E parser_len \in 0 .. total :
               LET f == [sock EXCEPT ![s].data_has_recv = total - parser_len,
                                     ![s].recv_used = @ - parser_len]
               IN \/ sock' = f /\ UNCHANGED <<list_net_req, crush>>
                  \/ parser_len < total /\ MainClose(s, "module", f)
  /\ UNCHANGED <<pool, io, main, kern, cb, started>>

\* NET_EVENT_RECV_ACTIVATE: reading resumes when the packets parsed so far left room.
MainEvtRecvActivate(p) ==
  /\ TakeEvt(p, {"RECV_ACTIVATE"})
  /\ LET s == Head(list_net_evt[p]).sock IN
       IF sock[s].state = "ESTABLISH" /\ RecvFree(s) > 0
       THEN /\ PushReq(p, Request("RECV_ACTIVATE", s, "none"))
            /\ UNCHANGED sock
       ELSE MainClose(s, "module", sock)
  /\ UNCHANGED <<pool, io, main, kern, cb, started>>

\* NET_EVENT_TERMINATE, _MODULE_ERROR, _SYSTEM_ERROR, _CONNECT_FAIL, _ACCEPT_FAIL: the
\* application hears the end of the session, except of an accept it never heard of.
MainEvtEnd(p) ==
  /\ TakeEvt(p, TerminalEvents)
  /\ LET e == Head(list_net_evt[p]) IN
       /\ cb' = IF e.type = "ACCEPT_FAIL" THEN cb ELSE [cb EXCEPT ![e.sock] = "down"]
       /\ ArmTimerClose(e.sock)
  /\ UNCHANGED <<pool, list_net_req, io, main, kern, started, crush>>

(* Requests for sending: net_tcp_send and the timers end in the same three *)
(* tests, each of a field the io thread writes.                            *)

\* Mutant: a request is made although one is still queued.
MainSendCheck_Always ==
  /\ MainAt("send_check")
  /\ MainGo("active_check", main.sock)
  /\ UNCHANGED <<sock, pool, list_net_evt, list_net_req, io, kern, cb, started, crush>>

\* send_req == send_ack
MainSendCheck ==
  /\ MainAt("send_check")
  /\ LET s == main.sock IN
       IF sock[s].send_req = sock[s].send_ack
       THEN MainGo("active_check", s) ELSE main' = MainIdle
  /\ UNCHANGED <<sock, pool, list_net_evt, list_net_req, io, kern, cb, started, crush>>

\* need_send_active, then _epoll_tcp_proc_push_req_send
MainActiveCheck ==
  /\ MainAt("active_check")
  /\ LET s == main.sock IN
       IF sock[s].need_send_active
       THEN /\ sock' = [sock EXCEPT ![s].send_req = @ + 1]
            /\ PushReq(sock[s].proc, Request("SEND", s, "none"))
       ELSE UNCHANGED <<sock, list_net_req, crush>>
  /\ main' = MainIdle
  /\ UNCHANGED <<pool, list_net_evt, io, kern, cb, started>>

\* _epoll_tcp_socket_on_timer_send
MainTimerSend(s) ==
  /\ MainAt("idle")
  /\ sock[s].timer_send
  /\ sock[s].state = "ESTABLISH"
  /\ sock[s].data_has_send # sock[s].data_need_send
  /\ MainGo("send_check", s)
  /\ UNCHANGED <<sock, pool, list_net_evt, list_net_req, io, kern, cb, started, crush>>

(* _epoll_tcp_socket_on_timer_close *)

TimerCloseDue(s, state) ==
  MainAt("idle") /\ sock[s].timer_close /\ sock[s].state = state

\* case TERMINATE: a bounded number of rounds for the bytes still in the cache
MainTimerCloseFlush(s) ==
  /\ TimerCloseDue(s, "TERMINATE")
  /\ sock[s].try_close_send_count < MaxTry
  /\ sock[s].data_has_send # sock[s].data_need_send
  /\ sock' = [sock EXCEPT ![s].try_close_send_count = @ + 1]
  /\ MainGo("send_check", s)
  /\ UNCHANGED <<pool, list_net_evt, list_net_req, io, kern, cb, started, crush>>

MainTimerCloseGiveUp(s) ==
  /\ TimerCloseDue(s, "TERMINATE")
  /\ \/ sock[s].try_close_send_count >= MaxTry
     \/ sock[s].data_has_send = sock[s].data_need_send
  /\ sock' = [sock EXCEPT ![s].state = "DELETE",
                ![s].try_close_send_count = IF @ < MaxTry THEN @ + 1 ELSE @]
  /\ UNCHANGED <<pool, list_net_evt, list_net_req, io, main, kern, cb, started, crush>>

\* case DELETE: ask the io thread to close, once ...
MainTimerCloseRequest(s) ==
  /\ TimerCloseDue(s, "DELETE")
  /\ sock[s].need_req_close
  /\ sock' = [sock EXCEPT ![s].need_req_close = FALSE, ![s].send_req = @ + 1]
  /\ PushReq(sock[s].proc, Request("CLOSE_SOCKET", s, "none"))
  /\ MainGo("close_check", s)
  /\ UNCHANGED <<pool, list_net_evt, io, kern, cb, started>>

\* Mutant: the slot is released although requests are queued.
Release_Unacknowledged(s) ==
  /\ sock' = [sock EXCEPT ![s].sock_fd = FALSE, ![s].timer_close = FALSE]
  /\ kern' = [kern EXCEPT ![s] = NoDescriptor]
  /\ pool' = pool \cup {s}
  /\ cb' = [cb EXCEPT ![s] = "idle"]

\* ... and release the slot when every request counted in send_req is acknowledged.
Release(s) ==
  /\ sock[s].send_req = sock[s].send_ack
  /\ sock' = [sock EXCEPT ![s].sock_fd = FALSE, ![s].timer_close = FALSE]
  /\ kern' = [kern EXCEPT ![s] = NoDescriptor]
  /\ pool' = pool \cup {s}
  /\ cb' = [cb EXCEPT ![s] = "idle"]

MainCloseCheck ==
  /\ MainAt("close_check")
  /\ \/ Release(main.sock)
     \/ sock[main.sock].send_req # sock[main.sock].send_ack /\ UNCHANGED <<sock, kern, pool, cb>>
  /\ main' = MainIdle
  /\ UNCHANGED <<list_net_evt, list_net_req, io, started, crush>>

\* In a later round; and in a state that is not closing, default: CRUSH_CODE.
MainTimerCloseRelease(s) ==
  /\ MainAt("idle") /\ sock[s].timer_close /\ sock[s].state # "TERMINATE"
  /\ IF sock[s].state # "DELETE"
     THEN crush' = "timer_close_state" /\ UNCHANGED <<sock, pool, kern, cb>>
     ELSE ~sock[s].need_req_close /\ Release(s) /\ UNCHANGED crush
  /\ UNCHANGED <<list_net_evt, list_net_req, io, main, started>>

-----------------------------------------------------------------------------
(* The application, on the main thread, while it may use the session: from *)
(* net_tcp_connect or on_establish until on_terminate or on_error.         *)

MayUse(s) == MainAt("idle") /\ cb[s] \in {"connecting", "up"}

\* net_tcp_connect
AppConnect ==
  /\ MainAt("idle")
  /\ started < MaxSessions
  /\ started' = started + 1
  /\ \E s \in pool, p \in Procs :
       /\ pool' = pool \ {s}
       /\ sock' = [sock EXCEPT ![s] = [ResetSocket(p) EXCEPT !.state = "CONNECT"]]
       /\ cb' = [cb EXCEPT ![s] = "connecting"]
       /\ PushReq(p, Request("CONNECT", s, "none"))
  /\ UNCHANGED <<list_net_evt, io, main, kern>>

\* net_tcp_send: a cache without room closes the session, otherwise the bytes are taken and
\* sent at once unless the send control holds them back.
AppSend(s) ==
  /\ MayUse(s)
  /\ sock[s].state = "ESTABLISH"
  /\ \E len \in 1 .. MaxAppBytes :
       /\ sock[s].data_need_send + len <= MaxAppBytes
       /\ IF len > SendFree(s)
          THEN MainClose(s, "module", sock) /\ UNCHANGED main
          ELSE /\ sock' = [sock EXCEPT ![s].data_need_send = @ + len]
               /\ IF SendUsed(s) + len < sock[s].data_delay_send_size
                  THEN UNCHANGED main ELSE MainGo("send_check", s)
               /\ UNCHANGED <<list_net_req, crush>>
  /\ UNCHANGED <<pool, list_net_evt, io, kern, cb, started>>

\* net_tcp_close_session
AppClose(s) ==
  /\ MayUse(s)
  /\ sock[s].state = "ESTABLISH"
  /\ MainClose(s, "ok", sock)
  /\ UNCHANGED <<pool, list_net_evt, io, main, kern, cb, started>>

\* net_tcp_set_send_control
AppSetSendControl(s) ==
  /\ MayUse(s)
  /\ \E size \in DelaySizes :
       sock' = [sock EXCEPT ![s].data_delay_send_size = size, ![s].timer_send = TRUE]
  /\ UNCHANGED <<pool, list_net_evt, list_net_req, io, main, kern, cb, started, crush>>

-----------------------------------------------------------------------------
(* The kernel and the peer *)

\* A change of readiness puts a registered descriptor on epoll's ready list.
Wake(s, k) == kern' = [kern EXCEPT ![s] = [k EXCEPT !.ready = kern[s].interest]]

KernOnly == UNCHANGED <<sock, pool, list_net_evt, list_net_req, io, main, cb, started, crush>>

KernConnected(s) ==
  /\ crush = "none" /\ kern[s].conn = "syn"
  /\ Wake(s, [kern[s] EXCEPT !.conn = "up"])
  /\ KernOnly

\* The connection is refused, or a connection that was up is reset.
KernReset(s) ==
  /\ crush = "none" /\ kern[s].conn \in {"syn", "up"}
  /\ Wake(s, [kern[s] EXCEPT !.conn = "reset"])
  /\ KernOnly

PeerSend(s) ==
  /\ crush = "none" /\ kern[s].conn = "up" /\ ~kern[s].fin /\ kern[s].left > 0
  /\ Wake(s, [kern[s] EXCEPT !.left = @ - 1, !.rx = @ + 1])
  /\ KernOnly

PeerFin(s) ==
  /\ crush = "none" /\ kern[s].conn = "up" /\ ~kern[s].fin
  /\ Wake(s, [kern[s] EXCEPT !.fin = TRUE])
  /\ KernOnly

\* The peer reads: room for sending, reported if a send has met a full buffer.
PeerRead(s) ==
  /\ crush = "none" /\ kern[s].conn = "up" /\ kern[s].tx > 0
  /\ kern' = [kern EXCEPT ![s].tx = 0, ![s].nospace = FALSE,
                ![s].ready = @ \/ (kern[s].nospace /\ kern[s].interest)]
  /\ KernOnly

-----------------------------------------------------------------------------
IoReq(p) ==
  \/ IoReqSend(p) \/ IoReqRecvActivate(p) \/ IoReqAccept(p) \/ IoReqAcceptFail(p)
  \/ IoReqConnect(p) \/ IoReqTerminate(p) \/ IoReqClose(p)

IoHandler(p) ==
  \/ IoOnConnect(p) \/ IoOnWritable(p) \/ IoOnReadable(p) \/ IoOnError(p)
  \/ IoSendEnter(p) \/ IoSendSome(p) \/ IoSendAgain(p) \/ IoSendError(p)
  \/ IoSendDrained(p) \/ IoSendDone(p)
  \/ IoRecvEnter(p) \/ IoRecvSome(p) \/ IoRecvStop(p) \/ IoRecvFlush(p)
  \/ IoRecvAgain(p) \/ IoRecvFull(p) \/ IoRecvEof(p) \/ IoRecvError(p)

Io(p) == IoReq(p) \/ IoHandler(p) \/ IoListenerAccept(p) \/ \E s \in Sockets : IoEpollWait(p, s)

MainEvt(p) ==
  \/ MainEvtAccept(p) \/ MainEvtEstablish(p) \/ MainEvtData(p)
  \/ MainEvtRecvActivate(p) \/ MainEvtEnd(p)

MainTimerClose(s) ==
  \/ MainTimerCloseFlush(s) \/ MainTimerCloseGiveUp(s)
  \/ MainTimerCloseRequest(s) \/ MainTimerCloseRelease(s)

MainContinue == MainSendCheck \/ MainActiveCheck \/ MainCloseCheck

App == AppConnect \/ \E s \in Sockets : AppSend(s) \/ AppClose(s) \/ AppSetSendControl(s)

Kernel(s) == KernConnected(s) \/ KernReset(s) \/ PeerSend(s) \/ PeerFin(s) \/ PeerRead(s)

Next ==
  \/ \E p \in Procs : Io(p) \/ MainEvt(p)
  \/ \E s \in Sockets : MainTimerSend(s) \/ MainTimerClose(s) \/ Kernel(s)
  \/ MainContinue
  \/ App

Spec == Init /\ [][Next]_vars

(***************************************************************************)
(* Fairness.  _epoll_tcp_net_proc_func alternates between _do_net_req and  *)
(* _do_epoll_evt for as long as it runs, and finishes every handler it     *)
(* enters.  net_tcp_run visits the procs in turn, and each visit fires the *)
(* timers that are due before it takes one event: the turns come round     *)
(* however the main thread is kept busy in between, hence SF.  The peer    *)
(* keeps reading; nobody has to send, close, connect or reset.             *)
(***************************************************************************)
Fairness ==
  /\ \A p \in Procs : WF_vars(IoReq(p)) /\ WF_vars(IoHandler(p)) /\ SF_vars(MainEvt(p))
  /\ \A p \in Procs, s \in Sockets : WF_vars(IoEpollWait(p, s))
  /\ \A s \in Sockets : SF_vars(MainTimerSend(s)) /\ SF_vars(MainTimerClose(s))
  /\ \A s \in Sockets : WF_vars(PeerRead(s))
  /\ WF_vars(MainContinue)

LiveSpec == Spec /\ Fairness

-----------------------------------------------------------------------------
(* Properties *)

SockType ==
  [state : SocketStates, proc : Procs \cup {NoProc}, sock_fd : BOOLEAN,
   timer_send : BOOLEAN, timer_close : BOOLEAN,
   send_req : Nat, send_ack : Nat,
   data_need_send : Nat, data_has_send : Nat, data_delay_send_size : Nat,
   try_close_send_count : Nat,
   need_send_active : BOOLEAN, need_req_close : BOOLEAN, need_recv_active : BOOLEAN,
   data_has_recv : Nat, recv_used : Nat]

EventType == [type : EventTypes, sock : Sockets \cup {NoSock}, len : Nat]
RequestType == [type : RequestTypes, sock : Sockets \cup {NoSock}, error : {"none", "ok", "module"}]

IoLabels == {"idle", "dispatch", "send", "send_loop", "send_done",
             "recv", "recv_loop", "recv_flush", "recv_end"}

IoType ==
  [at : IoLabels, from : {"none", "req", "evt"}, sock : Sockets \cup {NoSock},
   todo : SUBSET {"OUT", "IN", "ERR"}, got : Nat, why : {"none", "full", "again", "eof", "error"}]

KernType ==
  [conn : {"none", "syn", "up", "reset"}, interest : BOOLEAN, ready : BOOLEAN,
   rx : Nat, left : Nat, fin : BOOLEAN, tx : Nat, nospace : BOOLEAN]

\* The type invariant.
TypeOK ==
  /\ sock \in [Sockets -> SockType]
  /\ pool \in SUBSET Sockets
  /\ list_net_evt \in [Procs -> Seq(EventType)]
  /\ list_net_req \in [Procs -> Seq(RequestType)]
  /\ io \in [Procs -> IoType]
  /\ main \in [at : {"idle", "send_check", "active_check", "close_check"}, sock : Sockets \cup {NoSock}]
  /\ kern \in [Sockets -> KernType]
  /\ cb \in [Sockets -> {"idle", "connecting", "up", "down"}]
  /\ started \in Nat
  /\ crush \in {"none", "evt_full", "req_full", "recv_cache_short",
               "timer_close_state", "wrong_proc"}

\* The positions of a queue's entries for s whose type is among types.
Entries(q, s, types) == {i \in DOMAIN q : q[i].sock = s /\ q[i].type \in types}

EventsOf(s, types) == UNION {{<<p, i>> : i \in Entries(list_net_evt[p], s, types)} : p \in Procs}
RequestsOf(s, types) == UNION {{<<p, i>> : i \in Entries(list_net_req[p], s, types)} : p \in Procs}

\* A slot that is back in the pool is referred to by nothing: no event or request in a queue, no
\* handler of either thread, no timer, no epoll registration.  The code frees the slot on the
\* main thread while the io thread runs, with send_req = send_ack as its only evidence.
NoDanglingReference ==
  \A s \in pool :
    /\ EventsOf(s, EventTypes) = {} /\ RequestsOf(s, RequestTypes) = {}
    /\ \A p \in Procs : io[p].sock # s
    /\ main.sock # s
    /\ ~sock[s].timer_send /\ ~sock[s].timer_close
    /\ kern[s] = NoDescriptor

\* No CRUSH_CODE is reached: no queue overflows, DATA never announces bytes the receive cache
\* does not hold, and the close timer only finds a session that is closing.
NoCrush == crush = "none"

\* What _epoll_tcp_proc_push_evt_data asserts, and create_net_tcp sizes list_net_evt for with 16
\* events per socket: there is room for the event.
EventQueueHasRoom == crush # "evt_full"

\* The difference of the two counters is the number of SEND and CLOSE_SOCKET requests still
\* queued, which is what makes send_req = send_ack mean that the io thread is done; and a session
\* has only so many requests queued, however slow the io thread is, which is what
\* max_event_num >= 16 * max_socket_num in create_net_tcp counts on.
RequestsAccounted ==
  /\ \A s \in Sockets \ pool :
       sock[s].send_req - sock[s].send_ack = Cardinality(RequestsOf(s, {"SEND", "CLOSE_SOCKET"}))
  /\ \A s \in Sockets : Cardinality(RequestsOf(s, RequestTypes)) <= 4

\* While a session is established and reading is suspended, exactly one RECV_ACTIVATE event or
\* request travels between the threads: none lost (reading would never resume), none twice.
ActivationToken ==
  \A s \in Sockets \ pool :
    sock[s].state = "ESTABLISH" /\ sock[s].need_recv_active =>
      Cardinality(EventsOf(s, {"RECV_ACTIVATE"})) + Cardinality(RequestsOf(s, {"RECV_ACTIVATE"})) = 1

\* The bytes an io thread has read for s and not announced yet.
Pending(p, s) ==
  IF io[p].sock = s /\ io[p].at \in {"recv_loop", "recv_flush"} THEN io[p].got ELSE 0

\* The bytes the main thread knows of, the bytes announced in DATA events, and the bytes the io
\* thread is about to announce are together the contents of the receive cache.
RecvAccounted ==
  \A s \in Sockets \ pool :
    LET p == sock[s].proc IN
      sock[s].state = "ESTABLISH" =>
        sock[s].recv_used = sock[s].data_has_recv + Announced(list_net_evt[p], s) + Pending(p, s)

\* The terminal event of a session is its last: nothing of the session is queued behind it, and
\* nothing at all once it is handled and the close timer runs.  Data or an establishment behind
\* it would reach the application after on_terminate.
EndIsLast ==
  \A s \in Sockets \ pool, p \in Procs :
    /\ \A i \in Entries(list_net_evt[p], s, TerminalEvents) :
         \A j \in Entries(list_net_evt[p], s, EventTypes) : j <= i
    /\ sock[s].timer_close => Entries(list_net_evt[p], s, EventTypes) = {}

\* What holds in every state of the sessions: no CRUSH_CODE, no slot freed too early, no request
\* lost or piled up, nothing behind a session's end.
SessionsSafe == NoCrush /\ NoDanglingReference /\ RequestsAccounted /\ EndIsLast

\* And of their receiving: every byte announced once, and reading never suspended for good.
ReceivingSafe == RecvAccounted /\ ActivationToken

\* What the application is promised: SessionCallbacks, for every slot.
Callbacks == INSTANCE SessionCallbacks WITH Sessions <- Sockets, seen <- cb
CallbackOrder == Callbacks!Spec

\* Every session that has ended gives its slot back.
SlotsReturn == \A s \in Sockets :
  (s \notin pool /\ sock[s].state \in {"TERMINATE", "DELETE"}) ~> (s \in pool)

\* Bytes accepted by net_tcp_send are passed to the kernel, or the session ends: no wake-up is
\* lost between need_send_active, send_req = send_ack, EPOLLOUT and the send timer.
AcceptedBytesSent == \A s \in Sockets :
  (s \notin pool /\ sock[s].state = "ESTABLISH" /\ SendUsed(s) > 0)
    ~> (SendUsed(s) = 0 \/ sock[s].state # "ESTABLISH")

\* A hang-up or a reset is noticed even while reading is suspended.
HangupNoticed == \A s \in Sockets :
  (s \notin pool /\ sock[s].state = "ESTABLISH" /\ (kern[s].fin \/ kern[s].conn = "reset"))
    ~> (sock[s].state # "ESTABLISH")

\* Bytes that arrive are read into the cache, or the session ends.
ArrivedBytesRead == \A s \in Sockets :
  (s \notin pool /\ sock[s].state = "ESTABLISH" /\ kern[s].rx > 0)
    ~> (kern[s].rx = 0 \/ sock[s].state # "ESTABLISH")
=============================================================================
