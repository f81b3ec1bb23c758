------------------------------ MODULE EpollTls ------------------------------
(***************************************************************************)
(* The TLS sessions of src/epoll_tcp.c: one session, accepted or opened,   *)
(* from its first request to the release of its slot.  EpollTcp has the    *)
(* pool, several sessions and the bounded queues; here are the buffers TLS *)
(* puts between the socket and the caches, and the second establishment.   *)
(*                                                                         *)
(*   send_loop_cache -> SSL_write -> BIO_SEND -> ssl_send_buf -> socket    *)
(*   socket -> ssl_recv_buf -> BIO_RECV -> SSL_read -> recv_loop_cache     *)
(*                                                                         *)
(* OpenSSL is external: a handshake of three flights (the client's hello,  *)
(* the server's answer, the client's last), after which the server writes  *)
(* a ticket.  A record is a flight, one byte of data, or a bad record.     *)
(* An action is a stretch of one thread's code with at most one access     *)
(* that the other thread can observe in between, as in EpollTcp.           *)
(***************************************************************************)
EXTENDS Integers, Sequences, SequencesExt

CONSTANTS
  TlsSendCap,   \* usable bytes of send_loop_cache
  TlsRecvCap,   \* usable bytes of recv_loop_cache
  TlsBufCap,    \* records ssl_send_buf holds
  TlsTxCap,     \* records the kernel buffers for sending
  TlsMaxTry,    \* MAX_TRY_CLOSE_SEND
  TlsAppBytes,  \* bound: bytes the application sends
  TlsPeerBytes  \* bound: bytes of data the peer sends

VARIABLES
  sock,  \* the epoll_tcp_socket and its epoll_ssl_data
  ssl,   \* the SSL object: its handshake and its two BIOs
  evts,  \* list_net_evt
  reqs,  \* list_net_req
  io,    \* where the io thread is
  main,  \* where the main thread is
  kern,  \* the kernel's side of the descriptor
  peer,  \* the far end
  cb     \* history: the callbacks the application has seen

vars == <<sock, ssl, evts, reqs, io, main, kern, peer, cb>>

Terminal == {"SYSTEM_ERROR", "MODULE_ERROR", "SSL_ERROR", "TERMINATE", "CONNECT_FAIL", "ACCEPT_FAIL"}
Event(t, n) == [type |-> t, len |-> n]

IoIdle == [at |-> "idle", todo |-> {}, got |-> 0, why |-> "none", again |-> FALSE, nested |-> FALSE]

\* epoll_ssl_data before its SSL object is made.
NoSsl == [alive |-> FALSE, started |-> FALSE, done |-> FALSE, recv |-> <<>>, send |-> <<>>]

\* net_ssl_connect has queued SSL_CONNECT, or NET_EVENT_ACCEPT has queued ACCEPT.
Init ==
  \E client \in BOOLEAN :
    /\ sock = [client |-> client, state |-> IF client THEN "CONNECT" ELSE "NONE",
               held |-> TRUE, fd |-> ~client, timer_send |-> FALSE, timer_close |-> FALSE,
               send_req |-> 0, send_ack |-> 0, data_need_send |-> 0, data_has_send |-> 0,
               try |-> 0, need_send_active |-> TRUE, need_recv_active |-> FALSE,
               need_req_close |-> TRUE, data_has_recv |-> 0, recv_used |-> 0,
               ssl_state |-> "none", send_buf |-> <<>>]
    /\ ssl = NoSsl
    /\ evts = <<>>
    /\ reqs = <<[type |-> IF client THEN "SSL_CONNECT" ELSE "ACCEPT", error |-> "none"]>>
    /\ io = IoIdle
    /\ main = "idle"
    /\ kern = [conn |-> IF client THEN "none" ELSE "up", interest |-> FALSE, ready |-> FALSE,
               rx |-> <<>>, fin |-> FALSE, tx |-> <<>>, nospace |-> FALSE]
    /\ peer = [flights |-> 0, sent |-> 0, left |-> TlsPeerBytes]
    /\ cb = [seen |-> IF client THEN "connecting" ELSE "idle", wrong |-> "none", broken |-> FALSE]

SendUsed == sock.data_need_send - sock.data_has_send
RecvFree == TlsRecvCap - sock.recv_used

-----------------------------------------------------------------------------
(* OpenSSL, as the code uses it *)

\* init_server_ssl_data and init_client_ssl_data, and uninit_ssl_data, which frees the BIOs with it.
SslMade == [NoSsl EXCEPT !.alive = TRUE]
SslFreed == [ssl EXCEPT !.alive = FALSE, !.recv = <<>>, !.send = <<>>]

\* A call that may go on with the handshake: the client's hello, then the answer to each flight.
Handshake(e) ==
  LET hello == e.alive /\ sock.client /\ ~e.started
      h == IF hello THEN [e EXCEPT !.started = TRUE, !.send = Append(@, "hs")] ELSE e IN
  IF h.recv = <<>> \/ Head(h.recv) # "hs" THEN h
  ELSE [h EXCEPT !.recv = Tail(@), !.send = Append(@, "hs"), !.started = TRUE,
                 !.done = sock.client \/ h.started]

\* SSL_read: what the object is left as, and whether it gave a byte, failed, or wants more.
SslRead ==
  LET h == Handshake(ssl)
      first == IF h.recv = <<>> THEN "none" ELSE Head(h.recv) IN
  CASE first = "data" /\ h.done -> [e |-> [h EXCEPT !.recv = Tail(@)], got |-> "data"]
    [] first = "bad"            -> [e |-> h, got |-> "error"]
    [] OTHER                    -> [e |-> h, got |-> "want"]

\* is_ssl_error: wanting more is none.
IsSslError(got) == got \notin {"data", "want"}

-----------------------------------------------------------------------------
(* The io thread *)

PushEvt(t, n) == evts' = Append(evts, Event(t, n))

GoTo(label) == io' = [io EXCEPT !.at = label]
Enter(label, todo) == io' = [IoIdle EXCEPT !.at = label, !.todo = todo]

\* The handler returns: from the send inside a receive, to the rest of the epoll event, or to the loop.
Finish ==
  IF io.nested THEN io' = [io EXCEPT !.at = "recv_flushed", !.nested = FALSE]
  ELSE IF io.todo = {} THEN io' = IoIdle ELSE Enter("dispatch", io.todo)

\* _epoll_tcp_socket_on_ssl_recv returns at once unless the session is open and reading not suspended.
EnterRecv(todo, open) ==
  IF open THEN io' = [IoIdle EXCEPT !.at = "recv_loop", !.todo = todo, !.again = TRUE]
  ELSE IF todo = {} THEN io' = IoIdle ELSE Enter("dispatch", todo)

\* _epoll_tcp_socket_close on the io thread, f being what the handler has changed before it.
IoClose(error, f) ==
  IF sock.state = "ESTABLISH"
  THEN /\ sock' = [f EXCEPT !.state = IF error = "ok" THEN "TERMINATE" ELSE "DELETE"]
       /\ PushEvt(CASE error = "ok" -> "TERMINATE" [] error = "ssl" -> "SSL_ERROR"
                    [] OTHER -> "SYSTEM_ERROR", 0)
  ELSE sock' = f /\ UNCHANGED evts

TakeReq(type) == io.at = "idle" /\ reqs # <<>> /\ Head(reqs).type = type /\ reqs' = Tail(reqs)

\* _epoll_tcp_socket_on_accept: the session is established before its TLS object is made.
IoReqAccept ==
  /\ TakeReq("ACCEPT")
  /\ \/ /\ sock' = [sock EXCEPT !.state = "ESTABLISH"]
        /\ ssl' = SslMade
        /\ kern' = [kern EXCEPT !.interest = TRUE, !.ready = TRUE]
        /\ PushEvt("ESTABLISH", 0)
     \/ /\ \E added \in BOOLEAN :
             /\ sock' = [sock EXCEPT !.state = "DELETE", !.fd = added]
             /\ kern' = IF added THEN [kern EXCEPT !.interest = TRUE, !.ready = TRUE]
                        ELSE [kern EXCEPT !.conn = "closed"]
        /\ PushEvt("ACCEPT_FAIL", 0) /\ UNCHANGED ssl
  /\ UNCHANGED <<io, main, peer, cb>>

\* _epoll_tcp_socket_on_ssl_connect_req: the object first, then the connection.
IoReqSslConnect ==
  /\ TakeReq("SSL_CONNECT")
  /\ \/ /\ sock' = [sock EXCEPT !.state = "DELETE"]
        /\ PushEvt("CONNECT_FAIL", 0)
        /\ UNCHANGED <<ssl, kern>>
     \/ /\ ssl' = SslMade
        /\ sock' = [sock EXCEPT !.fd = TRUE]
        /\ kern' = [kern EXCEPT !.conn = "syn", !.interest = TRUE]
        /\ UNCHANGED evts
  /\ UNCHANGED <<io, main, peer, cb>>

IoReqSend ==
  /\ TakeReq("SEND")
  /\ sock' = [sock EXCEPT !.send_ack = @ + 1]
  /\ Enter("send", {})
  /\ UNCHANGED <<ssl, evts, main, kern, peer, cb>>

IoReqRecvActivate ==
  /\ TakeReq("RECV_ACTIVATE")
  /\ sock' = [sock EXCEPT !.need_recv_active = FALSE]
  /\ EnterRecv({}, sock.state = "ESTABLISH")
  /\ UNCHANGED <<ssl, evts, main, kern, peer, cb>>

IoReqTerminate ==
  /\ TakeReq("TERMINATE")
  /\ PushEvt(IF Head(reqs).error = "ok" THEN "TERMINATE" ELSE "MODULE_ERROR", 0)
  /\ UNCHANGED <<sock, ssl, io, main, kern, peer, cb>>

\* _epoll_tcp_socket_on_close, with uninit_ssl_data.
IoReqClose ==
  /\ TakeReq("CLOSE_SOCKET")
  /\ ssl' = SslFreed
  /\ sock' = [sock EXCEPT !.fd = FALSE, !.send_ack = @ + 1]
  /\ kern' = [kern EXCEPT !.conn = "closed", !.interest = FALSE, !.ready = FALSE, !.rx = <<>>, !.tx = <<>>]
  /\ UNCHANGED <<evts, io, main, peer, cb>>

ReadyMask ==
  (IF kern.conn = "reset" THEN {"OUT", "IN", "ERR"} ELSE {})
  \cup (IF kern.conn = "up" /\ Len(kern.tx) < TlsTxCap THEN {"OUT"} ELSE {})
  \cup (IF kern.conn = "up" /\ (kern.rx # <<>> \/ kern.fin) THEN {"IN"} ELSE {})

IoEpollWait ==
  /\ io.at = "idle" /\ kern.interest /\ kern.ready
  /\ kern' = [kern EXCEPT !.ready = FALSE]
  /\ IF ReadyMask = {} THEN UNCHANGED io ELSE Enter("dispatch", ReadyMask)
  /\ UNCHANGED <<sock, ssl, evts, reqs, main, peer, cb>>

\* Mutant: nobody begins the handshake of a connection that was opened.
IoOnConnect_Waits ==
  /\ io.at = "dispatch" /\ "OUT" \in io.todo /\ sock.state = "CONNECT"
  /\ IF kern.conn = "reset"
     THEN sock' = [sock EXCEPT !.state = "DELETE"] /\ PushEvt("CONNECT_FAIL", 0)
     ELSE sock' = [sock EXCEPT !.state = "ESTABLISH"] /\ PushEvt("ESTABLISH", 0)
  /\ io' = IF io.todo = {"OUT"} THEN IoIdle ELSE [IoIdle EXCEPT !.at = "dispatch", !.todo = io.todo \ {"OUT"}]
  /\ UNCHANGED <<ssl, reqs, main, kern, peer, cb>>

\* _epoll_tcp_socket_on_connect: reading begins at once, and with it the handshake.
IoOnConnect ==
  /\ io.at = "dispatch" /\ "OUT" \in io.todo /\ sock.state = "CONNECT"
  /\ IF kern.conn = "reset"
     THEN /\ sock' = [sock EXCEPT !.state = "DELETE"]
          /\ PushEvt("CONNECT_FAIL", 0)
          /\ io' = IF io.todo = {"OUT"} THEN IoIdle
                   ELSE [IoIdle EXCEPT !.at = "dispatch", !.todo = io.todo \ {"OUT"}]
     ELSE /\ sock' = [sock EXCEPT !.state = "ESTABLISH"]
          /\ PushEvt("ESTABLISH", 0)
          /\ EnterRecv(io.todo \ {"OUT"}, TRUE)
  /\ UNCHANGED <<ssl, reqs, main, kern, peer, cb>>

IoOnWritable ==
  /\ io.at = "dispatch" /\ "OUT" \in io.todo /\ sock.state # "CONNECT"
  /\ Enter("send", io.todo \ {"OUT"})
  /\ UNCHANGED <<sock, ssl, evts, reqs, main, kern, peer, cb>>

IoOnReadable ==
  /\ io.at = "dispatch" /\ "OUT" \notin io.todo /\ "IN" \in io.todo
  /\ EnterRecv(io.todo \ {"IN"}, sock.state = "ESTABLISH" /\ ~sock.need_recv_active)
  /\ UNCHANGED <<sock, ssl, evts, reqs, main, kern, peer, cb>>

IoOnError ==
  /\ io.at = "dispatch" /\ io.todo = {"ERR"}
  /\ IF sock.state = "CONNECT"
     THEN sock' = [sock EXCEPT !.state = "DELETE"] /\ PushEvt("CONNECT_FAIL", 0)
     ELSE IoClose("system", sock)
  /\ io' = IoIdle
  /\ UNCHANGED <<ssl, reqs, main, kern, peer, cb>>

(* _epoll_tcp_socket_on_ssl_send *)

IoSendEnter ==
  /\ io.at = "send"
  /\ IF sock.state \in {"ESTABLISH", "TERMINATE"} THEN GoTo("write") ELSE Finish
  /\ UNCHANGED <<sock, ssl, evts, reqs, main, kern, peer, cb>>

\* SSL_write takes all of a piece; before the handshake is done it only goes on with that.
IoSslWrite ==
  /\ io.at = "write" /\ SendUsed > 0
  /\ IF ssl.done
     THEN /\ ssl' = [ssl EXCEPT !.send = @ \o [i \in 1 .. SendUsed |-> "data"]]
          /\ sock' = [sock EXCEPT !.data_has_send = @ + SendUsed]
          /\ UNCHANGED io
     ELSE /\ ssl' = Handshake(ssl)
          /\ sock' = [sock EXCEPT !.need_send_active = TRUE]
          /\ GoTo("flush")
  /\ UNCHANGED <<evts, reqs, main, kern, peer, cb>>

IoWriteDrained ==
  /\ io.at = "write" /\ SendUsed = 0
  /\ GoTo("written")
  /\ UNCHANGED <<sock, ssl, evts, reqs, main, kern, peer, cb>>

IoSendActive ==
  /\ io.at = "written"
  /\ sock' = [sock EXCEPT !.need_send_active = TRUE]
  /\ GoTo("flush")
  /\ UNCHANGED <<ssl, evts, reqs, main, kern, peer, cb>>

\* BIO_read moves what fits into ssl_send_buf.
Moved ==
  LET room == TlsBufCap - Len(sock.send_buf)
      n == IF Len(ssl.send) < room THEN Len(ssl.send) ELSE room IN
  [buf |-> sock.send_buf \o SubSeq(ssl.send, 1, n), rest |-> SubSeq(ssl.send, n + 1, Len(ssl.send))]

\* One turn of the second loop: a piece of the buffer goes to the socket.
IoFlushSome ==
  /\ io.at = "flush" /\ Moved.buf # <<>> /\ kern.conn = "up"
  /\ \E n \in 1 .. Len(Moved.buf) :
       /\ n <= TlsTxCap - Len(kern.tx)
       /\ ssl' = [ssl EXCEPT !.send = Moved.rest]
       /\ sock' = [sock EXCEPT !.send_buf = SubSeq(Moved.buf, n + 1, Len(Moved.buf))]
       /\ kern' = [kern EXCEPT !.tx = @ \o SubSeq(Moved.buf, 1, n)]
       /\ IF n = Len(Moved.buf) /\ Moved.rest = <<>> THEN Finish ELSE UNCHANGED io
  /\ UNCHANGED <<evts, reqs, main, peer, cb>>

\* EAGAIN: the kernel reports the edge when it has room.
IoFlushAgain ==
  /\ io.at = "flush" /\ Moved.buf # <<>> /\ kern.conn = "up" /\ Len(kern.tx) = TlsTxCap
  /\ ssl' = [ssl EXCEPT !.send = Moved.rest]
  /\ sock' = [sock EXCEPT !.send_buf = Moved.buf, !.need_send_active = FALSE]
  /\ kern' = [kern EXCEPT !.nospace = TRUE]
  /\ Finish
  /\ UNCHANGED <<evts, reqs, main, peer, cb>>

\* broken: the answer to the last flight could not be sent.
IoFlushError ==
  /\ io.at = "flush" /\ Moved.buf # <<>> /\ kern.conn = "reset"
  /\ ssl' = [ssl EXCEPT !.send = Moved.rest]
  /\ IoClose("system", [sock EXCEPT !.send_buf = Moved.buf])
  /\ cb' = [cb EXCEPT !.broken = @ \/ io.nested]
  /\ Finish
  /\ UNCHANGED <<reqs, main, kern, peer>>

IoFlushed ==
  /\ io.at = "flush" /\ Moved.buf = <<>>
  /\ Finish
  /\ UNCHANGED <<sock, ssl, evts, reqs, main, kern, peer, cb>>

(* _epoll_tcp_socket_on_ssl_recv *)

\* recv() and BIO_write; BIO_RECV grows as it must.
IoRecvSome ==
  /\ io.at = "recv_loop" /\ kern.rx # <<>>
  /\ ssl' = [ssl EXCEPT !.recv = @ \o kern.rx]
  /\ kern' = [kern EXCEPT !.rx = <<>>]
  /\ UNCHANGED <<sock, evts, reqs, io, main, peer, cb>>

\* The loop ends: nothing more for now, an error, or the end of the stream.
IoRecvStop ==
  /\ io.at = "recv_loop" /\ kern.rx = <<>>
  /\ \/ kern.conn = "up" /\ ~kern.fin /\ io' = [io EXCEPT !.at = "read", !.again = FALSE] /\ UNCHANGED sock
     \/ kern.conn = "reset" /\ io' = [io EXCEPT !.at = "read", !.why = "system"] /\ UNCHANGED sock
     \/ /\ kern.conn = "up" /\ kern.fin
        /\ io' = [io EXCEPT !.at = "read", !.why = "ok"]
        /\ sock' = [sock EXCEPT !.try = TlsMaxTry]
  /\ UNCHANGED <<ssl, evts, reqs, main, kern, peer, cb>>

\* The second loop: get_free and SSL_read, as long as there is room and data.
IoSslRead ==
  /\ io.at = "read" /\ RecvFree > 0
  /\ ssl' = SslRead.e
  /\ CASE IsSslError(SslRead.got) -> io' = [io EXCEPT !.at = "decide", !.why = "ssl"] /\ UNCHANGED sock
       [] SslRead.got = "data" -> /\ sock' = [sock EXCEPT !.recv_used = @ + 1]
                                  /\ io' = [io EXCEPT !.got = @ + 1]
       [] OTHER -> GoTo("decide") /\ UNCHANGED sock
  /\ UNCHANGED <<evts, reqs, main, kern, peer, cb>>

\* No room: SSL_read is not called, and reading is to be resumed.
IoReadFull ==
  /\ io.at = "read" /\ RecvFree = 0
  /\ io' = [io EXCEPT !.at = "decide", !.again = TRUE]
  /\ UNCHANGED <<sock, ssl, evts, reqs, main, kern, peer, cb>>

\* An error or the end of the stream closes the session, and what this pass has put into the
\* receive cache is never announced.
IoRecvClose ==
  /\ io.at = "decide" /\ io.why # "none"
  /\ IoClose(io.why, sock)
  /\ Finish
  /\ UNCHANGED <<ssl, reqs, main, kern, peer, cb>>

\* After the handshake the data is announced; during it what the handshake wrote is sent first.
IoRecvData ==
  /\ io.at = "decide" /\ io.why = "none"
  /\ IF sock.ssl_state = "HAND_SHAKE"
     THEN /\ IF io.got > 0 THEN PushEvt("DATA", io.got) ELSE UNCHANGED evts
          /\ io' = [io EXCEPT !.at = "recv_end", !.got = 0]
     ELSE io' = [io EXCEPT !.at = "send", !.nested = TRUE] /\ UNCHANGED evts
  /\ UNCHANGED <<sock, ssl, reqs, main, kern, peer, cb>>

\* SSL_is_init_finished, asked whether or not the sending failed: the second establishment.
IoRecvFlushed ==
  /\ io.at = "recv_flushed"
  /\ IF ssl.done
     THEN /\ sock' = [sock EXCEPT !.ssl_state = "HAND_SHAKE"]
          /\ evts' = evts \o <<Event("SSL_ESTABLISH", 0)>>
                          \o (IF io.got > 0 THEN <<Event("DATA", io.got)>> ELSE <<>>)
     ELSE UNCHANGED <<sock, evts>>
  /\ io' = [io EXCEPT !.at = "recv_end", !.got = 0]
  /\ UNCHANGED <<ssl, reqs, main, kern, peer, cb>>

\* A full cache suspends reading until the main thread has made room.
IoRecvEnd ==
  /\ io.at = "recv_end"
  /\ IF io.again
     THEN /\ sock' = [sock EXCEPT !.need_recv_active = TRUE]
          /\ PushEvt("RECV_ACTIVATE", 0)
     ELSE UNCHANGED <<sock, evts>>
  /\ Finish
  /\ UNCHANGED <<ssl, reqs, main, kern, peer, cb>>

-----------------------------------------------------------------------------
(* The main thread: _do_net_evt, the timers, the application *)

PushReq(t, e) == reqs' = Append(reqs, [type |-> t, error |-> e])

TakeEvt(types) == main = "idle" /\ evts # <<>> /\ Head(evts).type \in types /\ evts' = Tail(evts)

MainClose(error, f) ==
  IF sock.state = "ESTABLISH"
  THEN sock' = [f EXCEPT !.state = "TERMINATE"] /\ PushReq("TERMINATE", error)
  ELSE sock' = f /\ UNCHANGED reqs

\* A callback the application must not get at this moment is remembered.
Call(from, to, what) ==
  cb' = IF cb.seen \in from THEN [cb EXCEPT !.seen = to] ELSE [cb EXCEPT !.seen = to, !.wrong = what]

\* NET_EVENT_ESTABLISH: only the send timer is armed.
MainEstablish ==
  /\ TakeEvt({"ESTABLISH"})
  /\ sock' = [sock EXCEPT !.timer_send = TRUE]
  /\ UNCHANGED <<ssl, reqs, io, main, kern, peer, cb>>

\* NET_EVENT_SSL_ESTABLISH: on_establish; a session without TLS data is a CRUSH_CODE.
MainSslEstablish ==
  /\ TakeEvt({"SSL_ESTABLISH"})
  /\ IF sock.held THEN Call({"idle", "connecting"}, "up", "establish")
     ELSE cb' = [cb EXCEPT !.wrong = "crush"]
  /\ UNCHANGED <<sock, ssl, reqs, io, main, kern, peer>>

\* NET_EVENT_DATA: on_recv for whole packets, and the rest stays.
MainData ==
  /\ TakeEvt({"DATA"})
  /\ LET total == sock.data_has_recv + Head(evts).len IN
       \E parsed \in 0 .. total :
         LET f == [sock EXCEPT !.data_has_recv = total - parsed, !.recv_used = @ - parsed] IN
         /\ cb' = IF total > sock.recv_used THEN [cb EXCEPT !.wrong = "crush"]
                  ELSE IF parsed > 0 /\ cb.seen # "up" THEN [cb EXCEPT !.wrong = "data"] ELSE cb
         /\ \/ sock' = f /\ UNCHANGED reqs
            \/ parsed < total /\ MainClose("packet", f)
  /\ UNCHANGED <<ssl, io, main, kern, peer>>

MainRecvActivate ==
  /\ TakeEvt({"RECV_ACTIVATE"})
  /\ IF sock.state = "ESTABLISH" /\ RecvFree > 0
     THEN PushReq("RECV_ACTIVATE", "none") /\ UNCHANGED sock
     ELSE MainClose("recv_overflow", sock)
  /\ UNCHANGED <<ssl, io, main, kern, peer, cb>>

\* Mutant: the application hears of the end of a session it never heard of.
MainEnd_Always ==
  /\ TakeEvt(Terminal)
  /\ Call({"connecting", "up"}, "down", "terminate")
  /\ sock' = [sock EXCEPT !.timer_send = FALSE, !.timer_close = TRUE]
  /\ UNCHANGED <<ssl, reqs, io, main, kern, peer>>

\* The terminal events: a session whose handshake is not done ends without a word.
MainEnd ==
  /\ TakeEvt(Terminal)
  /\ CASE Head(evts).type = "CONNECT_FAIL" -> Call({"connecting"}, "down", "connect_fail")
       [] Head(evts).type # "CONNECT_FAIL" /\ Head(evts).type # "ACCEPT_FAIL"
          /\ sock.ssl_state = "HAND_SHAKE" -> Call({"up"}, "down", "terminate")
       [] OTHER -> UNCHANGED cb
  /\ sock' = [sock EXCEPT !.timer_send = FALSE, !.timer_close = TRUE]
  /\ UNCHANGED <<ssl, reqs, io, main, kern, peer>>

\* send_req == send_ack and need_send_active, one after the other.
MainSendCheck ==
  /\ main = "send_check"
  /\ main' = IF sock.send_req = sock.send_ack THEN "active_check" ELSE "idle"
  /\ UNCHANGED <<sock, ssl, evts, reqs, io, kern, peer, cb>>

MainActiveCheck ==
  /\ main = "active_check"
  /\ main' = "idle"
  /\ IF sock.need_send_active
     THEN sock' = [sock EXCEPT !.send_req = @ + 1] /\ PushReq("SEND", "none")
     ELSE UNCHANGED <<sock, reqs>>
  /\ UNCHANGED <<ssl, evts, io, kern, peer, cb>>

MainTimerSend ==
  /\ main = "idle" /\ sock.timer_send /\ sock.state = "ESTABLISH" /\ SendUsed > 0
  /\ main' = "send_check"
  /\ UNCHANGED <<sock, ssl, evts, reqs, io, kern, peer, cb>>

\* _epoll_tcp_socket_on_timer_close, case TERMINATE.
MainTimerTerminate ==
  /\ main = "idle" /\ sock.timer_close /\ sock.state = "TERMINATE"
  /\ IF sock.try < TlsMaxTry /\ SendUsed > 0
     THEN sock' = [sock EXCEPT !.try = @ + 1] /\ main' = "send_check"
     ELSE /\ sock' = [sock EXCEPT !.state = "DELETE", !.try = IF @ < TlsMaxTry THEN @ + 1 ELSE @]
          /\ UNCHANGED main
  /\ UNCHANGED <<ssl, evts, reqs, io, kern, peer, cb>>

\* Case DELETE: one request to close, then the slot when it is acknowledged and the object gone.
MainTimerDelete ==
  /\ main = "idle" /\ sock.timer_close /\ sock.state = "DELETE"
  /\ IF sock.need_req_close
     THEN /\ sock' = [sock EXCEPT !.need_req_close = FALSE, !.send_req = @ + 1]
          /\ PushReq("CLOSE_SOCKET", "none")
     ELSE /\ sock.send_req = sock.send_ack /\ ~ssl.alive
          /\ sock' = [sock EXCEPT !.held = FALSE, !.fd = FALSE, !.timer_close = FALSE]
          /\ UNCHANGED reqs
  /\ UNCHANGED <<ssl, evts, io, main, kern, peer, cb>>

\* net_tcp_send and net_tcp_close_session, between on_establish and on_terminate.
AppSend ==
  /\ main = "idle" /\ cb.seen = "up" /\ sock.state = "ESTABLISH" /\ sock.held
  /\ sock.data_need_send < TlsAppBytes
  /\ IF SendUsed = TlsSendCap
     THEN MainClose("send_overflow", sock) /\ UNCHANGED main
     ELSE /\ sock' = [sock EXCEPT !.data_need_send = @ + 1]
          /\ main' = "send_check" /\ UNCHANGED reqs
  /\ UNCHANGED <<ssl, evts, io, kern, peer, cb>>

AppClose ==
  /\ main = "idle" /\ cb.seen \in {"connecting", "up"} /\ sock.state = "ESTABLISH" /\ sock.held
  /\ MainClose("ok", sock)
  /\ UNCHANGED <<ssl, evts, io, main, kern, peer, cb>>

-----------------------------------------------------------------------------
(* The kernel and the far end *)

OnlyKernel == UNCHANGED <<sock, ssl, evts, reqs, io, main, cb>>

KernConnected ==
  /\ kern.conn = "syn"
  /\ kern' = [kern EXCEPT !.conn = "up", !.ready = TRUE]
  /\ UNCHANGED peer /\ OnlyKernel

KernReset ==
  /\ kern.conn \in {"syn", "up"}
  /\ kern' = [kern EXCEPT !.conn = "reset", !.ready = kern.interest]
  /\ UNCHANGED peer /\ OnlyKernel

\* The far end reads everything; room is reported if a send has met a full buffer.
PeerReads ==
  /\ kern.conn = "up" /\ kern.tx # <<>>
  /\ peer' = [peer EXCEPT !.flights = @ + Len(SelectSeq(kern.tx, LAMBDA r : r = "hs"))]
  /\ kern' = [kern EXCEPT !.tx = <<>>, !.nospace = FALSE,
                          !.ready = @ \/ (kern.nospace /\ kern.interest)]
  /\ OnlyKernel

Deliver(r) == kern' = [kern EXCEPT !.rx = Append(@, r), !.ready = kern.interest]

\* Its next flight: a client says hello, a server answers it.
PeerFlight ==
  /\ kern.conn = "up" /\ ~kern.fin
  /\ IF sock.client THEN peer.sent = 0 /\ peer.flights = 1
     ELSE peer.sent = 0 \/ (peer.sent = 1 /\ peer.flights = 1)
  /\ peer' = [peer EXCEPT !.sent = @ + 1]
  /\ Deliver("hs")
  /\ OnlyKernel

\* Data after its last flight, or a record that is not TLS.
PeerSends ==
  /\ kern.conn = "up" /\ ~kern.fin /\ peer.left > 0
  /\ peer' = [peer EXCEPT !.left = @ - 1]
  /\ \/ peer.sent = (IF sock.client THEN 1 ELSE 2) /\ Deliver("data")
     \/ Deliver("bad")
  /\ OnlyKernel

PeerFin ==
  /\ kern.conn = "up" /\ ~kern.fin
  /\ kern' = [kern EXCEPT !.fin = TRUE, !.ready = kern.interest]
  /\ UNCHANGED peer /\ OnlyKernel

-----------------------------------------------------------------------------
IoReq ==
  \/ IoReqAccept \/ IoReqSslConnect \/ IoReqSend \/ IoReqRecvActivate
  \/ IoReqTerminate \/ IoReqClose

IoHandler ==
  \/ IoOnConnect \/ IoOnWritable \/ IoOnReadable \/ IoOnError
  \/ IoSendEnter \/ IoSslWrite \/ IoWriteDrained \/ IoSendActive
  \/ IoFlushSome \/ IoFlushAgain \/ IoFlushError \/ IoFlushed
  \/ IoRecvSome \/ IoRecvStop \/ IoSslRead \/ IoReadFull
  \/ IoRecvClose \/ IoRecvData \/ IoRecvFlushed \/ IoRecvEnd

IoLoop == IoReq \/ IoHandler

MainEvt ==
  \/ MainEstablish \/ MainSslEstablish \/ MainData \/ MainRecvActivate \/ MainEnd

MainTimers == MainTimerSend \/ MainTimerTerminate \/ MainTimerDelete
MainContinue == MainSendCheck \/ MainActiveCheck
App == AppSend \/ AppClose
PeerGoesOn == PeerReads \/ PeerFlight
Peer == KernConnected \/ KernReset \/ PeerGoesOn \/ PeerSends \/ PeerFin

Next ==
  \/ IoLoop \/ IoEpollWait
  \/ MainEvt \/ MainTimers \/ MainContinue \/ App
  \/ Peer

Spec == Init /\ [][Next]_vars

\* As in EpollTcp: both loops run on, and the visits of the main thread come round.  The far end
\* reads, and takes its turn in the handshake, unless it resets or shuts down the connection.
Fairness ==
  /\ WF_vars(IoLoop) /\ WF_vars(IoEpollWait)
  /\ SF_vars(MainEvt) /\ SF_vars(MainTimers) /\ WF_vars(MainContinue)
  /\ WF_vars(PeerGoesOn)

-----------------------------------------------------------------------------
(* Properties *)

\* The callbacks come in order: on_establish once, data only after it and before on_terminate,
\* and no CRUSH_CODE.  The one exception is a session whose last answer in the handshake could
\* not be sent: the code goes on to announce it behind its end, and when the timers of a main
\* thread that was held up give the slot back first, NET_EVENT_SSL_ESTABLISH meets CRUSH_CODE.
CallbacksInOrder == cb.wrong = "none" \/ cb.broken

\* What the receive cache holds is what the main thread knows of, what is announced, and what
\* the pass that is running has read: nothing in an established session waits unannounced.
ReceivedIsAnnounced ==
  sock.state = "ESTABLISH" =>
    sock.recv_used = sock.data_has_recv + io.got
                     + FoldSeq(LAMBDA e, n : n + e.len, 0, evts)

\* A slot that is given back is referred to by nothing, but for that late announcement, and its
\* TLS object is gone.
ReleasedIsClean ==
  ~sock.held => /\ evts = <<>> \/ cb.broken
                /\ reqs = <<>> /\ io.at = "idle" /\ main = "idle"
                /\ ~ssl.alive /\ ~kern.interest

SessionSafe == CallbacksInOrder /\ ReceivedIsAnnounced /\ ReleasedIsClean

\* The handshake goes on to its end and everything TLS has to send reaches the kernel, though
\* need_send_active only speaks of the cache; a session that ended gives its slot back.
Quiet ==
  \/ sock.state # "ESTABLISH"
  \/ sock.ssl_state = "HAND_SHAKE" /\ SendUsed = 0 /\ ssl.send = <<>> /\ sock.send_buf = <<>>
Ended == sock.held /\ sock.state \in {"TERMINATE", "DELETE"}

Moving ==
  /\ ~Quiet ~> Quiet
  /\ Ended ~> ~sock.held
=============================================================================
