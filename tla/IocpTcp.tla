------------------------------ MODULE IocpTcp ------------------------------
(***************************************************************************)
(* The plain TCP sessions of src/iocp_tcp.c, the Windows transport.        *)
(*                                                                         *)
(* Any io thread takes any completion from the port, so two handlers of    *)
(* one session run at the same time.  A session owns one overlapped        *)
(* structure for receiving and one for sending; nothing but the counters   *)
(* recv_req, recv_ack, send_req and send_ack says whether one is in use,   *)
(* and the slot goes back to the pool when they agree.  The main thread    *)
(* takes the events of all threads from one locked queue and runs the      *)
(* timers.  As in EpollTcp, data is counted, not stored, an armed timer    *)
(* may fire whenever the main thread is between two handlers, and a        *)
(* packet parser takes all the bytes it has, none of them, or refuses.     *)
(*                                                                         *)
(* The main thread asks whether a send is under way by comparing send_req  *)
(* with send_ack: two loads, in the order the compiler chose, while the io *)
(* threads move both.  It then does one of two things nothing in the code  *)
(* excludes, and the model ends there with a name for it in crush:         *)
(*   "misread"    the loads agree although a send is under way, and its    *)
(*                overlapped structure would be posted again;              *)
(*   "outlasted"  the counters agree, DELAY_CLOSE_SOCKET (15 ms) after the *)
(*                session's end, although the receive handler, which       *)
(*                counts its acknowledgement first, is still inside or an  *)
(*                event of it is queued, and the slot would be released.   *)
(* The other values of crush are assertions of the code that failed.       *)
(***************************************************************************)
EXTENDS Integers, Sequences, FiniteSets, SequencesExt, Announcements

CONSTANTS
  Sockets,      \* the slots of mgr->socket_pool
  Threads,      \* the io threads
  NoSock,       \* no socket
  SendCap,      \* usable bytes of a send_loop_cache
  RecvCap,      \* usable bytes of a recv_loop_cache
  EvtCap,       \* usable entries of evt_queue
  MaxTry,       \* MAX_TRY_CLOSE_SEND
  MaxAppBytes,  \* bound: bytes the application sends in one session
  MaxPeerBytes, \* bound: bytes the peer sends in one session
  MaxSessions   \* bound: connections begun in one behaviour

ASSUME IocpAssumption ==
  /\ NoSock \notin Sockets /\ IsFiniteSet(Threads)
  /\ {SendCap, RecvCap, EvtCap, MaxTry, MaxAppBytes, MaxPeerBytes, MaxSessions} \subseteq Nat

VARIABLES
  sock,       \* the fields of each iocp_tcp_socket
  pool,       \* the slots in the free list of the pool
  evt_queue,  \* io threads to main thread
  ops,        \* the outstanding operations of each socket's overlapped structures
  peer,       \* the far end of each connection
  th,         \* where each io thread is
  cb,         \* history: the callbacks the application has seen
  started,    \* connections begun so far
  look,       \* how far the main thread is in comparing the send counters of a session
  crush       \* "none", or what ended the process

vars == <<sock, pool, evt_queue, ops, peer, th, cb, started, look, crush>>

-----------------------------------------------------------------------------
(* Values *)

TerminalEvents == {"SYSTEM_ERROR", "MODULE_ERROR", "TERMINATE", "CONNECT_FAIL"}

\* _iocp_tcp_socket_reset.  error and the operation codes survive from the session before, and
\* so does tcp_socket, which every way out of a session has made INVALID_SOCKET.
Reset(s) == [s EXCEPT
  !.state = "NONE", !.recv_req = 0, !.recv_ack = 0, !.send_req = 0, !.send_ack = 0,
  !.data_need_send = 0, !.data_has_send = 0, !.data_has_recv = 0, !.try_close_send_count = 0,
  !.recv_used = 0, !.timer_send = FALSE, !.timer_close = FALSE]

NewSocket ==
  [state |-> "NONE", error |-> "ok", open |-> FALSE, recv_op |-> "RECV", send_op |-> "SEND",
   recv_req |-> 0, recv_ack |-> 0, send_req |-> 0, send_ack |-> 0,
   data_need_send |-> 0, data_has_send |-> 0, data_has_recv |-> 0, recv_used |-> 0,
   try_close_send_count |-> 0, timer_send |-> FALSE, timer_close |-> FALSE]

NoPeer == [up |-> FALSE, left |-> 0, taken |-> 0]
Idle == [at |-> "idle", sock |-> NoSock, kind |-> "none", n |-> 0, then |-> "idle"]
NoLook == [at |-> "none", sock |-> NoSock, first |-> "none", n |-> 0]

SendUsed(s) == sock[s].data_need_send - sock[s].data_has_send
RecvFree(s) == RecvCap - sock[s].recv_used

Init ==
  /\ sock = [s \in Sockets |-> NewSocket]
  /\ pool = Sockets
  /\ evt_queue = <<>>
  /\ ops = [s \in Sockets |-> [recv |-> <<>>, send |-> <<>>]]
  /\ peer = [s \in Sockets |-> NoPeer]
  /\ th = [t \in Threads |-> Idle]
  /\ cb = [s \in Sockets |-> "idle"]
  /\ started = 0
  /\ look = NoLook
  /\ crush = "none"

Running == crush = "none"

-----------------------------------------------------------------------------
(* Posting.  An operation is "posted" when the program queued its          *)
(* completion itself (0xffffffff bytes, or 0 for the requests), and "io"   *)
(* when the kernel answers it; len is the size of its buffer.  Each _post  *)
(* function counts the request, and takes it back when the call fails.     *)

\* The socket s with the overlapped structure `which` posted once more.
Post(s, which, kind, len) ==
  /\ ops' = [ops EXCEPT ![s][which] = Append(@, [kind |-> kind, len |-> len])]
  /\ UNCHANGED peer

PushEvt(type, s, n) ==
  IF Len(evt_queue) < EvtCap
  THEN evt_queue' = Append(evt_queue, [type |-> type, sock |-> s, len |-> n]) /\ UNCHANGED crush
  ELSE crush' = "evt_full" /\ UNCHANGED evt_queue

-----------------------------------------------------------------------------
(* The io threads: taking a completion from the port                       *)

At(t, label) == Running /\ th[t].at = label
GoTo(t, label) == th' = [th EXCEPT ![t].at = label]
Done(t) == th' = [th EXCEPT ![t] = Idle]

Begin(t, label, s, kind, n) == th' = [th EXCEPT ![t] = [Idle EXCEPT
  !.at = label, !.sock = s, !.kind = kind, !.n = n]]

\* What the operation o of s can complete with: the posted ones carry their marker, the kernel
\* fails an operation on a closed or reset connection, and a receive may find the end.
Completions(s, which, o) ==
  IF o.kind # "io" THEN {[kind |-> o.kind, n |-> 0]}
  ELSE IF ~sock[s].open \/ ~peer[s].up THEN {[kind |-> "fail", n |-> 0]}
  ELSE IF o.len = 0 THEN {[kind |-> "io", n |-> 0]}
  ELSE IF which = "send" THEN [kind : {"io"}, n : 1 .. o.len]
  ELSE {[kind |-> "end", n |-> 0]} \cup
       [kind : {"io"}, n : {k \in 1 .. o.len : k <= peer[s].left}]

\* GetQueuedCompletionStatus hands thread t the completion c of `which`.
Take(t, s, which, c) ==
  /\ At(t, "idle")
  /\ \E i \in 1 .. Len(ops[s][which]) :
       /\ c \in Completions(s, which, ops[s][which][i])
       /\ ops' = [ops EXCEPT ![s][which] = RemoveAt(@, i)]

Results == [kind : {"posted", "request", "fail", "end", "io"},
            n : 0 .. (IF SendCap > RecvCap THEN SendCap ELSE RecvCap)]

-----------------------------------------------------------------------------
(* _iocp_tcp_socket_close on an io thread, and the close request.  After   *)
(* the compare-and-swap the thread closes the descriptor and then queues   *)
(* the event that ends the session.                                        *)

\* The compare-and-swap, and what the winner stores.
CloseSwap(s, error) ==
  sock' = [sock EXCEPT ![s].state = "TERMINATE", ![s].error = error]

\* Mutant: the state is stored without a compare-and-swap.
IocpClose_PlainStore(t, s, error, then) ==
  CloseSwap(s, error) /\ th' = [th EXCEPT ![t].at = "closesocket", ![t].then = then]

\* The thread closes s with `error` and goes on at `then`.
IocpClose(t, s, error, then) ==
  IF sock[s].state = "ESTABLISH"
  THEN CloseSwap(s, error) /\ th' = [th EXCEPT ![t].at = "closesocket", ![t].then = then]
  ELSE UNCHANGED sock /\ (IF then = "idle" THEN Done(t) ELSE GoTo(t, then))

\* _iocp_tcp_socket_on_close_req: the descriptor ...
CloseSocket(t) ==
  /\ At(t, "closesocket")
  /\ sock' = [sock EXCEPT ![th[t].sock].open = FALSE]
  /\ GoTo(t, "push_end")
  /\ UNCHANGED <<pool, evt_queue, ops, peer, cb, started, crush, look>>

EndEvent(error) ==
  CASE error = "system" -> "SYSTEM_ERROR" [] error = "ok" -> "TERMINATE"
    [] OTHER -> "MODULE_ERROR"

\* ... and the event chosen by sock_ptr->error.
PushEnd(t) ==
  /\ At(t, "push_end")
  /\ PushEvt(EndEvent(sock[th[t].sock].error), th[t].sock, 0)
  /\ IF th[t].then = "idle" THEN Done(t) ELSE GoTo(t, th[t].then)
  /\ UNCHANGED <<sock, pool, ops, peer, cb, started, look>>

\* Mutant: the close request is not acknowledged.
TakeCloseReq_Uncounted(t, s) ==
  /\ sock[s].send_op = "CLOSE_REQ"
  /\ \E c \in Results : Take(t, s, "send", c)
  /\ Begin(t, "closesocket", s, "request", 0)
  /\ UNCHANGED <<sock, pool, evt_queue, peer, cb, started, crush, look>>

\* IOCP_OPT_CLOSE_REQ: the acknowledgement is counted before the closing.
TakeCloseReq(t, s) ==
  /\ sock[s].send_op = "CLOSE_REQ"
  /\ \E c \in Results : Take(t, s, "send", c)
  /\ sock' = [sock EXCEPT ![s].send_ack = @ + 1]
  /\ Begin(t, "closesocket", s, "request", 0)
  /\ UNCHANGED <<pool, evt_queue, peer, cb, started, crush, look>>

-----------------------------------------------------------------------------
(* _iocp_tcp_socket_on_recv *)

\* The acknowledgement is counted on entry.
TakeRecv(t, s) ==
  /\ sock[s].recv_op = "RECV"
  /\ \E c \in Results :
       /\ Take(t, s, "recv", c)
       /\ Begin(t, "recv", s, c.kind, c.n)
       /\ peer' = [peer EXCEPT ![s].left = @ - c.n]
  /\ sock' = [sock EXCEPT ![s].recv_ack = @ + 1]
  /\ UNCHANGED <<pool, evt_queue, cb, started, crush, look>>

\* Failure, a session that is over, the end of the stream, the marker, or bytes for the cache.
RecvDecide(t) ==
  /\ At(t, "recv")
  /\ LET s == th[t].sock
         up == sock[s].state = "ESTABLISH" IN
       \/ th[t].kind = "fail" /\ IocpClose(t, s, "system", "idle") /\ UNCHANGED crush
       \/ th[t].kind # "fail" /\ ~up /\ Done(t) /\ UNCHANGED <<sock, crush>>
       \/ th[t].kind = "end" /\ up /\ IocpClose(t, s, "ok", "idle") /\ UNCHANGED crush
       \/ th[t].kind = "posted" /\ up /\ GoTo(t, "recv_next") /\ UNCHANGED <<sock, crush>>
       \/ /\ th[t].kind = "io" /\ up
          /\ IF th[t].n > RecvFree(s)
             THEN crush' = "recv_cache" /\ UNCHANGED <<sock, th>>
             ELSE /\ sock' = [sock EXCEPT ![s].recv_used = @ + th[t].n]
                  /\ GoTo(t, "recv_push") /\ UNCHANGED crush
  /\ UNCHANGED <<pool, evt_queue, ops, peer, cb, started, look>>

\* _push_data_event reads the state before it takes the lock ...
RecvStillUp(t) ==
  /\ At(t, "recv_push")
  /\ GoTo(t, IF sock[th[t].sock].state = "ESTABLISH" THEN "recv_event" ELSE "recv_next")
  /\ UNCHANGED <<sock, pool, evt_queue, ops, peer, cb, started, crush, look>>

\* ... and queues the event under it.
RecvEvent(t) ==
  /\ At(t, "recv_event")
  /\ PushEvt("DATA", th[t].sock, th[t].n)
  /\ GoTo(t, "recv_next")
  /\ UNCHANGED <<sock, pool, ops, peer, cb, started, look>>

\* Mutant: the next receive is posted even when the cache is full.
RecvNext_Always(t) ==
  /\ At(t, "recv_next")
  /\ LET s == th[t].sock IN
       \/ /\ sock' = [sock EXCEPT ![s].recv_req = @ + 1]
          /\ Post(s, "recv", "io", 1) /\ Done(t)
       \/ /\ ~sock[s].open /\ IocpClose(t, s, "system", "idle") /\ UNCHANGED <<ops, peer>>
  /\ UNCHANGED <<pool, evt_queue, cb, started, crush, look>>

\* With free space the next receive is posted, which may fail; with none the main thread is
\* asked to come back to the session once it has read.
RecvNext(t) ==
  /\ At(t, "recv_next")
  /\ LET s == th[t].sock IN
       \/ /\ RecvFree(s) > 0 /\ sock[s].open
          /\ sock' = [sock EXCEPT ![s].recv_req = @ + 1]
          /\ Post(s, "recv", "io", RecvFree(s)) /\ Done(t)
       \/ /\ RecvFree(s) > 0 /\ (~sock[s].open \/ ~peer[s].up)
          /\ IocpClose(t, s, "system", "idle") /\ UNCHANGED <<ops, peer>>
       \/ /\ RecvFree(s) = 0 /\ UNCHANGED <<sock, ops, peer>>
          /\ IF sock[s].state = "ESTABLISH" THEN GoTo(t, "recv_active") ELSE Done(t)
  /\ UNCHANGED <<pool, evt_queue, cb, started, crush, look>>

\* _push_recv_active_event
RecvActive(t) ==
  /\ At(t, "recv_active")
  /\ PushEvt("RECV_ACTIVE", th[t].sock, 0)
  /\ Done(t)
  /\ UNCHANGED <<sock, pool, ops, peer, cb, started, look>>

-----------------------------------------------------------------------------
(* _iocp_tcp_socket_on_send *)

TakeSend(t, s) ==
  /\ sock[s].send_op = "SEND"
  /\ \E c \in Results : Take(t, s, "send", c) /\ Begin(t, "send", s, c.kind, c.n)
  /\ UNCHANGED <<sock, pool, evt_queue, peer, cb, started, crush, look>>

\* The states in which what was sent still counts: all but NONE and CONNECT.
Sending(s) == sock[s].state \in {"ESTABLISH", "CLOSE", "TERMINATE"}

\* Failure, the marker of a post by the program, or bytes that leave the cache.
SendDecide(t) ==
  /\ At(t, "send")
  /\ LET s == th[t].sock IN
       \/ /\ th[t].kind = "fail" \/ (th[t].kind = "io" /\ th[t].n = 0 /\ Sending(s))
          /\ IocpClose(t, s, "system", "send_ack") /\ UNCHANGED <<peer, crush>>
       \/ /\ th[t].kind # "fail" /\ ~Sending(s)
          /\ GoTo(t, "send_ack") /\ UNCHANGED <<sock, peer, crush>>
       \/ /\ th[t].kind = "posted" /\ Sending(s)
          /\ GoTo(t, "send_next") /\ UNCHANGED <<sock, peer, crush>>
       \/ /\ th[t].kind = "io" /\ th[t].n > 0 /\ Sending(s)
          /\ IF th[t].n > SendUsed(s)
             THEN crush' = "send_cache" /\ UNCHANGED <<sock, th, peer>>
             ELSE /\ sock' = [sock EXCEPT ![s].data_has_send = @ + th[t].n]
                  /\ peer' = [peer EXCEPT ![s].taken = @ + th[t].n]
                  /\ GoTo(t, "send_next") /\ UNCHANGED crush
  /\ UNCHANGED <<pool, evt_queue, ops, cb, started, look>>

\* More bytes are sent at once; the call may fail.
SendNext(t) ==
  /\ At(t, "send_next")
  /\ LET s == th[t].sock IN
       \/ /\ SendUsed(s) = 0
          /\ GoTo(t, "send_ack") /\ UNCHANGED <<sock, ops, peer>>
       \/ /\ SendUsed(s) > 0 /\ sock[s].open
          /\ sock' = [sock EXCEPT ![s].send_req = @ + 1]
          /\ Post(s, "send", "io", SendUsed(s))
          /\ GoTo(t, "send_ack")
       \/ /\ SendUsed(s) > 0 /\ (~sock[s].open \/ ~peer[s].up)
          /\ IocpClose(t, s, "system", "send_ack") /\ UNCHANGED <<ops, peer>>
  /\ UNCHANGED <<pool, evt_queue, cb, started, crush, look>>

\* The acknowledgement is the last thing the handler does.
SendAck(t) ==
  /\ At(t, "send_ack")
  /\ sock' = [sock EXCEPT ![th[t].sock].send_ack = @ + 1]
  /\ Done(t)
  /\ UNCHANGED <<pool, evt_queue, ops, peer, cb, started, crush, look>>

-----------------------------------------------------------------------------
(* Connecting and accepting *)

\* _iocp_tcp_socket_on_connect_req: every failure leads to ERROR_DEAL.
TakeConnectReq(t, s) ==
  /\ sock[s].recv_op = "CONNECT_REQ"
  /\ \E c \in Results : Take(t, s, "recv", c)
  /\ sock' = [sock EXCEPT ![s].recv_ack = @ + 1]
  /\ Begin(t, "connect_req", s, "request", 0)
  /\ UNCHANGED <<pool, evt_queue, peer, cb, started, crush, look>>

\* ERROR_DEAL of both connect handlers: the state and the descriptor, then the event.
ConnectError(t, s) ==
  /\ sock' = [sock EXCEPT ![s].state = "TERMINATE", ![s].open = FALSE]
  /\ GoTo(t, "connect_fail")

ConnectReq(t) ==
  /\ At(t, "connect_req")
  /\ LET s == th[t].sock IN
       \/ ConnectError(t, s) /\ UNCHANGED <<ops, peer>>
       \/ /\ sock' = [sock EXCEPT ![s].open = TRUE, ![s].recv_op = "CONNECT",
                                  ![s].recv_req = @ + 1]
          /\ ops' = [ops EXCEPT ![s].recv = Append(@, [kind |-> "io", len |-> 0])]
          /\ peer' = [peer EXCEPT ![s] = [up |-> TRUE, left |-> MaxPeerBytes, taken |-> 0]]
          /\ Done(t)
  /\ UNCHANGED <<pool, evt_queue, cb, started, crush, look>>

ConnectFail(t) ==
  /\ At(t, "connect_fail")
  /\ PushEvt("CONNECT_FAIL", th[t].sock, 0)
  /\ Done(t)
  /\ UNCHANGED <<sock, pool, ops, peer, cb, started, look>>

\* _iocp_tcp_socket_on_connect: ConnectEx has failed or the connection is up.
TakeConnect(t, s) ==
  /\ sock[s].recv_op = "CONNECT"
  /\ \E c \in Results : Take(t, s, "recv", c) /\ Begin(t, "connect", s, c.kind, 0)
  /\ sock' = [sock EXCEPT ![s].recv_ack = @ + 1]
  /\ UNCHANGED <<pool, evt_queue, peer, cb, started, crush, look>>

Connected(t) ==
  /\ At(t, "connect")
  /\ LET s == th[t].sock IN
       IF th[t].kind = "fail" THEN ConnectError(t, s)
       ELSE sock' = [sock EXCEPT ![s].state = "ESTABLISH"] /\ GoTo(t, "connect_ops")
  /\ UNCHANGED <<pool, evt_queue, ops, peer, cb, started, crush, look>>

\* The operation codes are stored after the state.
ConnectOps(t) ==
  /\ At(t, "connect_ops")
  /\ sock' = [sock EXCEPT ![th[t].sock].recv_op = "RECV", ![th[t].sock].send_op = "SEND"]
  /\ GoTo(t, "establish")
  /\ UNCHANGED <<pool, evt_queue, ops, peer, cb, started, crush, look>>

\* The event, and then the first receive, for both kinds of session.
Establish(t) ==
  /\ At(t, "establish")
  /\ PushEvt("ESTABLISH", th[t].sock, 0)
  /\ GoTo(t, "recv_next")
  /\ UNCHANGED <<sock, pool, ops, peer, cb, started, look>>

\* _iocp_tcp_listener_on_accept: a slot for the new connection.  When the port refuses the
\* descriptor the slot goes back at once, with tcp_socket left as it is.
Accept(t, s) ==
  /\ At(t, "idle") /\ s \in pool /\ started < MaxSessions
  /\ started' = started + 1
  /\ \/ /\ sock' = [sock EXCEPT ![s] = [Reset(@) EXCEPT !.state = "ESTABLISH", !.open = TRUE,
                                          !.recv_op = "RECV", !.send_op = "SEND"]]
        /\ pool' = pool \ {s}
        /\ peer' = [peer EXCEPT ![s] = [up |-> TRUE, left |-> MaxPeerBytes, taken |-> 0]]
        /\ Begin(t, "establish", s, "io", 0)
     \/ /\ sock' = [sock EXCEPT ![s] = [Reset(@) EXCEPT !.open = TRUE]]
        /\ UNCHANGED <<pool, peer, th>>
  /\ UNCHANGED <<evt_queue, ops, cb, crush, look>>

\* The far end resets the connection.
PeerReset(s) ==
  /\ Running /\ peer[s].up
  /\ peer' = [peer EXCEPT ![s].up = FALSE]
  /\ UNCHANGED <<sock, pool, evt_queue, ops, th, cb, started, crush, look>>

-----------------------------------------------------------------------------
(* The main thread: closing, and the question whether a send is under way  *)

\* The main thread is between two events, timers or calls.
MainFree == Running /\ look.at = "none"

\* _mod_timer_close
ModTimerClose(s) == [sock[s] EXCEPT !.timer_send = FALSE, !.timer_close = TRUE]

\* _iocp_tcp_socket_close on the main thread: what follows the compare-and-swap is atomic here,
\* the io threads only compare the state with ESTABLISH.
MainClosed(s, error) ==
  [ModTimerClose(s) EXCEPT !.state = "CLOSE", !.error = error]

MainClose(s, error) ==
  IF sock[s].state = "ESTABLISH" THEN sock' = [sock EXCEPT ![s] = MainClosed(s, error)]
  ELSE UNCHANGED sock

SendIdle(s) == sock[s].send_req = sock[s].send_ack

\* The main thread goes on to compare the counters of s; `at` says what for: to send, to send
\* once more in an orderly close, or to close.
Compare(s, at) == look' = [NoLook EXCEPT !.at = at, !.sock = s]

\* The counter loaded first, whichever the compiler chose ...
FirstLoad ==
  /\ Running /\ look.at # "none" /\ look.first = "none"
  /\ \E first \in {"req", "ack"} : look' = [look EXCEPT !.first = first,
       !.n = IF first = "req" THEN sock[look.sock].send_req ELSE sock[look.sock].send_ack]
  /\ UNCHANGED <<sock, pool, evt_queue, ops, peer, th, cb, started, crush>>

\* ... and the other, in the same step as what the answer leads to.
Agree ==
  /\ Running /\ look.first # "none"
  /\ look.n = IF look.first = "req" THEN sock[look.sock].send_ack ELSE sock[look.sock].send_req

\* A send is under way; its handler, or the next turn of the timer, will do.
Differ ==
  /\ Running /\ look.first # "none" /\ ~Agree
  /\ look' = NoLook
  /\ UNCHANGED <<sock, pool, evt_queue, ops, peer, th, cb, started, crush>>

Misread ==
  /\ Agree /\ ~SendIdle(look.sock)
  /\ crush' = "misread"
  /\ UNCHANGED <<sock, pool, evt_queue, ops, peer, th, cb, started, look>>

\* _iocp_tcp_socket_post_send_req: a completion queued by the program.
PostSendReq ==
  /\ Agree /\ SendIdle(look.sock) /\ look.at \in {"send", "again"}
  /\ sock' = [sock EXCEPT ![look.sock].send_req = @ + 1]
  /\ Post(look.sock, "send", "posted", 0)
  /\ look' = NoLook
  /\ UNCHANGED <<pool, evt_queue, th, cb, started, crush>>

\* _iocp_tcp_socket_post_close_req
PostCloseReq ==
  /\ Agree /\ SendIdle(look.sock) /\ look.at = "close"
  /\ sock' = [sock EXCEPT ![look.sock].send_req = @ + 1, ![look.sock].send_op = "CLOSE_REQ",
                          ![look.sock].state = "TERMINATE", ![look.sock].timer_close = FALSE]
  /\ Post(look.sock, "send", "request", 0)
  /\ look' = NoLook
  /\ UNCHANGED <<pool, evt_queue, th, cb, started, crush>>

\* The port refuses: a session that sends is closed, an orderly close sends no more, and a close
\* is tried again, its operation code stored already.
PostRefused ==
  /\ Agree /\ SendIdle(look.sock)
  /\ \/ look.at = "send" /\ MainClose(look.sock, "system")
     \/ look.at = "again" /\ sock' = [sock EXCEPT ![look.sock].try_close_send_count = MaxTry]
     \/ look.at = "close" /\ sock' = [sock EXCEPT ![look.sock].send_op = "CLOSE_REQ"]
  /\ look' = NoLook
  /\ UNCHANGED <<pool, evt_queue, ops, peer, th, cb, started, crush>>

-----------------------------------------------------------------------------
(* The main thread: the timers *)

\* Mutant: the timer for delayed sending does nothing.
OnTimerSend_Skips(s) ==
  /\ MainFree /\ sock[s].timer_send
  /\ UNCHANGED vars

\* _iocp_tcp_socket_on_timer_send picks up what no handler saw.
OnTimerSend(s) ==
  /\ MainFree /\ sock[s].timer_send
  /\ sock[s].state = "ESTABLISH" /\ SendUsed(s) # 0
  /\ Compare(s, "send")
  /\ UNCHANGED <<sock, pool, evt_queue, ops, peer, th, cb, started, crush>>

\* _iocp_tcp_socket_on_timer_close in state CLOSE: an orderly close spends one of its
\* MAX_TRY_CLOSE_SEND turns, on the unsent bytes if there are any ...
OnTimerCloseTry(s) ==
  /\ MainFree /\ sock[s].timer_close /\ sock[s].state = "CLOSE"
  /\ sock[s].error = "ok" /\ sock[s].try_close_send_count < MaxTry
  /\ sock' = [sock EXCEPT ![s].try_close_send_count = @ + 1]
  /\ Compare(s, IF SendUsed(s) # 0 THEN "again" ELSE "close")
  /\ UNCHANGED <<pool, evt_queue, ops, peer, th, cb, started, crush>>

\* ... and once they are spent, or after an error, the close request goes to the io threads as
\* soon as no send is under way.
OnTimerClose(s) ==
  /\ MainFree /\ sock[s].timer_close /\ sock[s].state = "CLOSE"
  /\ sock[s].error # "ok" \/ sock[s].try_close_send_count = MaxTry
  /\ Compare(s, "close")
  /\ UNCHANGED <<sock, pool, evt_queue, ops, peer, th, cb, started, crush>>

\* Neither a handler nor an event of s is left.
Quiet(s) ==
  /\ \A t \in Threads : th[t].sock # s
  /\ \A i \in DOMAIN evt_queue : evt_queue[i].sock # s

\* _iocp_tcp_socket_on_timer_close in state TERMINATE: the slot is free when the counters agree.
\* One step is exact here: nothing posts on the closed descriptor, so the requests stand still.
OnTimerFree(s) ==
  /\ MainFree /\ sock[s].timer_close /\ sock[s].state = "TERMINATE"
  /\ IF sock[s].open THEN crush' = "still_open" /\ UNCHANGED <<sock, pool, cb>>
     ELSE /\ sock[s].recv_req = sock[s].recv_ack /\ SendIdle(s)
          /\ IF Quiet(s)
             THEN /\ sock' = [sock EXCEPT ![s].timer_close = FALSE]
                  /\ pool' = pool \cup {s}
                  /\ cb' = [cb EXCEPT ![s] = "idle"]
                  /\ UNCHANGED crush
             ELSE crush' = "outlasted" /\ UNCHANGED <<sock, pool, cb>>
  /\ UNCHANGED <<evt_queue, ops, peer, th, started, look>>

-----------------------------------------------------------------------------
(* The main thread: _proc_net_event, one event *)

TakeEvt(type) ==
  /\ MainFree /\ evt_queue # <<>> /\ Head(evt_queue).type = type
  /\ evt_queue' = Tail(evt_queue)

EvtEstablish ==
  /\ TakeEvt("ESTABLISH")
  /\ LET s == Head(evt_queue).sock IN
       /\ sock' = [sock EXCEPT ![s].timer_send = TRUE]
       /\ cb' = [cb EXCEPT ![s] = IF @ \in {"idle", "connecting"} THEN "up" ELSE "wrong"]
  /\ UNCHANGED <<pool, ops, peer, th, started, crush, look>>

\* Mutant: bytes the parser left behind are forgotten.
EvtData_Forgets ==
  /\ TakeEvt("DATA")
  /\ LET s == Head(evt_queue).sock
         has == Head(evt_queue).len IN
       \/ sock' = [sock EXCEPT ![s].data_has_recv = 0, ![s].recv_used = @ - has]
       \/ sock' = [sock EXCEPT ![s].data_has_recv = has]
  /\ UNCHANGED <<pool, ops, peer, th, cb, started, crush, look>>

\* The parser takes all the bytes there are, none of them, or refuses them; the callback on_recv
\* runs for what it takes.
EvtData ==
  /\ TakeEvt("DATA")
  /\ LET s == Head(evt_queue).sock
         has == sock[s].data_has_recv + Head(evt_queue).len IN
       \/ sock' = [sock EXCEPT ![s].data_has_recv = 0, ![s].recv_used = @ - has]
       \/ sock' = [sock EXCEPT ![s].data_has_recv = has]
       \/ sock' = [sock EXCEPT ![s] =
            IF sock[s].state = "ESTABLISH"
            THEN [MainClosed(s, "packet") EXCEPT !.data_has_recv = has]
            ELSE [@ EXCEPT !.data_has_recv = has]]
  /\ UNCHANGED <<pool, ops, peer, th, cb, started, crush, look>>

\* The three ends of an established session.
EvtEnd ==
  /\ \E type \in TerminalEvents \ {"CONNECT_FAIL"} : TakeEvt(type)
  /\ LET s == Head(evt_queue).sock IN
       /\ sock' = [sock EXCEPT ![s] = ModTimerClose(s)]
       /\ cb' = [cb EXCEPT ![s] = IF @ = "up" THEN "down" ELSE "wrong"]
  /\ UNCHANGED <<pool, ops, peer, th, started, crush, look>>

EvtConnectFail ==
  /\ TakeEvt("CONNECT_FAIL")
  /\ LET s == Head(evt_queue).sock IN
       /\ sock' = [sock EXCEPT ![s] = ModTimerClose(s)]
       /\ cb' = [cb EXCEPT ![s] = IF @ = "connecting" THEN "down" ELSE "wrong"]
  /\ UNCHANGED <<pool, ops, peer, th, started, crush, look>>

\* Reading goes on, unless the parser left the cache full or the port refuses.
EvtRecvActive ==
  /\ TakeEvt("RECV_ACTIVE")
  /\ LET s == Head(evt_queue).sock IN
       \/ /\ sock[s].state = "ESTABLISH" /\ RecvFree(s) > 0
          /\ sock' = [sock EXCEPT ![s].recv_req = @ + 1]
          /\ Post(s, "recv", "posted", 0)
       \/ /\ sock[s].state = "ESTABLISH"
          /\ MainClose(s, IF RecvFree(s) = 0 THEN "overflow" ELSE "system")
          /\ UNCHANGED <<ops, peer>>
       \/ sock[s].state # "ESTABLISH" /\ UNCHANGED <<sock, ops, peer>>
  /\ UNCHANGED <<pool, th, cb, started, crush, look>>

-----------------------------------------------------------------------------
(* The application's calls, on the main thread.  It uses a session between *)
(* on_establish and on_terminate.                                          *)

\* net_tcp_connect: the address travels to the io threads through the receive cache, which the
\* handler empties again.  When the request cannot be posted the slot goes back.
NetTcpConnect(s) ==
  /\ MainFree /\ s \in pool /\ started < MaxSessions
  /\ started' = started + 1
  /\ \/ /\ sock' = [sock EXCEPT ![s] = [Reset(@) EXCEPT
                      !.state = "CONNECT", !.recv_op = "CONNECT_REQ", !.recv_req = 1]]
        /\ ops' = [ops EXCEPT ![s].recv = Append(@, [kind |-> "request", len |-> 0])]
        /\ pool' = pool \ {s}
        /\ cb' = [cb EXCEPT ![s] = "connecting"]
     \/ /\ sock' = [sock EXCEPT ![s] = [Reset(@) EXCEPT
                      !.state = "CONNECT", !.recv_op = "CONNECT_REQ"]]
        /\ UNCHANGED <<ops, pool, cb>>
  /\ UNCHANGED <<evt_queue, peer, th, crush, look>>

\* Mutant: the request is posted without asking whether a send is under way.
NetTcpSend_Unasked(s) ==
  /\ MainFree /\ cb[s] = "up" /\ sock[s].state = "ESTABLISH" /\ SendUsed(s) < SendCap
  /\ sock[s].data_need_send < MaxAppBytes
  /\ sock' = [sock EXCEPT ![s].data_need_send = @ + 1, ![s].send_req = @ + 1]
  /\ Post(s, "send", "posted", 0)
  /\ UNCHANGED <<pool, evt_queue, th, cb, started, crush, look>>

\* net_tcp_send of one byte, with no held back sending: a full cache ends the session, and a
\* send under way is left to find the byte.
NetTcpSend(s) ==
  /\ MainFree /\ cb[s] = "up" /\ sock[s].state = "ESTABLISH"
  /\ sock[s].data_need_send < MaxAppBytes
  /\ \/ /\ SendUsed(s) = SendCap
        /\ MainClose(s, "overflow") /\ UNCHANGED look
     \/ /\ SendUsed(s) < SendCap
        /\ sock' = [sock EXCEPT ![s].data_need_send = @ + 1]
        /\ Compare(s, "send")
  /\ UNCHANGED <<pool, evt_queue, ops, peer, th, cb, started, crush>>

\* net_tcp_close_session
NetTcpCloseSession(s) ==
  /\ MainFree /\ cb[s] = "up" /\ sock[s].state = "ESTABLISH"
  /\ MainClose(s, "ok")
  /\ UNCHANGED <<pool, evt_queue, ops, peer, th, cb, started, crush, look>>

-----------------------------------------------------------------------------
Dequeue(t) == \E s \in Sockets :
  TakeRecv(t, s) \/ TakeSend(t, s) \/ TakeCloseReq(t, s) \/ TakeConnectReq(t, s) \/ TakeConnect(t, s)

Handler(t) ==
  \/ CloseSocket(t) \/ PushEnd(t) \/ RecvDecide(t) \/ RecvStillUp(t) \/ RecvEvent(t)
  \/ RecvNext(t) \/ RecvActive(t) \/ SendDecide(t) \/ SendNext(t) \/ SendAck(t)
  \/ ConnectReq(t) \/ ConnectFail(t) \/ Connected(t) \/ ConnectOps(t) \/ Establish(t)

Events == EvtEstablish \/ EvtData \/ EvtEnd \/ EvtConnectFail \/ EvtRecvActive

TimerFires(s) == OnTimerSend(s) \/ OnTimerCloseTry(s) \/ OnTimerClose(s) \/ OnTimerFree(s)

Comparing == FirstLoad \/ Differ \/ Misread \/ PostSendReq \/ PostCloseReq \/ PostRefused

AppCalls(s) == NetTcpConnect(s) \/ NetTcpSend(s) \/ NetTcpCloseSession(s)

Next ==
  \/ \E t \in Threads : Dequeue(t) \/ Handler(t) \/ \E s \in Sockets : Accept(t, s)
  \/ Events \/ Comparing
  \/ \E s \in Sockets : TimerFires(s) \/ AppCalls(s) \/ PeerReset(s)

Spec == Init /\ [][Next]_vars

\* What the kernel owes: the answer to a send, a connect, and a receive whose end is decided.
\* A silent peer never answers a receive.
Answered(s) ==
  ~sock[s].open \/ ~peer[s].up \/ \E i \in DOMAIN ops[s].recv : ops[s].recv[i].kind = "posted"

Due(t) == \E s \in Sockets :
  \/ TakeSend(t, s) \/ TakeCloseReq(t, s) \/ TakeConnectReq(t, s) \/ TakeConnect(t, s)
  \/ Answered(s) /\ TakeRecv(t, s)

\* The threads loop for ever, the main thread goes on calling net_tcp_run, and the port does not
\* refuse the close requests of a session for ever.
LiveSpec ==
  /\ Spec
  /\ WF_vars(\E t \in Threads : Due(t))
  /\ \A t \in Threads : WF_vars(Handler(t))
  /\ WF_vars(Events) /\ WF_vars(Comparing) /\ SF_vars(PostCloseReq)
  /\ \A s \in Sockets : WF_vars(TimerFires(s))

\* The threads are alike: for runs that check invariants.
ThreadsAlike == Permutations(Threads)

-----------------------------------------------------------------------------
(* Properties *)

\* Ranges of the fields of a slot and of the queue of events (iocp_tcp.c:335-361, 438-459).
TypeOK ==
  /\ pool \subseteq Sockets
  /\ \A s \in Sockets :
       /\ sock[s].state \in {"NONE", "CONNECT", "ESTABLISH", "TERMINATE", "CLOSE"}
       /\ sock[s].recv_used \in 0 .. RecvCap /\ SendUsed(s) \in 0 .. SendCap
       /\ sock[s].data_has_recv \in 0 .. RecvCap
       /\ sock[s].try_close_send_count \in 0 .. MaxTry
  /\ \A t \in Threads : th[t].sock \in Sockets \cup {NoSock}
  /\ Len(evt_queue) <= EvtCap

\* The handlers of s that have taken a completion of its sending structure and not counted it.
Unacknowledged(s) ==
  {t \in Threads : th[t].sock = s /\ (th[t].at \in {"send", "send_next", "send_ack"}
                                      \/ th[t].then = "send_ack")}

\* The overlapped structures: an operation is never started while another one uses the same
\* structure, whichever of the main thread, two io threads and the close request starts it, and
\* the counters that say so are exact, so a slot in the pool is used by none.
StructuresExclusive ==
  \A s \in Sockets :
    /\ Len(ops[s].recv) <= 1
    /\ Len(ops[s].send) <= 1
    /\ sock[s].recv_req - sock[s].recv_ack = Len(ops[s].recv)
    /\ sock[s].send_req - sock[s].send_ack = Len(ops[s].send) + Cardinality(Unacknowledged(s))
    /\ s \in pool => ops[s] = [recv |-> <<>>, send |-> <<>>]

\* No assertion of the session code fails: the event queue and both caches have the room their
\* users count on, and a slot that is about to be freed has closed its descriptor.
NoCrush == crush \in {"none", "misread", "outlasted"}

\* Loading the acknowledgements first is safe whatever the io threads do.  Only the other order
\* misreads the counters, and only when a handler has posted the next send between the two loads.
MisreadOnlySo ==
  crush = "misread" => look.first = "req" /\ look.n < sock[look.sock].send_req

\* The timer would release the slot of s.
Releasable(s) ==
  /\ sock[s].timer_close /\ sock[s].state = "TERMINATE"
  /\ sock[s].recv_req = sock[s].recv_ack /\ SendIdle(s)

\* What can outlast a session whose counters agree is its one receive handler, past its count,
\* and the events that handler queues: no send, no operation, no end, and no open descriptor.
ReleaseSafe ==
  \A s \in Sockets : Releasable(s) =>
    /\ ~sock[s].open /\ ops[s] = [recv |-> <<>>, send |-> <<>>] /\ cb[s] = "down"
    /\ \A t \in Threads : th[t].sock = s =>
         /\ th[t].at \in {"recv", "recv_push", "recv_event", "recv_next", "recv_active"}
         /\ \A u \in Threads : th[u].sock = s => u = t
    /\ \A i \in DOMAIN evt_queue :
         evt_queue[i].sock = s => evt_queue[i].type \in {"DATA", "RECV_ACTIVE"}

\* What the handlers of the session code rely on: fields in their ranges, structures that no other
\* operation uses, no assertion that fails, and counters that err in the named cases only.
HandlersSafe ==
  TypeOK /\ StructuresExclusive /\ NoCrush /\ MisreadOnlySo /\ ReleaseSafe

\* The application hears of a session in order, and exactly one end of it, although the two io
\* threads and the main thread may each find a reason to end it.
CallbacksInOrder ==
  \A s \in Sockets :
    /\ cb[s] # "wrong"
    /\ s \in pool => cb[s] = "idle"
    /\ cb[s] = "down" => \A i \in DOMAIN evt_queue :
         evt_queue[i].sock = s => evt_queue[i].type \notin TerminalEvents \cup {"ESTABLISH"}

\* The bytes a handler of s has put into the receive cache and not announced yet.
Carrying(s) == {t \in Threads : th[t].sock = s /\ th[t].at \in {"recv_push", "recv_event"}}
Carried(s) == IF Carrying(s) = {} THEN 0 ELSE th[CHOOSE t \in Carrying(s) : TRUE].n

\* Bytes received are announced once: the receive cache holds what the parser has not taken and
\* what the events and the one handler that received still carry.
BytesAccounted ==
  \A s \in Sockets : sock[s].state = "ESTABLISH" =>
    /\ \A t, u \in Carrying(s) : t = u
    /\ sock[s].recv_used = sock[s].data_has_recv + Announced(evt_queue, s) + Carried(s)

\* A session that has begun to end gives its slot back, through the retries of an orderly close
\* and whichever operations are still outstanding then, unless the process is lost before.
Lost == crush \in {"misread", "outlasted"}
SlotsReturn ==
  \A s \in Sockets : sock[s].state \in {"CLOSE", "TERMINATE"} ~> (s \in pool \/ Lost)

\* Accepted bytes leave the cache while the session lives: a byte put there while a handler was
\* about to acknowledge, which neither side then sends, is found by the periodic timer.
AcceptedBytesSent ==
  \A s \in Sockets :
    sock[s].state = "ESTABLISH" /\ SendUsed(s) > 0
      ~> (SendUsed(s) = 0 \/ sock[s].state # "ESTABLISH" \/ Lost)
=============================================================================
